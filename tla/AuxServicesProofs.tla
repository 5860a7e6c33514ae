------------------------- MODULE AuxServicesProofs -------------------------
(***************************************************************************)
(* What the services over DynamoDB, the scripts that create its tables and *)
(* the requests of the Bitcoin service promise, for any number of items,   *)
(* threads, requests and nodes and any delay of the indices: one section   *)
(* for each, with its inductive invariant, the lemmas about its steps and  *)
(* its theorems.  The services share no state, so each invariant is one of *)
(* its own module's specification, which AuxSpec implies.                  *)
(***************************************************************************)
EXTENDS AuxServices, CircuitBreakerLemmas, FiniteSetTheorems, FunctionTheorems, SequenceTheorems,
        WellFoundedInduction

-----------------------------------------------------------------------------
(***************************************************************************)
(* Tables: what writes and indices do to the versions of an item.          *)
(***************************************************************************)
\* Tables: the versions of each item are a nonempty sequence.
Table(Ids, V) == {t \in [Ids -> Seq(V)] : \A i \in Ids : Len(t[i]) > 0}

\* The table after a write of v to item i, and after the indices took one in.
Written(t, i, v) == [t EXCEPT ![i] = Append(@, v)]
CaughtUp(t, i) == [t EXCEPT ![i] = Tail(@)]

(***************************************************************************)
(* What a write appends: the table's last version of that item.            *)
(***************************************************************************)
LEMMA WriteAppends ==
    ASSUME NEW Ids, NEW V, NEW t \in Table(Ids, V), NEW i \in Ids, NEW v \in V,
           NEW u, u = Written(t, i, v)
    PROVE  /\ u \in Table(Ids, V)
           /\ \A j \in Ids \ {i} : u[j] = t[j]
           /\ Len(u[i]) = Len(t[i]) + 1
           /\ \A k \in 1..Len(t[i]) : u[i][k] = t[i][k]
           /\ u[i][1] = t[i][1]
           /\ u[i][Len(u[i])] = v
<1>1. t[i] \in Seq(V) /\ Len(t[i]) \in Nat \ {0}
  BY LenProperties DEF Table
<1>2. /\ Append(t[i], v) \in Seq(V)
      /\ Len(Append(t[i], v)) = Len(t[i]) + 1
      /\ \A k \in 1..Len(t[i]) : Append(t[i], v)[k] = t[i][k]
      /\ Append(t[i], v)[Len(t[i]) + 1] = v
  BY <1>1, AppendProperties
<1>3. u[i] = Append(t[i], v) /\ \A j \in Ids \ {i} : u[j] = t[j]
  BY DEF Table, Written
<1>4. u \in [Ids -> Seq(V)]
  BY <1>2 DEF Table, Written, CaughtUp
<1>5. u \in Table(Ids, V)
  BY <1>1, <1>2, <1>3, <1>4 DEF Table
<1>6. QED BY <1>1, <1>2, <1>3, <1>5

(***************************************************************************)
(* An index that catches up drops the first version and keeps the last.    *)
(***************************************************************************)
LEMMA IndexDrops ==
    ASSUME NEW Ids, NEW V, NEW t \in Table(Ids, V), NEW i \in Ids, Len(t[i]) > 1,
           NEW u, u = CaughtUp(t, i)
    PROVE  /\ u \in Table(Ids, V)
           /\ \A j \in Ids \ {i} : u[j] = t[j]
           /\ Len(u[i]) = Len(t[i]) - 1
           /\ \A k \in 1..Len(u[i]) : u[i][k] = t[i][k + 1]
           /\ u[i][1] = t[i][2]
           /\ u[i][Len(u[i])] = t[i][Len(t[i])]
<1>1. t[i] \in Seq(V) /\ Len(t[i]) \in Nat \ {0} /\ t[i] # <<>>
  BY LenProperties DEF Table
<1>2. /\ Tail(t[i]) \in Seq(V)
      /\ Len(Tail(t[i])) = Len(t[i]) - 1
      /\ \A k \in 1..Len(Tail(t[i])) : Tail(t[i])[k] = t[i][k + 1]
  BY <1>1, HeadTailProperties
<1>3. u[i] = Tail(t[i]) /\ \A j \in Ids \ {i} : u[j] = t[j]
  BY DEF Table, CaughtUp
<1>4. u \in [Ids -> Seq(V)]
  BY <1>2 DEF Table, Written, CaughtUp
<1>5. u \in Table(Ids, V)
  BY <1>1, <1>2, <1>3, <1>4 DEF Table
<1>6. /\ Len(u[i]) = Len(t[i]) - 1
      /\ \A k \in 1..Len(u[i]) : u[i][k] = t[i][k + 1]
  BY <1>2, <1>3
<1>7. 1 \in 1..Len(u[i]) /\ Len(u[i]) \in 1..Len(u[i]) /\ Len(u[i]) + 1 = Len(t[i])
  BY <1>1, <1>6
<1>8. u[i][1] = t[i][2] /\ u[i][Len(u[i])] = t[i][Len(t[i])]
  BY <1>6, <1>7
<1>9. QED BY <1>3, <1>5, <1>6, <1>8

(***************************************************************************)
(* Every version is one of V, the one shown and the one held as well.      *)
(***************************************************************************)
LEMMA Versions ==
    ASSUME NEW Ids, NEW V, NEW t \in Table(Ids, V), NEW i \in Ids
    PROVE  /\ Len(t[i]) \in Nat \ {0}
           /\ \A k \in 1..Len(t[i]) : t[i][k] \in V
           /\ t[i][1] \in V /\ t[i][Len(t[i])] \in V
           /\ 1 \in 1..Len(t[i]) /\ Len(t[i]) \in 1..Len(t[i])
<1>1. t[i] \in Seq(V) /\ Len(t[i]) \in Nat \ {0}
  BY LenProperties DEF Table
<1>2. 1 \in 1..Len(t[i]) /\ Len(t[i]) \in 1..Len(t[i])
  BY <1>1
<1>3. QED BY <1>1, <1>2, ElementOfSeq

(***************************************************************************)
(* A table of items of V is one of items of W if all of V are.             *)
(***************************************************************************)
LEMMA MoreVersions ==
    ASSUME NEW Ids, NEW V, NEW W, V \subseteq W
    PROVE  Table(Ids, V) \subseteq Table(Ids, W)
<1>1. Seq(V) \subseteq Seq(W)
  BY SeqMonotonic
<1>2. QED BY <1>1 DEF Table

(***************************************************************************)
(* The empty table.                                                        *)
(***************************************************************************)
LEMMA NothingWritten ==
    ASSUME NEW Ids, NEW V, NEW v \in V, NEW t, t = [i \in Ids |-> <<v>>]
    PROVE  /\ t \in Table(Ids, V)
           /\ \A i \in Ids : Len(t[i]) = 1 /\ t[i][1] = v /\ t[i][Len(t[i])] = v
<1>1. <<v>> \in Seq(V) /\ Len(<<v>>) = 1 /\ <<v>>[1] = v
  OBVIOUS
<1>2. \A i \in Ids : t[i] = <<v>>
  OBVIOUS
<1>3. t \in [Ids -> Seq(V)]
  BY <1>1
<1>4. \A i \in Ids : Len(t[i]) = 1 /\ t[i][1] = v
  BY <1>1, <1>2
<1>5. t \in Table(Ids, V)
  <2>1. \A f \in [Ids -> Seq(V)] : (\A i \in Ids : Len(f[i]) > 0) => f \in Table(Ids, V)
    BY DEF Table
  <2>2. \A i \in Ids : Len(t[i]) > 0
    BY <1>4
  <2>3. QED BY <1>3, <2>1, <2>2
<1>6. \A i \in Ids : t[i][Len(t[i])] = v
  BY <1>4
<1>7. QED BY <1>4, <1>5, <1>6

-----------------------------------------------------------------------------
(***************************************************************************)
(* AuxKyc.  A thread about to raise a profile goes no further than the     *)
(* increments acknowledged (RaisesInOrder), and while no two requests      *)
(* overlapped it goes exactly one further (OneByOne).                      *)
(***************************************************************************)
\* A profile a thread is about to raise is there, and goes beyond no increment.
RaisesInOrder ==
    \A h \in Threads : raising[h] # None =>
        /\ Kyc!Held(profiles, raising[h].id) \notin Kyc!NoItem
        /\ raising[h].version \in 1..increments+2

\* The greatest version is accounted for, and so is the one about to be written.
OneByOne ==
    ~kycOverlapped =>
        /\ \A i \in Rows : Kyc!Held(profiles, i) \notin Kyc!NoItem =>
              \E j \in Rows : Kyc!Held(profiles, j) = increments + 1
        /\ \A h \in Threads : raising[h] # None =>
              /\ raising[h].version = increments + 2
              /\ \A k \in Threads : raising[k] # None => k = h

KycInv ==
    /\ increments \in 0..MaxCount /\ kycOverlapped \in BOOLEAN
    /\ raising \in [Threads -> [id : Rows, version : Nat] \cup {None}]
    /\ profiles \in Table(Rows, (1..increments+1) \cup Kyc!NoItem)
    /\ \A i \in Rows : Len(profiles[i]) <= MaxLag + 1
    /\ \A i \in Rows : \A k \in 2..Len(profiles[i]) : profiles[i][k] \notin Kyc!NoItem
    /\ (\A i \in Rows : Kyc!Held(profiles, i) \in Kyc!NoItem) => increments = 0
    /\ RaisesInOrder
    /\ OneByOne

\* What the assumptions say of the constants, as the steps below need it.
LEMMA KycConstants ==
    /\ MaxCount \in Nat /\ MaxLag \in Nat \ {0}
    /\ None \notin Rows /\ None \notin {Gone, Orphan}
    /\ \A v \in Nat : v \notin Kyc!NoItem
    /\ None \in Kyc!NoItem
BY AuxAssumption DEF Kyc!KycAssumption, Kyc!TableAssumption, Kyc!NoItem

\* A new profile is at version 1, the one no increment is needed for.
LEMMA KycCreates ==
    ASSUME KycInv, NEW i \in Rows, Kyc!Create(i)
    PROVE  KycInv'
<1> DEFINE V == (1..increments+1) \cup Kyc!NoItem
<1>1. /\ profiles[i] = <<None>> /\ profiles' = [profiles EXCEPT ![i] = Append(@, 1)]
      /\ raising' = raising /\ increments' = increments /\ kycOverlapped' = kycOverlapped
  BY DEF Kyc!Create, Kyc!Fresh, Kyc!PutItem, Kyc!Write
<1>2. 1 \in V /\ 1 \notin Kyc!NoItem /\ increments \in Nat
  BY KycConstants DEF KycInv
<1>3. /\ profiles' \in Table(Rows, V)
      /\ \A j \in Rows \ {i} : profiles'[j] = profiles[j]
      /\ Len(profiles'[i]) = 2 /\ profiles'[i][2] = 1
  <2>1. profiles \in Table(Rows, V)
    BY DEF KycInv
  <2>2. Len(profiles[i]) = 1
    BY <1>1
  <2>3. profiles' = Written(profiles, i, 1) /\ 1 \in V
    BY <1>1, <1>2 DEF Written
  <2> HIDE DEF V
  <2>4. /\ profiles' \in Table(Rows, V)
        /\ \A j \in Rows \ {i} : profiles'[j] = profiles[j]
        /\ Len(profiles'[i]) = Len(profiles[i]) + 1
        /\ profiles'[i][Len(profiles'[i])] = 1
    BY <2>1, <2>3, WriteAppends
  <2>5. QED BY <2>2, <2>4
<1>4. /\ Kyc!Held(profiles, i) = None /\ Kyc!Held(profiles', i) = 1
      /\ \A j \in Rows \ {i} : Kyc!Held(profiles', j) = Kyc!Held(profiles, j)
  BY <1>1, <1>3 DEF Kyc!Held
<1>5. \A j \in Rows : \A k \in 2..Len(profiles'[j]) : profiles'[j][k] \notin Kyc!NoItem
  BY <1>2, <1>3 DEF KycInv
<1>6. \A j \in Rows : Len(profiles'[j]) <= MaxLag + 1
  <2>1. 2 <= MaxLag + 1
    BY KycConstants
  <2>2. QED BY <1>3, <2>1 DEF KycInv
<1>7. RaisesInOrder'
  BY <1>1, <1>2, <1>4 DEF KycInv, RaisesInOrder
<1>8. OneByOne'
  <2> SUFFICES ASSUME ~kycOverlapped
               PROVE  /\ \A j \in Rows : Kyc!Held(profiles', j) \notin Kyc!NoItem =>
                            \E k \in Rows : Kyc!Held(profiles', k) = increments + 1
                      /\ \A h \in Threads : raising[h] # None =>
                            /\ raising[h].version = increments + 2
                            /\ \A k \in Threads : raising[k] # None => k = h
    BY <1>1 DEF OneByOne
  <2>1. CASE \A j \in Rows : Kyc!Held(profiles, j) \in Kyc!NoItem
    BY <1>4, <2>1 DEF KycInv, OneByOne
  <2>2. CASE \E j \in Rows : Kyc!Held(profiles, j) \notin Kyc!NoItem
    <3>1. PICK k \in Rows : Kyc!Held(profiles, k) = increments + 1
      BY <2>2 DEF KycInv, OneByOne
    <3>2. k # i
      BY <1>2, <1>4, <3>1, KycConstants
    <3>3. QED BY <1>4, <3>1, <3>2 DEF KycInv, OneByOne
  <2>3. QED BY <2>1, <2>2
<1>9. QED BY <1>1, <1>2, <1>3, <1>4, <1>5, <1>6, <1>7, <1>8 DEF KycInv

\* A thread reads a profile through the index and takes up its next version.
LEMMA KycReads ==
    ASSUME KycInv, NEW h \in Threads, Kyc!IncrementVersion(h)
    PROVE  KycInv'
<1>1. PICK i \in Kyc!Latest :
          /\ raising[h] = None
          /\ raising' = [raising EXCEPT ![h] = [id |-> i, version |-> Kyc!Shown(profiles, i) + 1]]
          /\ kycOverlapped' = (kycOverlapped \/ Kyc!Lagging(profiles) # {}
                                   \/ \E k \in Threads : raising[k] # None)
          /\ UNCHANGED <<profiles, increments>>
  BY DEF Kyc!IncrementVersion
<1>2. /\ i \in Rows /\ Kyc!Shown(profiles, i) \notin Kyc!NoItem
      /\ \A j \in Rows : Kyc!Shown(profiles, j) \notin Kyc!NoItem =>
            Kyc!Shown(profiles, j) <= Kyc!Shown(profiles, i)
  BY DEF Kyc!Latest, Kyc!Indexed, KycInv, Table
<1>3. \A j \in Rows :
          /\ Len(profiles[j]) \in Nat \ {0}
          /\ Kyc!Shown(profiles, j) \in (1..increments+1) \cup Kyc!NoItem
          /\ Kyc!Held(profiles, j) \in (1..increments+1) \cup Kyc!NoItem
  BY Versions DEF KycInv, Kyc!Shown, Kyc!Held
<1>4. Kyc!Held(profiles, i) \notin Kyc!NoItem
  <2>1. CASE Len(profiles[i]) = 1
    BY <1>2, <2>1 DEF Kyc!Held, Kyc!Shown
  <2>2. CASE Len(profiles[i]) # 1
    <3>1. Len(profiles[i]) \in 2..Len(profiles[i])
      <4>1. Len(profiles[i]) \in Nat \ {0}
        BY <1>2, <1>3
      <4>2. \A n \in Nat \ {0} : n # 1 => n \in 2..n
        OBVIOUS
      <4>3. QED BY <2>2, <4>1, <4>2
    <3>2. profiles[i][Len(profiles[i])] \notin Kyc!NoItem
      BY <1>2, <3>1 DEF KycInv
    <3>3. QED BY <3>2 DEF Kyc!Held
  <2>3. QED BY <2>1, <2>2
<1>5. /\ raising'[h].id = i /\ raising'[h].version = Kyc!Shown(profiles, i) + 1
      /\ \A k \in Threads \ {h} : raising'[k] = raising[k]
      /\ Kyc!Shown(profiles, i) \in 1..increments+1
  BY <1>1, <1>2, <1>3 DEF KycInv
<1>6. /\ raising' \in [Threads -> [id : Rows, version : Nat] \cup {None}]
      /\ kycOverlapped' \in BOOLEAN
  BY <1>1, <1>2, <1>5 DEF KycInv
<1>7. RaisesInOrder'
  <2>1. increments \in Nat
    BY DEF KycInv
  <2>2. \A k \in Threads : raising'[k] # None =>
            /\ Kyc!Held(profiles, raising'[k].id) \notin Kyc!NoItem
            /\ raising'[k].version \in 1..increments+2
    BY <1>4, <1>5, <2>1 DEF KycInv, RaisesInOrder
  <2>3. QED BY <1>1, <2>2 DEF RaisesInOrder
<1>8. OneByOne'
  <2> SUFFICES ASSUME ~kycOverlapped'
               PROVE  /\ \A j \in Rows : Kyc!Held(profiles, j) \notin Kyc!NoItem =>
                            \E k \in Rows : Kyc!Held(profiles, k) = increments + 1
                      /\ \A g \in Threads : raising'[g] # None =>
                            /\ raising'[g].version = increments + 2
                            /\ \A k \in Threads : raising'[k] # None => k = g
    BY <1>1 DEF OneByOne
  <2>1. /\ ~kycOverlapped /\ Kyc!Lagging(profiles) = {}
        /\ \A k \in Threads : raising[k] = None
    BY <1>1
  <2>2. \A j \in Rows : Kyc!Shown(profiles, j) = Kyc!Held(profiles, j)
    BY <1>3, <2>1 DEF Kyc!Lagging, Kyc!Shown, Kyc!Held, KycInv, Table
  <2>3. PICK k \in Rows : Kyc!Held(profiles, k) = increments + 1
    BY <1>2, <1>4, <2>1 DEF KycInv, OneByOne
  <2>4. Kyc!Shown(profiles, i) = increments + 1
    <3>1. increments + 1 \in Nat
      BY DEF KycInv
    <3>2. Kyc!Shown(profiles, k) \notin Kyc!NoItem
      BY <2>2, <2>3, <3>1, KycConstants
    <3>3. QED BY <1>2, <1>5, <2>2, <2>3, <3>1, <3>2
  <2>5. \A g \in Threads : raising'[g] # None => g = h
    BY <1>5, <2>1
  <2>6. raising'[h].version = increments + 2
    BY <1>5, <2>4 DEF KycInv
  <2>7. QED BY <2>3, <2>5, <2>6
<1>9. QED BY <1>1, <1>6, <1>7, <1>8 DEF KycInv, Kyc!Held

\* The update writes the version read plus one, and is acknowledged.
LEMMA KycWrites ==
    ASSUME KycInv, NEW h \in Threads, Kyc!UpdateProfile(h)
    PROVE  KycInv'
<1> DEFINE r == raising[h]
           V == (1..increments+2) \cup Kyc!NoItem
<1>1. /\ r # None /\ Len(profiles[r.id]) <= MaxLag /\ increments < MaxCount
      /\ profiles' = [profiles EXCEPT ![r.id] = Append(@,
                          IF Kyc!Held(profiles, r.id) \in Kyc!NoItem THEN Orphan ELSE r.version)]
      /\ raising' = [raising EXCEPT ![h] = None]
      /\ increments' = increments + 1
      /\ kycOverlapped' = kycOverlapped
  BY DEF Kyc!UpdateProfile, Kyc!HasRoom, Kyc!UpdateItem, Kyc!Write
<1>2. /\ r.id \in Rows /\ r.version \in 1..increments+2 /\ r.version \notin Kyc!NoItem
      /\ Kyc!Held(profiles, r.id) \notin Kyc!NoItem
  BY <1>1, KycConstants DEF KycInv, RaisesInOrder
<1>3. increments \in Nat /\ increments' \in 0..MaxCount /\ increments' + 1 = increments + 2
  BY <1>1, KycConstants DEF KycInv
<1>4. /\ profiles' \in Table(Rows, V)
      /\ \A j \in Rows \ {r.id} : profiles'[j] = profiles[j]
      /\ Len(profiles[r.id]) \in Nat \ {0}
      /\ Len(profiles'[r.id]) = Len(profiles[r.id]) + 1
      /\ \A k \in 1..Len(profiles[r.id]) : profiles'[r.id][k] = profiles[r.id][k]
      /\ profiles'[r.id][Len(profiles'[r.id])] = r.version
  <2>1. profiles \in Table(Rows, (1..increments+1) \cup Kyc!NoItem)
    BY DEF KycInv
  <2>2. (1..increments+1) \cup Kyc!NoItem \subseteq V
    BY <1>3
  <2>3. profiles \in Table(Rows, V) /\ r.version \in V
    BY <1>2, <2>1, <2>2, MoreVersions
  <2>4. profiles' = Written(profiles, r.id, r.version)
    BY <1>1, <1>2 DEF Written
  <2>5. Len(profiles[r.id]) \in Nat \ {0}
    <3> HIDE DEF V
    <3>1. QED BY <1>2, <2>3, Versions
  <2> HIDE DEF V, r
  <2>6. QED BY <1>2, <2>3, <2>4, <2>5, WriteAppends
<1>5. \A j \in Rows : \A k \in 2..Len(profiles'[j]) : profiles'[j][k] \notin Kyc!NoItem
  <2>1. \A k \in 2..Len(profiles'[r.id]) :
            k \in 2..Len(profiles[r.id]) \/ k = Len(profiles'[r.id])
    BY <1>4
  <2>2. \A k \in 2..Len(profiles[r.id]) : profiles'[r.id][k] = profiles[r.id][k]
    BY <1>4
  <2>3. \A j \in Rows : \A k \in 2..Len(profiles[j]) : profiles[j][k] \notin Kyc!NoItem
    BY DEF KycInv
  <2>4. \A k \in 2..Len(profiles'[r.id]) : profiles'[r.id][k] \notin Kyc!NoItem
    BY <1>2, <1>4, <2>1, <2>2, <2>3
  <2>5. QED BY <1>4, <2>3, <2>4
<1>6. \A j \in Rows : Len(profiles'[j]) <= MaxLag + 1
  BY <1>1, <1>4, KycConstants DEF KycInv
<1>7. /\ Kyc!Held(profiles', r.id) = r.version
      /\ \A j \in Rows : j # r.id => Kyc!Held(profiles', j) = Kyc!Held(profiles, j)
      /\ \A j \in Rows : Kyc!Held(profiles, j) \notin Kyc!NoItem
                            => Kyc!Held(profiles', j) \notin Kyc!NoItem
  BY <1>2, <1>4 DEF Kyc!Held
<1>8. raising'[h] = None /\ \A k \in Threads \ {h} : raising'[k] = raising[k]
  BY <1>1 DEF KycInv
<1>9. /\ raising' \in [Threads -> [id : Rows, version : Nat] \cup {None}]
  BY <1>1 DEF KycInv
<1>10. RaisesInOrder'
  <2>1. ASSUME NEW k \in Threads, raising'[k] # None
        PROVE  /\ Kyc!Held(profiles', raising'[k].id) \notin Kyc!NoItem
               /\ raising'[k].version \in 1..increments'+2
    <3>1. raising'[k] = raising[k] /\ raising[k].id \in Rows
      BY <1>8, <2>1 DEF KycInv
    <3>2. /\ Kyc!Held(profiles, raising[k].id) \notin Kyc!NoItem
          /\ raising[k].version \in 1..increments+2
      BY <2>1, <3>1 DEF KycInv, RaisesInOrder
    <3>3. Kyc!Held(profiles', raising'[k].id) \notin Kyc!NoItem
      BY <1>7, <3>1, <3>2
    <3>4. raising'[k].version \in 1..increments'+2
      BY <1>1, <1>3, <3>1, <3>2
    <3>5. QED BY <3>3, <3>4
  <2>2. QED BY <2>1 DEF RaisesInOrder
<1>11. OneByOne'
  <2> SUFFICES ASSUME ~kycOverlapped
               PROVE  /\ \E k \in Rows : Kyc!Held(profiles', k) = increments' + 1
                      /\ \A g \in Threads : raising'[g] = None
    BY <1>1 DEF OneByOne
  <2>1. r.version = increments + 2 /\ \A k \in Threads : raising[k] # None => k = h
    BY <1>1 DEF KycInv, OneByOne
  <2>2. QED BY <1>2, <1>3, <1>7, <1>8, <2>1
<1>12. ~(\A i \in Rows : Kyc!Held(profiles', i) \in Kyc!NoItem)
  BY <1>2, <1>7
<1>13. V = (1..increments'+1) \cup Kyc!NoItem
  BY <1>3
<1>14. QED BY <1>1, <1>3, <1>4, <1>5, <1>6, <1>9, <1>10, <1>11, <1>12, <1>13 DEF KycInv

\* An index that catches up changes no version the table holds.
LEMMA KycShows ==
    ASSUME KycInv, NEW i \in Rows, Kyc!IndexCatchesUp(i)
    PROVE  KycInv'
<1> DEFINE V == (1..increments+1) \cup Kyc!NoItem
<1>1. /\ Len(profiles[i]) > 1 /\ profiles' = [profiles EXCEPT ![i] = Tail(@)]
      /\ raising' = raising /\ increments' = increments /\ kycOverlapped' = kycOverlapped
  BY DEF Kyc!IndexCatchesUp, Kyc!Lagging, Kyc!CatchUp
<1>2. /\ profiles' \in Table(Rows, V)
      /\ \A j \in Rows \ {i} : profiles'[j] = profiles[j]
      /\ Len(profiles[i]) \in Nat \ {0}
      /\ Len(profiles'[i]) = Len(profiles[i]) - 1
      /\ \A k \in 1..Len(profiles'[i]) : profiles'[i][k] = profiles[i][k + 1]
      /\ profiles'[i][Len(profiles'[i])] = profiles[i][Len(profiles[i])]
  <2>1. profiles \in Table(Rows, V)
    BY DEF KycInv
  <2>2. profiles' = CaughtUp(profiles, i) /\ Len(profiles[i]) > 1
    BY <1>1 DEF CaughtUp
  <2> HIDE DEF V
  <2>3. QED BY <2>1, <2>2, IndexDrops, Versions
<1>3. \A j \in Rows : Kyc!Held(profiles', j) = Kyc!Held(profiles, j)
  BY <1>2 DEF Kyc!Held
<1>4. \A j \in Rows : \A k \in 2..Len(profiles'[j]) : profiles'[j][k] \notin Kyc!NoItem
  <2>1. \A k \in 2..Len(profiles'[i]) : k \in 1..Len(profiles'[i]) /\ k + 1 \in 2..Len(profiles[i])
    BY <1>2
  <2>2. QED BY <1>2, <2>1 DEF KycInv
<1>5. \A j \in Rows : Len(profiles'[j]) <= MaxLag + 1
  BY <1>2, KycConstants DEF KycInv
<1>6. RaisesInOrder'
  BY <1>1, <1>3 DEF KycInv, RaisesInOrder
<1>7. OneByOne'
  BY <1>1, <1>3 DEF KycInv, OneByOne
<1>8. QED BY <1>1, <1>2, <1>3, <1>4, <1>5, <1>6, <1>7 DEF KycInv

\* KycInv holds in every state.
LEMMA KycInvariant == Kyc!Spec => []KycInv
<1>1. Kyc!Init => KycInv
  <2> SUFFICES ASSUME Kyc!Init PROVE KycInv
    OBVIOUS
  <2>1. /\ profiles = [i \in Rows |-> <<None>>] /\ raising = [h \in Threads |-> None]
        /\ increments = 0 /\ kycOverlapped = FALSE
    BY DEF Kyc!Init, Kyc!EmptyTable
  <2>2. /\ profiles \in Table(Rows, (1..increments+1) \cup Kyc!NoItem)
        /\ \A i \in Rows : Len(profiles[i]) = 1 /\ Kyc!Held(profiles, i) = None
    BY <2>1, NothingWritten, KycConstants DEF Kyc!Held
  <2>3. \A i \in Rows : Len(profiles[i]) <= MaxLag + 1 /\ 2..Len(profiles[i]) = {}
    <3>1. 1 <= MaxLag + 1 /\ 2..1 = {}
      BY KycConstants
    <3>2. QED BY <2>2, <3>1
  <2>4. \A i \in Rows : Kyc!Held(profiles, i) \in Kyc!NoItem
    BY <2>2, KycConstants
  <2>5. RaisesInOrder /\ OneByOne
    BY <2>1, <2>4 DEF RaisesInOrder, OneByOne
  <2>6. /\ increments \in 0..MaxCount /\ kycOverlapped \in BOOLEAN
        /\ raising \in [Threads -> [id : Rows, version : Nat] \cup {None}]
    <3>1. 0 \in 0..MaxCount
      BY KycConstants
    <3>2. QED BY <2>1, <3>1
  <2>7. QED BY <2>1, <2>2, <2>3, <2>4, <2>5, <2>6 DEF KycInv
<1>2. KycInv /\ [Kyc!Next]_(Kyc!vars) => KycInv'
  <2>1. ASSUME KycInv, UNCHANGED Kyc!vars PROVE KycInv'
    BY <2>1 DEF KycInv, RaisesInOrder, OneByOne, Kyc!vars, Kyc!Held
  <2>2. QED BY <2>1, KycCreates, KycReads, KycWrites, KycShows DEF Kyc!Next
<1>3. QED BY <1>1, <1>2, PTL DEF Kyc!Spec

\* The steps of the other services do not touch the profiles.
LEMMA KycFollows == AuxSpec => Kyc!Spec
<1>1. AuxInit => Kyc!Init
  BY DEF AuxInit
<1>2. [AuxNext]_auxVars => [Kyc!Next]_(Kyc!vars)
  BY DEF AuxNext, SessionStep, KycStep, LimitStep, UserStep, DeployStep, NodeStep,
         auxVars, kycVars, Kyc!vars
<1>3. QED BY <1>1, <1>2, PTL DEF AuxSpec, Kyc!Spec

(***************************************************************************)
(* AuxKyc, for any number of profiles and threads: no profile is at a      *)
(* version beyond the increments acknowledged, and while no two requests   *)
(* overlapped, nor one began before the index had caught up, some profile  *)
(* has them all.                                                           *)
(***************************************************************************)
THEOREM NoVersionIsLost == AuxSpec => []VersionsAccounted
<1>1. KycInv => VersionsAccounted
  <2> SUFFICES ASSUME KycInv PROVE VersionsAccounted
    OBVIOUS
  <2>1. Kyc!Present(profiles) = {i \in Rows : Kyc!Held(profiles, i) \notin Kyc!NoItem}
    BY DEF Kyc!Present, KycInv, Table
  <2>2. \A i \in Rows : Kyc!Held(profiles, i) \in (1..increments+1) \cup Kyc!NoItem
    BY Versions DEF KycInv, Kyc!Held
  <2>3. increments + 1 \in Nat /\ increments + 1 \notin Kyc!NoItem
    BY KycConstants DEF KycInv
  <2>4. \A i \in Kyc!Present(profiles) : Kyc!Held(profiles, i) <= increments + 1
    BY <2>1, <2>2, <2>3
  <2>5. ~kycOverlapped /\ Kyc!Present(profiles) # {} =>
            \E i \in Kyc!Present(profiles) : Kyc!Held(profiles, i) = increments + 1
    BY <2>1, <2>3 DEF KycInv, OneByOne
  <2>6. QED BY <2>4, <2>5 DEF VersionsAccounted, Kyc!VersionsAccounted
<1>2. QED BY <1>1, KycInvariant, KycFollows, PTL

-----------------------------------------------------------------------------
(***************************************************************************)
(* AuxSessions.  Every version of every session, the ones the index may    *)
(* still show included, is within what a create or a refresh last granted  *)
(* (Earned), and no id is created twice (CreatesAnew).                     *)
(***************************************************************************)
\* No session outlasts what was last granted, nor was used after what was last noted.
Earned ==
    {s \in Sessions!Session : s.last_accessed <= touched /\ s.expires_at <= granted}

\* The id of a session about to be stored is nobody else's.
CreatesAnew ==
    \A h \in Threads : serving[h] # None /\ serving[h].op = "create" =>
        /\ sessions[serving[h].id] = <<None>>
        /\ \A k \in Threads \ {h} : serving[k] # None => serving[k].id # serving[h].id

SessionInv ==
    /\ now \in Sessions!Time /\ answer \in BOOLEAN
    /\ touched \in Sessions!Time /\ granted \in Nat
    /\ serving \in [Threads -> Sessions!Request \cup {None}]
    /\ sessions \in Table(Rows, Earned \cup Sessions!NoItem)
    /\ \A i \in Rows : Len(sessions[i]) <= ShortLag + 1
    /\ CreatesAnew

\* What the assumptions say of the constants, as the steps below need it.
LEMMA SessionConstants ==
    /\ MaxTime \in Nat /\ ShortLag \in Nat \ {0} /\ Lifetime \in Nat /\ Inactivity \in Nat
    /\ Durations \subseteq Nat
    /\ None \notin Rows /\ None \notin {Gone, Orphan}
    /\ Sessions!NoItem = {None, Gone, Orphan}
BY AuxAssumption DEF Sessions!SessionAssumption, Sessions!TableAssumption, Sessions!NoItem

\* A session the index shows is one the table has or had.
LEMMA SessionsShown ==
    ASSUME SessionInv, NEW i \in Sessions!Indexed(sessions)
    PROVE  i \in Rows /\ Sessions!Shown(sessions, i) \in Earned
<1>1. i \in Rows /\ Sessions!Shown(sessions, i) \notin Sessions!NoItem
  BY DEF Sessions!Indexed, SessionInv, Table
<1>2. Sessions!Shown(sessions, i) \in Earned \cup Sessions!NoItem
  BY <1>1, Versions DEF SessionInv, Sessions!Shown
<1>3. QED BY <1>1, <1>2

\* A request begins.
LEMMA SessionStarts ==
    ASSUME SessionInv, NEW h \in Threads, NEW i \in Rows, NEW until \in Nat,
           NEW op \in {"create", "get", "refresh", "delete"},
           Sessions!Start(h, op, i, until),
           IF op = "create"
           THEN /\ sessions[i] = <<None>>
                /\ \A k \in Threads : serving[k] # None => serving[k].id # i
           ELSE i \in Sessions!Indexed(sessions)
    PROVE  SessionInv'
<1>1. /\ serving[h] = None
      /\ serving' = [serving EXCEPT ![h] = [op |-> op, id |-> i, at |-> now, until |-> until]]
      /\ UNCHANGED <<now, sessions, answer, touched, granted>>
  BY DEF Sessions!Start
<1>2. serving' \in [Threads -> Sessions!Request \cup {None}]
  BY <1>1 DEF SessionInv, Sessions!Request
<1>3. /\ serving'[h].id = i /\ serving'[h].op = op
      /\ \A k \in Threads \ {h} : serving'[k] = serving[k]
  BY <1>1 DEF SessionInv
<1>4. op # "create" => sessions[i] # <<None>>
  BY SessionConstants DEF Sessions!Indexed, Sessions!Shown
<1>5. CreatesAnew'
  <2> SUFFICES ASSUME NEW k \in Threads, serving'[k] # None, serving'[k].op = "create"
               PROVE  /\ sessions'[serving'[k].id] = <<None>>
                      /\ \A m \in Threads \ {k} : serving'[m] # None => serving'[m].id # serving'[k].id
    BY DEF CreatesAnew
  <2>1. CASE k = h
    BY <1>1, <1>3, <2>1
  <2>2. CASE k # h
    <3>1. /\ sessions[serving[k].id] = <<None>>
          /\ \A m \in Threads \ {k} : serving[m] # None => serving[m].id # serving[k].id
      BY <1>3, <2>2 DEF SessionInv, CreatesAnew
    <3>2. serving[k].id # i
      BY <1>3, <1>4, <2>2, <3>1
    <3>3. QED BY <1>1, <1>3, <2>2, <3>1, <3>2
  <2>3. QED BY <2>1, <2>2
<1>6. QED BY <1>1, <1>2, <1>5 DEF SessionInv, Earned

\* A request that begins changes no session.
LEMMA SessionsBegin ==
    ASSUME SessionInv, NEW h \in Threads, NEW i \in Rows,
           \/ Sessions!CreateSession(h, i) \/ Sessions!GetSession(h, i)
           \/ Sessions!RefreshSession(h, i) \/ Sessions!DeleteSession(h, i)
    PROVE  SessionInv'
<1>1. now \in Nat
  BY SessionConstants DEF SessionInv, Sessions!Time
<1>2. ASSUME Sessions!CreateSession(h, i) PROVE SessionInv'
  <2>1. PICK d \in Durations \cup {Lifetime} : Sessions!Start(h, "create", i, now + d)
    BY <1>2 DEF Sessions!CreateSession
  <2>2. /\ sessions[i] = <<None>>
        /\ \A k \in Threads : serving[k] # None => serving[k].id # i
    BY <1>2 DEF Sessions!CreateSession, Sessions!Fresh
  <2>3. now + d \in Nat
    BY <1>1, SessionConstants
  <2>4. QED BY <2>1, <2>2, <2>3, SessionStarts
<1>3. Sessions!ResolveByEmail \cup Sessions!Resolve \subseteq Sessions!Indexed(sessions)
  BY DEF Sessions!ResolveByEmail, Sessions!Resolve
<1>4. ASSUME Sessions!GetSession(h, i) PROVE SessionInv'
  BY <1>1, <1>3, <1>4, SessionStarts DEF Sessions!GetSession
<1>5. ASSUME Sessions!RefreshSession(h, i) PROVE SessionInv'
  <2>1. now + Lifetime \in Nat
    BY <1>1, SessionConstants
  <2>2. QED BY <1>3, <1>5, <2>1, SessionStarts DEF Sessions!RefreshSession
<1>6. ASSUME Sessions!DeleteSession(h, i) PROVE SessionInv'
  BY <1>1, <1>3, <1>6, SessionStarts DEF Sessions!DeleteSession
<1>7. QED BY <1>2, <1>4, <1>5, <1>6

\* A request writes an item and is over.
LEMMA SessionWrites ==
    ASSUME SessionInv, NEW h \in Threads, serving[h] # None,
           NEW v, v \in Earned' \cup Sessions!NoItem,
           sessions' = Written(sessions, serving[h].id, v),
           Len(sessions[serving[h].id]) <= ShortLag,
           Sessions!Finish(h),
           UNCHANGED <<now, answer>>,
           touched' \in Sessions!Time, touched <= touched', granted' \in Nat, granted <= granted'
    PROVE  SessionInv'
<1> DEFINE i == serving[h].id
           V == (Earned \cup Sessions!NoItem)'
<1>1. i \in Rows
  BY DEF SessionInv, Sessions!Request
<1>2. /\ serving' \in [Threads -> Sessions!Request \cup {None}]
      /\ serving'[h] = None /\ \A k \in Threads \ {h} : serving'[k] = serving[k]
  BY DEF Sessions!Finish, SessionInv
<1>3. Earned \subseteq Earned'
  <2>1. \A s \in Sessions!Session : s.last_accessed \in Nat /\ s.expires_at \in Nat
    BY SessionConstants DEF Sessions!Session, Sessions!Time
  <2>2. touched \in Nat /\ touched' \in Nat /\ granted \in Nat
    BY SessionConstants DEF SessionInv, Sessions!Time
  <2>3. Sessions!Session' = Sessions!Session
    BY DEF Sessions!Session
  <2>4. QED BY <2>1, <2>2, <2>3 DEF Earned
<1>4. sessions \in Table(Rows, V)
  <2>1. sessions \in Table(Rows, Earned \cup Sessions!NoItem)
    BY DEF SessionInv
  <2>2. Earned \cup Sessions!NoItem \subseteq V
    BY <1>3
  <2> HIDE DEF V
  <2>3. QED BY <2>1, <2>2, MoreVersions
<1>5. /\ sessions' \in Table(Rows, V)
      /\ \A j \in Rows \ {i} : sessions'[j] = sessions[j]
      /\ Len(sessions'[i]) = Len(sessions[i]) + 1
      /\ Len(sessions[i]) \in Nat
  <2>1. v \in V /\ sessions' = Written(sessions, i, v)
    OBVIOUS
  <2> HIDE DEF V, i
  <2>2. QED BY <1>1, <1>4, <2>1, WriteAppends, Versions
<1>6. \A j \in Rows : Len(sessions'[j]) <= ShortLag + 1
  BY <1>5, SessionConstants DEF SessionInv
<1>7. CreatesAnew'
  <2>1. ASSUME NEW k \in Threads, serving'[k] # None, serving'[k].op = "create"
        PROVE  /\ sessions'[serving'[k].id] = <<None>>
               /\ \A g \in Threads \ {k} : serving'[g] # None => serving'[g].id # serving'[k].id
    <3>1. k # h /\ serving'[k] = serving[k] /\ serving[k].id \in Rows
      BY <1>2, <2>1 DEF SessionInv, Sessions!Request
    <3>2. serving[k].id # i /\ sessions[serving[k].id] = <<None>>
      BY <2>1, <3>1 DEF SessionInv, CreatesAnew
    <3>3. \A g \in Threads \ {k} : serving'[g] # None => serving'[g].id # serving'[k].id
      BY <1>2, <2>1, <3>1 DEF SessionInv, CreatesAnew
    <3>4. QED BY <1>5, <3>1, <3>2, <3>3
  <2>2. QED BY <2>1 DEF CreatesAnew
<1>8. QED BY <1>2, <1>5, <1>6, <1>7 DEF SessionInv

\* What a creation and a refresh note of themselves.
LEMMA Granted ==
    ASSUME SessionInv, NEW r \in Sessions!Request, Sessions!Grant(r)
    PROVE  /\ touched' \in Sessions!Time /\ touched <= touched' /\ r.at <= touched'
           /\ granted' \in Nat /\ granted <= granted' /\ r.until <= granted'
<1>1. r.at \in 0..MaxTime /\ r.until \in Nat /\ touched \in 0..MaxTime /\ granted \in Nat
  BY DEF SessionInv, Sessions!Request, Sessions!Time
<1>2. touched' = Sessions!Later(touched, r.at) /\ granted' = Sessions!Later(granted, r.until)
  BY DEF Sessions!Grant
<1>3. QED BY <1>1, <1>2, SessionConstants DEF Sessions!Later, Sessions!Time

\* The writes of the requests keep the invariant.
LEMMA SessionsWritten ==
    ASSUME SessionInv, NEW h \in Threads,
           Sessions!Create(h) \/ Sessions!Refresh(h) \/ Sessions!Delete(h)
    PROVE  /\ SessionInv'
           /\ \E v : /\ sessions' = Written(sessions, serving[h].id, v)
                     /\ serving[h].id \in Rows
                     /\ Sessions!Held(sessions, serving[h].id) \in {Gone, Orphan}
                           => v \in Sessions!NoItem
<1> DEFINE r == serving[h]
<1>1. r # None /\ r \in Sessions!Request /\ r.id \in Rows
  BY DEF Sessions!Create, Sessions!Refresh, Sessions!Delete, Sessions!Serving, SessionInv,
         Sessions!Request
<1>2. ASSUME Sessions!Create(h)
      PROVE  /\ SessionInv'
             /\ \E v : /\ sessions' = Written(sessions, r.id, v)
                       /\ Sessions!Held(sessions, r.id) \in {Gone, Orphan} => v \in Sessions!NoItem
  <2> DEFINE v == [created_at |-> r.at, last_accessed |-> r.at, expires_at |-> r.until]
  <2>1. /\ sessions' = Written(sessions, r.id, v)
        /\ Sessions!Grant(r) /\ Sessions!Finish(h) /\ UNCHANGED <<now, answer>>
        /\ r.op = "create"
    BY <1>2 DEF Sessions!Create, Sessions!PutItem, Sessions!Write, Written, Sessions!Serving
  <2>2. sessions[r.id] = <<None>>
    BY <1>1, <2>1 DEF SessionInv, CreatesAnew
  <2>3. /\ touched' \in Sessions!Time /\ touched <= touched' /\ r.at <= touched'
        /\ granted' \in Nat /\ granted <= granted' /\ r.until <= granted'
    BY <1>1, <2>1, Granted
  <2>4. v \in Earned'
    <3>1. v \in Sessions!Session
      BY <1>1 DEF Sessions!Session, Sessions!Request
    <3>2. QED BY <2>3, <3>1 DEF Earned, Sessions!Session
  <2>5. Len(sessions[r.id]) <= ShortLag
    BY <2>2, SessionConstants
  <2>6. Sessions!Held(sessions, r.id) = None
    BY <2>2 DEF Sessions!Held
  <2> HIDE DEF v
  <2>7. SessionInv'
    BY <1>1, <2>1, <2>3, <2>4, <2>5, SessionWrites
  <2>8. QED BY <2>1, <2>6, <2>7, SessionConstants
<1>3. ASSUME Sessions!Refresh(h)
      PROVE  /\ SessionInv'
             /\ \E v : /\ sessions' = Written(sessions, r.id, v)
                       /\ Sessions!Held(sessions, r.id) \in {Gone, Orphan} => v \in Sessions!NoItem
  <2> DEFINE old == Sessions!Held(sessions, r.id)
             v == IF old \in Sessions!NoItem THEN Orphan
                  ELSE [old EXCEPT !.last_accessed = r.at, !.expires_at = r.until]
  <2>1. /\ sessions' = Written(sessions, r.id, v)
        /\ Sessions!Grant(r) /\ Sessions!Finish(h) /\ UNCHANGED <<now, answer>>
        /\ Len(sessions[r.id]) <= ShortLag
    BY <1>3 DEF Sessions!Refresh, Sessions!UpdateItem, Sessions!Write, Written, Sessions!HasRoom
  <2>2. /\ touched' \in Sessions!Time /\ touched <= touched' /\ r.at <= touched'
        /\ granted' \in Nat /\ granted <= granted' /\ r.until <= granted'
    BY <1>1, <2>1, Granted
  <2>3. old \in Earned \cup Sessions!NoItem
    BY <1>1, Versions DEF SessionInv, Sessions!Held
  <2>4. v \in Earned' \cup Sessions!NoItem
    <3>1. CASE old \in Sessions!NoItem
      BY <3>1, SessionConstants
    <3>2. CASE old \notin Sessions!NoItem
      <4>1. old \in Sessions!Session
        BY <2>3, <3>2 DEF Earned
      <4>2. v \in Sessions!Session /\ v.last_accessed = r.at /\ v.expires_at = r.until
        BY <1>1, <3>2, <4>1 DEF Sessions!Session, Sessions!Request
      <4>3. QED BY <2>2, <4>2 DEF Earned, Sessions!Session
    <3>3. QED BY <3>1, <3>2
  <2>5. old \in {Gone, Orphan} => v \in Sessions!NoItem
    BY SessionConstants
  <2> HIDE DEF v
  <2>6. SessionInv'
    BY <1>1, <2>1, <2>2, <2>4, SessionWrites
  <2>7. QED BY <2>1, <2>5, <2>6
<1>4. ASSUME Sessions!Delete(h)
      PROVE  /\ SessionInv'
             /\ \E v : /\ sessions' = Written(sessions, r.id, v)
                       /\ Sessions!Held(sessions, r.id) \in {Gone, Orphan} => v \in Sessions!NoItem
  <2>1. /\ sessions' = Written(sessions, r.id, Gone)
        /\ Sessions!Finish(h) /\ UNCHANGED <<now, answer, touched, granted>>
        /\ Len(sessions[r.id]) <= ShortLag
    BY <1>4 DEF Sessions!Delete, Sessions!DeleteItem, Sessions!Write, Written, Sessions!HasRoom
  <2>2. /\ touched' \in Sessions!Time /\ touched <= touched'
        /\ granted' \in Nat /\ granted <= granted'
    BY <2>1, SessionConstants DEF SessionInv, Sessions!Time
  <2>3. Gone \in Sessions!NoItem
    BY SessionConstants
  <2>4. SessionInv'
    BY <1>1, <2>1, <2>2, <2>3, SessionWrites
  <2>5. QED BY <2>1, <2>3, <2>4
<1>5. QED BY <1>1, <1>2, <1>3, <1>4

\* So does an index that catches up.
LEMMA SessionsShowMore ==
    ASSUME SessionInv, NEW i \in Rows, Sessions!IndexCatchesUp(i)
    PROVE  /\ SessionInv'
           /\ \A j \in Rows : Sessions!Held(sessions', j) = Sessions!Held(sessions, j)
<1> DEFINE V == Earned \cup Sessions!NoItem
<1>1. /\ Len(sessions[i]) > 1 /\ sessions' = CaughtUp(sessions, i)
      /\ UNCHANGED <<now, serving, answer, touched, granted>>
  BY DEF Sessions!IndexCatchesUp, Sessions!Lagging, Sessions!CatchUp, CaughtUp
<1>2. /\ sessions' \in Table(Rows, V)
      /\ \A j \in Rows \ {i} : sessions'[j] = sessions[j]
      /\ Len(sessions'[i]) = Len(sessions[i]) - 1
      /\ Len(sessions[i]) \in Nat
      /\ sessions'[i][Len(sessions'[i])] = sessions[i][Len(sessions[i])]
  <2>1. sessions \in Table(Rows, V)
    BY DEF SessionInv
  <2> HIDE DEF V
  <2>2. QED BY <1>1, <2>1, IndexDrops, Versions
<1>3. \A j \in Rows : Sessions!Held(sessions', j) = Sessions!Held(sessions, j)
  BY <1>2 DEF Sessions!Held
<1>4. \A j \in Rows : Len(sessions'[j]) <= ShortLag + 1
  BY <1>2, SessionConstants DEF SessionInv
<1>5. sessions[i] # <<None>>
  <2>1. Len(<<None>>) = 1
    OBVIOUS
  <2>2. Len(sessions[i]) # 1
    BY <1>1, <1>2
  <2>3. QED BY <2>1, <2>2
<1>6. CreatesAnew'
  BY <1>1, <1>2, <1>5 DEF SessionInv, CreatesAnew, Sessions!Request
<1>7. QED BY <1>1, <1>2, <1>3, <1>4, <1>6 DEF SessionInv, Earned

\* So do the answers, which only note what the index shows.
LEMMA SessionAnswers ==
    ASSUME SessionInv, NEW h \in Threads, Sessions!IsActiveByEmail(h)
    PROVE  /\ SessionInv' /\ sessions' = sessions
           /\ serving' = [serving EXCEPT ![h] = None]
           /\ answer' => now <= touched + Inactivity /\ now <= granted
<1>1. /\ serving' = [serving EXCEPT ![h] = None]
      /\ UNCHANGED <<now, sessions, touched, granted>>
  BY DEF Sessions!IsActiveByEmail, Sessions!Answer, Sessions!Finish
<1>2. \/ answer' = FALSE
      \/ \E i \in Sessions!Indexed(sessions) :
            answer' = Sessions!IsActive(Sessions!Shown(sessions, i), now)
  BY DEF Sessions!IsActiveByEmail, Sessions!Answer, Sessions!ResolveByEmail
<1>3. answer' \in BOOLEAN
  BY <1>2 DEF Sessions!IsActive
<1>4. /\ serving' \in [Threads -> Sessions!Request \cup {None}]
      /\ serving'[h] = None /\ \A k \in Threads \ {h} : serving'[k] = serving[k]
  BY <1>1 DEF SessionInv
<1>5. CreatesAnew'
  BY <1>1, <1>4 DEF SessionInv, CreatesAnew
<1>6. SessionInv'
  BY <1>1, <1>3, <1>4, <1>5 DEF SessionInv, Earned
<1>7. ASSUME answer' PROVE now <= touched + Inactivity /\ now <= granted
  <2>1. PICK i \in Sessions!Indexed(sessions) :
            Sessions!IsActive(Sessions!Shown(sessions, i), now)
    BY <1>2, <1>7
  <2> DEFINE s == Sessions!Shown(sessions, i)
  <2>2. /\ s.last_accessed \in Nat /\ s.last_accessed <= touched
        /\ s.expires_at \in Nat /\ s.expires_at <= granted
    BY SessionsShown, SessionConstants DEF Earned, Sessions!Session, Sessions!Time
  <2>3. now <= s.expires_at /\ now <= s.last_accessed + Inactivity
    BY <2>1 DEF Sessions!IsActive
  <2>4. now \in Nat /\ touched \in Nat /\ granted \in Nat /\ Inactivity \in Nat
    BY SessionConstants DEF SessionInv, Sessions!Time
  <2> HIDE DEF s
  <2>5. QED BY <2>2, <2>3, <2>4
<1>8. QED BY <1>1, <1>6, <1>7

\* So does the clock.
LEMMA SessionTicks ==
    ASSUME SessionInv, Sessions!Tick
    PROVE  SessionInv'
<1>1. now' \in Sessions!Time /\ UNCHANGED <<sessions, serving, answer, touched, granted>>
  BY SessionConstants DEF Sessions!Tick, SessionInv, Sessions!Time
<1>2. QED BY <1>1 DEF SessionInv, Earned, CreatesAnew

\* SessionInv holds in every state.
LEMMA SessionInvariant == Sessions!Spec => []SessionInv
<1>1. Sessions!Init => SessionInv
  <2> SUFFICES ASSUME Sessions!Init PROVE SessionInv
    OBVIOUS
  <2>1. /\ sessions = [i \in Rows |-> <<None>>] /\ serving = [h \in Threads |-> None]
        /\ now = 0 /\ answer = FALSE /\ touched = 0 /\ granted = 0
    BY DEF Sessions!Init, Sessions!EmptyTable
  <2>2. /\ sessions \in Table(Rows, Earned \cup Sessions!NoItem)
        /\ \A i \in Rows : Len(sessions[i]) = 1
    BY <2>1, NothingWritten, SessionConstants
  <2>3. \A i \in Rows : Len(sessions[i]) <= ShortLag + 1
    <3>1. 1 <= ShortLag + 1
      BY SessionConstants
    <3>2. QED BY <2>2, <3>1
  <2>4. 0 \in Sessions!Time
    BY SessionConstants DEF Sessions!Time
  <2>5. CreatesAnew /\ serving \in [Threads -> Sessions!Request \cup {None}]
    BY <2>1 DEF CreatesAnew
  <2>6. QED BY <2>1, <2>2, <2>3, <2>4, <2>5 DEF SessionInv
<1>2. SessionInv /\ [Sessions!Next]_(Sessions!vars) => SessionInv'
  <2>1. ASSUME SessionInv, UNCHANGED Sessions!vars PROVE SessionInv'
    BY <2>1 DEF SessionInv, Earned, CreatesAnew, Sessions!vars
  <2>2. QED BY <2>1, SessionsBegin, SessionsWritten, SessionsShowMore, SessionAnswers, SessionTicks
            DEF Sessions!Next
<1>3. QED BY <1>1, <1>2, PTL DEF Sessions!Spec

\* The steps of the other services do not touch the sessions.
LEMMA SessionsFollow == AuxSpec => Sessions!Spec
<1>1. AuxInit => Sessions!Init
  BY DEF AuxInit
<1>2. [AuxNext]_auxVars => [Sessions!Next]_(Sessions!vars)
  BY DEF AuxNext, SessionStep, KycStep, LimitStep, UserStep, DeployStep, NodeStep,
         auxVars, sessionVars, Sessions!vars
<1>3. QED BY <1>1, <1>2, PTL DEF AuxSpec, Sessions!Spec

\* What a step does to the thread h and to the table.
LEMMA SessionSteps ==
    ASSUME SessionInv, [Sessions!Next]_(Sessions!vars)
    PROVE  \/ \E h \in Threads : Sessions!IsActiveByEmail(h)
           \/ /\ sessions' = sessions
              /\ \A k \in Threads : serving'[k] = serving[k] \/ serving[k] = None
           \/ \E h \in Threads :
                /\ Sessions!Create(h) \/ Sessions!Refresh(h) \/ Sessions!Delete(h)
                /\ \A k \in Threads \ {h} : serving'[k] = serving[k]
                /\ serving[h].op # "get"
           \/ \E i \in Rows : Sessions!IndexCatchesUp(i) /\ serving' = serving
<1>1. ASSUME NEW h \in Threads, NEW i \in Rows,
             \/ Sessions!CreateSession(h, i) \/ Sessions!GetSession(h, i)
             \/ Sessions!RefreshSession(h, i) \/ Sessions!DeleteSession(h, i)
      PROVE  /\ sessions' = sessions
             /\ \A k \in Threads : serving'[k] = serving[k] \/ serving[k] = None
  BY <1>1 DEF Sessions!CreateSession, Sessions!GetSession, Sessions!RefreshSession,
              Sessions!DeleteSession, Sessions!Start, SessionInv
<1>2. ASSUME NEW h \in Threads, Sessions!Create(h) \/ Sessions!Refresh(h) \/ Sessions!Delete(h)
      PROVE  (\A k \in Threads \ {h} : serving'[k] = serving[k]) /\ serving[h].op # "get"
  BY <1>2 DEF Sessions!Create, Sessions!Refresh, Sessions!Delete, Sessions!Serving,
              Sessions!Finish, SessionInv
<1>3. ASSUME NEW i \in Rows, Sessions!IndexCatchesUp(i) PROVE serving' = serving
  BY <1>3 DEF Sessions!IndexCatchesUp
<1>4. CASE Sessions!Tick \/ UNCHANGED Sessions!vars
  BY <1>4 DEF Sessions!Tick, Sessions!vars
<1>5. QED BY <1>1, <1>2, <1>3, <1>4 DEF Sessions!Next

(***************************************************************************)
(* AuxSessions, for any number of sessions and threads and any limits: a   *)
(* session is called active only within the inactivity limit of a create   *)
(* or a refresh, and within the time one granted.                          *)
(***************************************************************************)
THEOREM ActiveNeedsUse == AuxSpec => ActiveIsEarned
<1> DEFINE Answered(h) == Sessions!Serving(h, "get") /\ serving'[h] = None /\ answer'
                              => now <= touched + Inactivity /\ now <= granted
<1>1. SessionInv /\ [Sessions!Next]_(Sessions!vars)
          => [\A h \in Threads : Answered(h)]_(Sessions!vars)
  <2> SUFFICES ASSUME SessionInv, [Sessions!Next]_(Sessions!vars), NEW h \in Threads
               PROVE  Answered(h)
    OBVIOUS
  <2> SUFFICES ASSUME serving[h] # None, serving[h].op = "get", serving'[h] = None, answer'
               PROVE  now <= touched + Inactivity /\ now <= granted
    BY DEF Sessions!Serving
  <2>1. \E k \in Threads : Sessions!IsActiveByEmail(k)
    <3>1. ASSUME NEW i \in Rows, serving' = serving PROVE FALSE
      BY <3>1
    <3>2. QED BY <3>1, SessionSteps
  <2>2. QED BY <2>1, SessionAnswers
<1>2. QED BY <1>1, SessionInvariant, SessionsFollow, PTL
          DEF Sessions!Spec, ActiveIsEarned, Sessions!ActiveIsEarned

(***************************************************************************)
(* AuxSessions: no step brings a deleted session back.                     *)
(***************************************************************************)
THEOREM LogoutLasts == AuxSpec => LogoutIsFinal
<1> DEFINE Ended(i) == Sessions!Held(sessions, i) \in {Gone, Orphan}
                           => i \notin Sessions!Present(sessions')
<1>1. SessionInv /\ SessionInv' /\ [Sessions!Next]_(Sessions!vars)
          => [\A i \in Rows : Ended(i)]_(Sessions!vars)
  <2> SUFFICES ASSUME SessionInv, SessionInv', [Sessions!Next]_(Sessions!vars), NEW i \in Rows,
                      Sessions!Held(sessions, i) \in {Gone, Orphan}
               PROVE  Sessions!Held(sessions', i) \in Sessions!NoItem
    BY DEF Sessions!Present
  <2>1. Sessions!Held(sessions, i) \in Sessions!NoItem
    BY SessionConstants
  <2>2. ASSUME NEW h \in Threads, Sessions!Create(h) \/ Sessions!Refresh(h) \/ Sessions!Delete(h)
        PROVE  Sessions!Held(sessions', i) \in Sessions!NoItem
    <3>1. PICK v : /\ sessions' = Written(sessions, serving[h].id, v)
                   /\ serving[h].id \in Rows
                   /\ Sessions!Held(sessions, serving[h].id) \in {Gone, Orphan}
                         => v \in Sessions!NoItem
      BY <2>2, SessionsWritten
    <3>2. CASE serving[h].id # i
      <4>1. sessions'[i] = sessions[i]
        BY <3>1, <3>2 DEF Written, SessionInv, Table
      <4>2. QED BY <2>1, <4>1 DEF Sessions!Held
    <3>3. CASE serving[h].id = i
      <4> DEFINE V == (Earned \cup Sessions!NoItem) \cup {v}
      <4>1. sessions \in Table(Rows, V) /\ v \in V
        BY MoreVersions DEF SessionInv
      <4>2. sessions' = Written(sessions, i, v)
        BY <3>1, <3>3
      <4> HIDE DEF V
      <4>3. sessions'[i][Len(sessions'[i])] = v
        BY <4>1, <4>2, WriteAppends
      <4>4. QED BY <3>1, <3>3, <4>3 DEF Sessions!Held
    <3>4. QED BY <3>2, <3>3
  <2>3. ASSUME NEW h \in Threads, Sessions!IsActiveByEmail(h)
        PROVE  Sessions!Held(sessions', i) \in Sessions!NoItem
    BY <2>1, <2>3, SessionAnswers
  <2>4. ASSUME NEW j \in Rows, Sessions!IndexCatchesUp(j)
        PROVE  Sessions!Held(sessions', i) \in Sessions!NoItem
    BY <2>1, <2>4, SessionsShowMore
  <2>5. QED BY <2>1, <2>2, <2>3, <2>4, SessionSteps
<1>2. QED BY <1>1, SessionInvariant, SessionsFollow, PTL
          DEF Sessions!Spec, LogoutIsFinal, Sessions!LogoutIsFinal

-----------------------------------------------------------------------------
(***************************************************************************)
(* SchemaDeploy.  Tables and indices only grow, so what a script has done  *)
(* so far stays done (DoneSoFar), and a table that no script upgrades is   *)
(* created with all its indices (CreatedWhole).                            *)
(***************************************************************************)
\* Every table that a script creates, once for each list.
AnyTable ==
    {Deploy!CoreTables[k] : k \in 1..6} \cup {Deploy!LaterTables[k] : k \in 1..5}
    \cup {Deploy!LLM_HISTORY_TABLES[k] : k \in 1..2}

\* Lists of two, of five and of six.
LEMMA ShortLists ==
    ASSUME NEW S, NEW a \in S, NEW b \in S, NEW c \in S, NEW d \in S, NEW e \in S, NEW f \in S
    PROVE  /\ Len(<<a, b>>) = 2 /\ <<a, b>> \in Seq(S)
           /\ Len(<<a, b, c, d, e>>) = 5 /\ <<a, b, c, d, e>> \in Seq(S)
           /\ Len(<<a, b, c, d, e, f>>) = 6 /\ <<a, b, c, d, e, f>> \in Seq(S)
OBVIOUS

\* The three lists of tables.
LEMMA TableLists ==
    /\ Deploy!CoreTables \in Seq(AnyTable) /\ Len(Deploy!CoreTables) = 6
    /\ Deploy!LaterTables \in Seq(AnyTable) /\ Len(Deploy!LaterTables) = 5
    /\ Deploy!LLM_HISTORY_TABLES \in Seq(AnyTable) /\ Len(Deploy!LLM_HISTORY_TABLES) = 2
<1>1. PICK a, b, c, d, e, f : Deploy!CoreTables = <<a, b, c, d, e, f>>
  BY Zenon DEF Deploy!CoreTables
<1>2. PICK g, h, i, j, k : Deploy!LaterTables = <<g, h, i, j, k>>
  BY Zenon DEF Deploy!LaterTables
<1>3. PICK l, m : Deploy!LLM_HISTORY_TABLES = <<l, m>>
  BY Zenon DEF Deploy!LLM_HISTORY_TABLES
<1>4. /\ a \in AnyTable /\ b \in AnyTable /\ c \in AnyTable
      /\ d \in AnyTable /\ e \in AnyTable /\ f \in AnyTable
      /\ g \in AnyTable /\ h \in AnyTable /\ i \in AnyTable
      /\ j \in AnyTable /\ k \in AnyTable /\ l \in AnyTable /\ m \in AnyTable
  <2>1. /\ 1 \in 1..2 /\ 2 \in 1..2
        /\ 1 \in 1..5 /\ 2 \in 1..5 /\ 3 \in 1..5 /\ 4 \in 1..5 /\ 5 \in 1..5
        /\ 1 \in 1..6 /\ 2 \in 1..6 /\ 3 \in 1..6 /\ 4 \in 1..6 /\ 5 \in 1..6 /\ 6 \in 1..6
    OBVIOUS
  <2>2. /\ \A n \in 1..6 : Deploy!CoreTables[n] \in AnyTable
        /\ \A n \in 1..5 : Deploy!LaterTables[n] \in AnyTable
        /\ \A n \in 1..2 : Deploy!LLM_HISTORY_TABLES[n] \in AnyTable
    BY DEF AnyTable
  <2>3. QED BY <1>1, <1>2, <1>3, <2>1, <2>2
<1>5. Deploy!CoreTables \in Seq(AnyTable) /\ Len(Deploy!CoreTables) = 6
  BY <1>1, <1>4, ShortLists
<1>6. Deploy!LaterTables \in Seq(AnyTable) /\ Len(Deploy!LaterTables) = 5
  BY <1>2, <1>4, ShortLists
<1>7. Deploy!LLM_HISTORY_TABLES \in Seq(AnyTable) /\ Len(Deploy!LLM_HISTORY_TABLES) = 2
  BY <1>3, <1>4, ShortLists
<1>8. QED BY <1>5, <1>6, <1>7

\* The tables, by their number.
LEMMA TablesListed ==
    /\ Len(Deploy!tables) = 13
    /\ Deploy!tables[1] = Deploy!CoreTables[1] /\ Deploy!tables[2] = Deploy!CoreTables[2]
    /\ Deploy!tables[3] = Deploy!CoreTables[3] /\ Deploy!tables[4] = Deploy!CoreTables[4]
    /\ Deploy!tables[5] = Deploy!CoreTables[5] /\ Deploy!tables[6] = Deploy!CoreTables[6]
    /\ Deploy!tables[7] = Deploy!LaterTables[1] /\ Deploy!tables[8] = Deploy!LaterTables[2]
    /\ Deploy!tables[9] = Deploy!LaterTables[3] /\ Deploy!tables[10] = Deploy!LaterTables[4]
    /\ Deploy!tables[11] = Deploy!LaterTables[5]
    /\ Deploy!tables[12] = Deploy!LLM_HISTORY_TABLES[1]
    /\ Deploy!tables[13] = Deploy!LLM_HISTORY_TABLES[2]
<1>1. Len(Deploy!CoreTables) = 6 /\ Deploy!CoreTables \in Seq(AnyTable)
  BY TableLists
<1>2. Len(Deploy!LaterTables) = 5 /\ Deploy!LaterTables \in Seq(AnyTable)
  BY TableLists
<1>3. Len(Deploy!LLM_HISTORY_TABLES) = 2 /\ Deploy!LLM_HISTORY_TABLES \in Seq(AnyTable)
  BY TableLists
<1> DEFINE first == Deploy!CoreTables \o Deploy!LaterTables
<1>4. /\ first \in Seq(AnyTable) /\ Len(first) = Len(Deploy!CoreTables) + Len(Deploy!LaterTables)
      /\ \A k \in 1 .. Len(Deploy!CoreTables) + Len(Deploy!LaterTables) :
            first[k] = IF k <= Len(Deploy!CoreTables) THEN Deploy!CoreTables[k]
                       ELSE Deploy!LaterTables[k - Len(Deploy!CoreTables)]
  BY <1>1, <1>2, ConcatProperties, Zenon
<1>5. Deploy!tables = first \o Deploy!LLM_HISTORY_TABLES
  BY DEF Deploy!tables
<1> HIDE DEF first
<1> DEFINE all == first \o Deploy!LLM_HISTORY_TABLES
<1>a. first \in Seq(AnyTable)
  BY <1>4
<1>6. /\ Len(all) = Len(first) + Len(Deploy!LLM_HISTORY_TABLES)
      /\ \A k \in 1 .. Len(first) + Len(Deploy!LLM_HISTORY_TABLES) :
            all[k] = IF k <= Len(first) THEN first[k]
                               ELSE Deploy!LLM_HISTORY_TABLES[k - Len(first)]
  BY <1>3, <1>a, ConcatProperties, Zenon
<1> HIDE DEF all
<1>b. Deploy!tables = all
  BY <1>5 DEF all
<1>7. \A k \in 1..13 : Deploy!tables[k] = IF k <= 6 THEN Deploy!CoreTables[k]
                                         ELSE IF k <= 11 THEN Deploy!LaterTables[k - 6]
                                         ELSE Deploy!LLM_HISTORY_TABLES[k - 11]
  BY <1>1, <1>2, <1>3, <1>4, <1>6, <1>b
<1>8. QED BY <1>1, <1>2, <1>3, <1>4, <1>6, <1>b, <1>7

\* The names of the tables.
LEMMA TableNamesListed ==
    Deploy!TableNames = {"sessions", "kyc_profiles", "app_metadata", "audit_logs", "rate_limits",
        "token_meta", "users", "tokenization_templates", "tokenization_audit_logs",
        "ohlcv_candles", "positions", "llm_reorder_history", "ai_diagnosis_history"}
BY DEF Deploy!TableNames, Deploy!Queried

\* The tables have different names.
LEMMA NamesDiffer ==
    \A j, k \in 1..13 : Deploy!tables[j].name = Deploy!tables[k].name => j = k
BY TablesListed DEF Deploy!CoreTables, Deploy!LaterTables, Deploy!LLM_HISTORY_TABLES

\* Every table is created with the indices that are queried.
LEMMA QueriedListed ==
    \A t \in Deploy!TableNames : \E k \in 1..13 :
        Deploy!tables[k].name = t /\ Deploy!Queried[t] \subseteq Deploy!tables[k].gsis
<1> USE TablesListed DEF Deploy!CoreTables, Deploy!LaterTables, Deploy!LLM_HISTORY_TABLES, Deploy!Queried
<1>1. /\ Deploy!tables[1].name = "sessions"
      /\ Deploy!Queried["sessions"] \subseteq Deploy!tables[1].gsis
  OBVIOUS
<1>2. /\ Deploy!tables[2].name = "kyc_profiles"
      /\ Deploy!Queried["kyc_profiles"] \subseteq Deploy!tables[2].gsis
  OBVIOUS
<1>3. /\ Deploy!tables[3].name = "app_metadata"
      /\ Deploy!Queried["app_metadata"] \subseteq Deploy!tables[3].gsis
  OBVIOUS
<1>4. /\ Deploy!tables[4].name = "audit_logs"
      /\ Deploy!Queried["audit_logs"] \subseteq Deploy!tables[4].gsis
  OBVIOUS
<1>5. /\ Deploy!tables[5].name = "rate_limits"
      /\ Deploy!Queried["rate_limits"] \subseteq Deploy!tables[5].gsis
  OBVIOUS
<1>6. /\ Deploy!tables[6].name = "token_meta"
      /\ Deploy!Queried["token_meta"] \subseteq Deploy!tables[6].gsis
  OBVIOUS
<1>7. /\ Deploy!tables[7].name = "users"
      /\ Deploy!Queried["users"] \subseteq Deploy!tables[7].gsis
  OBVIOUS
<1>8. /\ Deploy!tables[8].name = "tokenization_templates"
      /\ Deploy!Queried["tokenization_templates"] \subseteq Deploy!tables[8].gsis
  OBVIOUS
<1>9. /\ Deploy!tables[9].name = "tokenization_audit_logs"
      /\ Deploy!Queried["tokenization_audit_logs"] \subseteq Deploy!tables[9].gsis
  OBVIOUS
<1>10. /\ Deploy!tables[10].name = "ohlcv_candles"
       /\ Deploy!Queried["ohlcv_candles"] \subseteq Deploy!tables[10].gsis
  OBVIOUS
<1>11. /\ Deploy!tables[11].name = "positions"
       /\ Deploy!Queried["positions"] \subseteq Deploy!tables[11].gsis
  OBVIOUS
<1>12. /\ Deploy!tables[12].name = "llm_reorder_history"
       /\ Deploy!Queried["llm_reorder_history"] \subseteq Deploy!tables[12].gsis
  OBVIOUS
<1>13. /\ Deploy!tables[13].name = "ai_diagnosis_history"
       /\ Deploy!Queried["ai_diagnosis_history"] \subseteq Deploy!tables[13].gsis
  OBVIOUS
<1>14. QED
  BY <1>1, <1>2, <1>3, <1>4, <1>5, <1>6, <1>7, <1>8, <1>9, <1>10, <1>11, <1>12, <1>13,
     TableNamesListed

\* The other scripts go over some of the tables, with all their indices.
LEMMA LoopsListed ==
    /\ Deploy!Scripts = {"create", "create_llm", "add", "extra"}
    /\ Deploy!Loop["create"] = Deploy!tables
    /\ \A s \in Deploy!Scripts :
          /\ Len(Deploy!Loop[s]) \in 1..13
          /\ \A k \in 1..Len(Deploy!Loop[s]) : \E j \in 1..13 : Deploy!Loop[s][k] = Deploy!tables[j]
<1>1. /\ Deploy!Scripts = {"create", "create_llm", "add", "extra"}
      /\ Deploy!Loop["create"] = Deploy!tables
      /\ Deploy!Loop["create_llm"] = Deploy!LLM_HISTORY_TABLES
      /\ Deploy!Loop["add"] = Deploy!CoreTables
      /\ Deploy!Loop["extra"] = Deploy!extra_gsi_specs
  BY DEF Deploy!Scripts, Deploy!Loop, Deploy!gsi_specs
<1>2. /\ Len(Deploy!LLM_HISTORY_TABLES) = 2 /\ Len(Deploy!CoreTables) = 6
      /\ Len(Deploy!extra_gsi_specs) = 2
  BY DEF Deploy!LLM_HISTORY_TABLES, Deploy!CoreTables, Deploy!extra_gsi_specs
<1>3. /\ Deploy!extra_gsi_specs[1] = Deploy!LaterTables[4]
      /\ Deploy!extra_gsi_specs[2] = Deploy!LaterTables[5]
  BY DEF Deploy!LaterTables, Deploy!extra_gsi_specs
<1>4. \A k \in 1..2 : \E j \in 1..13 : Deploy!LLM_HISTORY_TABLES[k] = Deploy!tables[j]
  BY TablesListed
<1>5. \A k \in 1..6 : \E j \in 1..13 : Deploy!CoreTables[k] = Deploy!tables[j]
  BY TablesListed
<1>6. \A k \in 1..2 : \E j \in 1..13 : Deploy!extra_gsi_specs[k] = Deploy!tables[j]
  BY <1>3, TablesListed
<1>7. Len(Deploy!tables) = 13
  BY TablesListed
<1>8. \A s \in Deploy!Scripts : Len(Deploy!Loop[s]) \in {2, 6, 13}
  BY <1>1, <1>2, <1>7
<1>9. ASSUME NEW s \in Deploy!Scripts, NEW k \in 1..Len(Deploy!Loop[s])
      PROVE  \E j \in 1..13 : Deploy!Loop[s][k] = Deploy!tables[j]
  <2>1. CASE s = "create"
    <3>1. k \in 1..13
      BY <1>1, <1>7, <2>1
    <3>2. QED BY <1>1, <2>1, <3>1
  <2>2. CASE s = "create_llm"
    BY <1>1, <1>2, <1>4, <2>2
  <2>3. CASE s = "add"
    BY <1>1, <1>2, <1>5, <2>3
  <2>4. CASE s = "extra"
    BY <1>1, <1>2, <1>6, <2>4
  <2>5. QED BY <1>1, <2>1, <2>2, <2>3, <2>4
<1>10. \A n \in {2, 6, 13} : n \in 1..13
  OBVIOUS
<1>11. QED BY <1>1, <1>8, <1>9, <1>10

\* The two scripts that add indices go over every table of an older deployment.
LEMMA UpgradesListed ==
    \A t \in Deploy!Upgraded : \E s \in {"add", "extra"} :
        \E k \in 1..Len(Deploy!Loop[s]) : Deploy!Loop[s][k].name = t
<1>1. Deploy!Loop["add"] = Deploy!gsi_specs /\ Deploy!Loop["extra"] = Deploy!extra_gsi_specs
  BY DEF Deploy!Loop
<1>2. /\ DOMAIN Deploy!gsi_specs = 1..Len(Deploy!gsi_specs)
      /\ DOMAIN Deploy!extra_gsi_specs = 1..Len(Deploy!extra_gsi_specs)
  BY DEF Deploy!gsi_specs, Deploy!CoreTables, Deploy!extra_gsi_specs
<1>3. QED BY <1>1, <1>2 DEF Deploy!Upgraded

Known == Deploy!Scripts \cup {""}

AllIndices == UNION {Deploy!tables[k].gsis : k \in 1..13}

\* Every table has some of its indices.
OwnIndices ==
    \A t \in Deploy!TableNames : schema[t] # NoTable => \E k \in 1..13 :
        Deploy!tables[k].name = t /\ schema[t] \subseteq Deploy!tables[k].gsis

\* A table that no script upgrades has been created with all its indices.
CreatedWhole ==
    \A k \in 1..13 : LET t == Deploy!tables[k] IN
        t.name \notin Deploy!Upgraded /\ schema[t.name] # NoTable => t.gsis \subseteq schema[t.name]

\* The table t has been created, and has all its indices.
Made(t) == schema[t.name] # NoTable
Indexes(t) == schema[t.name] # NoTable /\ t.gsis \subseteq schema[t.name]

\* What a script has done so far, and what those that have run to their end did.
DoneSoFar ==
    /\ script = "create" /\ failures = 0 =>
          \A k \in 1..13 : k < next => Made(Deploy!tables[k])
    /\ script \in {"add", "extra"} =>
          \A k \in 1..Len(Deploy!Loop[script]) : k < next => Indexes(Deploy!Loop[script][k])
    /\ "create" \in completed => \A k \in 1..13 : Made(Deploy!tables[k])
    /\ \A s \in completed \cap {"add", "extra"} :
          \A k \in 1..Len(Deploy!Loop[s]) : Indexes(Deploy!Loop[s][k])

SchemaForm ==
    /\ schema \in [Deploy!TableNames -> (SUBSET AllIndices) \cup {NoTable}]
    /\ OwnIndices
    /\ CreatedWhole

DeployInv ==
    /\ script \in Known
    /\ next \in 1..14
    /\ failures \in 0..MaxFails
    /\ completed \subseteq Deploy!Scripts
    /\ SchemaForm
    /\ DoneSoFar

\* No table and no index is ever removed.
Grows ==
    \A t \in Deploy!TableNames : schema[t] # NoTable =>
        schema'[t] # NoTable /\ schema[t] \subseteq schema'[t]

\* What the assumptions say of the constants, as the steps below need it.
LEMMA DeployConstants ==
    /\ MaxFails \in Nat
    /\ \A old \in OldTables : old \subseteq Deploy!Upgraded
    /\ \A k \in 1..13 : \A gsis \in SUBSET Deploy!tables[k].gsis : gsis # NoTable
    /\ \A k \in 1..13 : Deploy!tables[k].name \in Deploy!TableNames
<1>1. Deploy!DeployAssumption
  BY AuxAssumption
<1>2. Len(Deploy!tables) = 13 /\ DOMAIN Deploy!tables = 1..13
  <2>1. Deploy!CoreTables \o Deploy!LaterTables \in Seq(AnyTable)
    BY TableLists, ConcatProperties, Zenon
  <2>2. Deploy!tables \in Seq(AnyTable)
    BY <2>1, TableLists, ConcatProperties, Zenon DEF Deploy!tables
  <2>3. QED BY <2>2, TablesListed, LenProperties
<1>3. \A k \in 1..13 : Deploy!tables[k].name \in Deploy!TableNames
  <2>1. \A t \in Deploy!TableNames : \E k \in 1..13 : Deploy!tables[k].name = t
    BY QueriedListed
  <2>2. QED
    BY TablesListed, TableNamesListed
       DEF Deploy!CoreTables, Deploy!LaterTables, Deploy!LLM_HISTORY_TABLES
<1>4. QED BY <1>1, <1>2, <1>3 DEF Deploy!DeployAssumption

\* A table is created with all its indices, or gets more of them.
LEMMA SchemaChanges ==
    ASSUME SchemaForm, NEW k \in 1..13, NEW X \in SUBSET Deploy!tables[k].gsis,
           IF schema[Deploy!tables[k].name] = NoTable THEN X = Deploy!tables[k].gsis
           ELSE schema[Deploy!tables[k].name] \subseteq X,
           schema' = [schema EXCEPT ![Deploy!tables[k].name] = X]
    PROVE  /\ SchemaForm' /\ Grows
           /\ schema'[Deploy!tables[k].name] = X /\ X # NoTable
<1> DEFINE c == Deploy!tables[k]
<1>1. c.name \in Deploy!TableNames /\ X # NoTable
  BY DeployConstants
<1>2. /\ schema'[c.name] = X
      /\ \A t \in Deploy!TableNames \ {c.name} : schema'[t] = schema[t]
  BY <1>1 DEF SchemaForm
<1>3. schema' \in [Deploy!TableNames -> (SUBSET AllIndices) \cup {NoTable}]
  <2>1. X \in SUBSET AllIndices
    BY DEF AllIndices
  <2>2. QED BY <1>1, <2>1 DEF SchemaForm
<1>4. Grows
  BY <1>1, <1>2 DEF Grows
<1>5. OwnIndices'
  BY <1>1, <1>2 DEF SchemaForm, OwnIndices
<1>6. CreatedWhole'
  <2> SUFFICES ASSUME NEW j \in 1..13, Deploy!tables[j].name \notin Deploy!Upgraded,
                      schema'[Deploy!tables[j].name] # NoTable
               PROVE  Deploy!tables[j].gsis \subseteq schema'[Deploy!tables[j].name]
    BY DEF CreatedWhole
  <2>1. CASE j = k
    <3>1. CASE schema[c.name] = NoTable
      BY <1>2, <2>1, <3>1
    <3>2. CASE schema[c.name] # NoTable
      BY <1>2, <2>1, <3>2 DEF SchemaForm, CreatedWhole
    <3>3. QED BY <3>1, <3>2
  <2>2. CASE j # k
    <3>1. Deploy!tables[j].name # c.name /\ Deploy!tables[j].name \in Deploy!TableNames
      BY <2>2, NamesDiffer, DeployConstants
    <3>2. QED BY <1>2, <3>1 DEF SchemaForm, CreatedWhole
  <2>3. QED BY <2>1, <2>2
<1>7. QED BY <1>1, <1>2, <1>3, <1>4, <1>5, <1>6 DEF SchemaForm

\* The table a script has come to.
LEMMA CurrentTable ==
    ASSUME DeployInv, NEW S, Deploy!Running(S), S \subseteq Deploy!Scripts
    PROVE  /\ script \in Deploy!Scripts /\ next \in 1..Len(Deploy!Loop[script])
           /\ Len(Deploy!Loop[script]) \in 1..13
           /\ \E k \in 1..13 : Deploy!Current = Deploy!tables[k]
<1>1. script \in Deploy!Scripts /\ next <= Len(Deploy!Loop[script]) /\ next \in 1..14
  BY DEF Deploy!Running, DeployInv
<1>2. Len(Deploy!Loop[script]) \in 1..13
  BY <1>1, LoopsListed
<1>3. next \in 1..Len(Deploy!Loop[script])
  BY <1>1, <1>2
<1>4. QED BY <1>1, <1>2, <1>3, LoopsListed DEF Deploy!Current

\* The indices a table has are its own.
LEMMA HasOwn ==
    ASSUME SchemaForm, NEW k \in 1..13, schema[Deploy!tables[k].name] # NoTable
    PROVE  schema[Deploy!tables[k].name] \subseteq Deploy!tables[k].gsis
BY NamesDiffer, DeployConstants DEF SchemaForm, OwnIndices

\* What a step does to the schema, and what it has made of the current table.
LEMMA TableCreated ==
    ASSUME DeployInv, Deploy!Running(Deploy!Creates), schema' \in {schema, Deploy!Created}
    PROVE  /\ SchemaForm' /\ Grows
           /\ schema' = Deploy!Created => schema'[Deploy!Current.name] # NoTable
<1>1. Deploy!Creates \subseteq Deploy!Scripts
  BY LoopsListed DEF Deploy!Creates
<1>2. PICK k \in 1..13 : Deploy!Current = Deploy!tables[k]
  BY <1>1, CurrentTable
<1>3. CASE schema' = Deploy!Created
  <2> DEFINE c == Deploy!tables[k]
             X == IF schema[c.name] = NoTable THEN c.gsis ELSE schema[c.name]
  <2>1. schema' = [schema EXCEPT ![c.name] = X]
    BY <1>2, <1>3 DEF Deploy!Created
  <2>2. X \in SUBSET c.gsis
    BY HasOwn DEF DeployInv
  <2>3. IF schema[c.name] = NoTable THEN X = c.gsis ELSE schema[c.name] \subseteq X
    OBVIOUS
  <2> HIDE DEF X
  <2>4. QED BY <1>2, <2>1, <2>2, <2>3, SchemaChanges DEF DeployInv
<1>4. CASE schema' = schema /\ schema' # Deploy!Created
  BY <1>4 DEF DeployInv, SchemaForm, OwnIndices, CreatedWhole, Grows
<1>5. QED BY <1>3, <1>4

\* A script that adds the indices of a table leaves it with all of them.
LEMMA IndexAdded ==
    ASSUME DeployInv, Deploy!Running(Deploy!Scripts \ Deploy!Creates),
           schema[Deploy!Current.name] # NoTable,
           NEW some \in SUBSET Deploy!Missing,
           schema' = [schema EXCEPT ![Deploy!Current.name] = @ \cup some]
    PROVE  /\ SchemaForm' /\ Grows
           /\ some = Deploy!Missing =>
                /\ schema'[Deploy!Current.name] # NoTable
                /\ Deploy!Current.gsis \subseteq schema'[Deploy!Current.name]
<1>1. PICK k \in 1..13 : Deploy!Current = Deploy!tables[k]
  BY CurrentTable
<1> DEFINE c == Deploy!tables[k]
           X == schema[c.name] \cup some
<1>2. schema' = [schema EXCEPT ![c.name] = X] /\ schema[c.name] # NoTable
  BY <1>1
<1>3. some \subseteq c.gsis /\ schema[c.name] \subseteq c.gsis
  BY <1>1, <1>2, HasOwn DEF Deploy!Missing, DeployInv
<1>4. X \in SUBSET c.gsis
  BY <1>3
<1>5. some = Deploy!Missing => c.gsis \subseteq X
  BY <1>1 DEF Deploy!Missing
<1>6. IF schema[c.name] = NoTable THEN X = c.gsis ELSE schema[c.name] \subseteq X
  BY <1>2
<1> HIDE DEF X
<1>7. SchemaForm' /\ Grows /\ schema'[c.name] = X /\ X # NoTable
  BY <1>2, <1>4, <1>6, SchemaChanges DEF DeployInv
<1>8. QED BY <1>1, <1>5, <1>7

\* What was made stays made.
LEMMA StaysMade ==
    ASSUME Grows, NEW k \in 1..13
    PROVE  /\ Made(Deploy!tables[k]) => Made(Deploy!tables[k])'
           /\ Indexes(Deploy!tables[k]) => Indexes(Deploy!tables[k])'
BY DeployConstants DEF Grows, Made, Indexes

\* The tables a loop has been through stay as it left them.
LEMMA LoopStays ==
    ASSUME Grows, NEW s \in Deploy!Scripts, NEW k \in 1..Len(Deploy!Loop[s]),
           Indexes(Deploy!Loop[s][k])
    PROVE  Indexes(Deploy!Loop[s][k])'
BY StaysMade, LoopsListed

\* The loop of a script goes on to the next table.
LEMMA LoopGoesOn ==
    ASSUME DeployInv, SchemaForm', Grows, script \in Deploy!Scripts,
           next \in 1..Len(Deploy!Loop[script]), Len(Deploy!Loop[script]) \in 1..13,
           Deploy!Advance, failures' \in 0..MaxFails,
           failures' = 0 => failures = 0,
           NEW c, c = Deploy!Current,
           script = "create" /\ failures' = 0 => Made(c)',
           script \in {"add", "extra"} => Indexes(c)'
    PROVE  DeployInv'
<1>1. next' = next + 1 /\ script' = script /\ completed' = completed
  BY DEF Deploy!Advance
<1>2. next \in 1..13 /\ next' \in 1..14
  <2>1. \A n \in 1..13 : \A m \in 1..n : m \in 1..13 /\ m + 1 \in 1..14
    OBVIOUS
  <2>2. QED BY <1>1, <2>1
<1>3. c = Deploy!Loop[script][next] /\ Deploy!Loop["create"] = Deploy!tables
  BY LoopsListed DEF Deploy!Current
<1>4. script = "create" /\ failures' = 0 =>
          \A k \in 1..13 : k < next + 1 => Made(Deploy!tables[k])'
  <2> SUFFICES ASSUME script = "create", failures' = 0, NEW k \in 1..13, k < next + 1
               PROVE  Made(Deploy!tables[k])'
    OBVIOUS
  <2>1. CASE k = next
    BY <1>3, <2>1
  <2>2. CASE k < next
    <3>1. Made(Deploy!tables[k])
      BY <2>2 DEF DeployInv, DoneSoFar
    <3>2. QED BY <3>1, StaysMade
  <2>3. QED BY <1>2, <2>1, <2>2
<1>5. ASSUME NEW s \in {"add", "extra"}, script = s,
             NEW k \in 1..Len(Deploy!Loop[s]), k < next + 1
      PROVE  Indexes(Deploy!Loop[s][k])'
  <2>1. CASE k = next
    BY <1>3, <1>5, <2>1
  <2>2. CASE k < next
    <3>1. Indexes(Deploy!Loop[s][k]) /\ s \in Deploy!Scripts
      BY <1>5, <2>2, LoopsListed DEF DeployInv, DoneSoFar
    <3>2. QED BY <3>1, LoopStays
  <2>3. Len(Deploy!Loop[s]) \in 1..13
    BY <1>5
  <2>4. QED BY <1>2, <1>5, <2>1, <2>2, <2>3
<1>6. \A s \in completed \cap {"add", "extra"} :
          \A k \in 1..Len(Deploy!Loop[s]) : Indexes(Deploy!Loop[s][k])'
  BY LoopStays DEF DeployInv, DoneSoFar
<1>7. "create" \in completed => \A k \in 1..13 : Made(Deploy!tables[k])'
  BY StaysMade DEF DeployInv, DoneSoFar
<1>8. script \in {"add", "extra"} =>
          \A k \in 1..Len(Deploy!Loop[script]) : k < next + 1 => Indexes(Deploy!Loop[script][k])'
  BY <1>1, <1>5
<1>9. DoneSoFar'
  BY <1>1, <1>4, <1>6, <1>7, <1>8 DEF DoneSoFar
<1>10. QED BY <1>1, <1>2, <1>9 DEF DeployInv

\* Nothing comes before the first.
LEMMA BelowOne == \A n \in Nat : \A k \in 1..n : ~(k < 1)
OBVIOUS

\* A script begins, or is over, with the schema as it has left it.
LEMMA LoopRestarts ==
    ASSUME DeployInv, SchemaForm', Grows, next' = 1, failures' = 0,
           script' \in Known, completed' = completed
    PROVE  DeployInv'
<1>1. \A s \in completed \cap {"add", "extra"} :
          \A k \in 1..Len(Deploy!Loop[s]) : Indexes(Deploy!Loop[s][k])'
  BY LoopStays DEF DeployInv, DoneSoFar
<1>2. "create" \in completed => \A k \in 1..13 : Made(Deploy!tables[k])'
  BY StaysMade DEF DeployInv, DoneSoFar
<1>3. script' \in {"add", "extra"} => \A k \in 1..Len(Deploy!Loop[script']) : ~(k < next')
  <2>1. script' \in {"add", "extra"} => Len(Deploy!Loop[script']) \in Nat
    <3>1. \A s \in {"add", "extra"} : Len(Deploy!Loop[s]) \in 1..13
      BY LoopsListed
    <3>2. \A n \in 1..13 : n \in Nat
      OBVIOUS
    <3>3. QED BY <3>1, <3>2
  <2>2. QED BY <2>1, BelowOne
<1>4. \A k \in 1..13 : ~(k < next')
  BY BelowOne, 13 \in Nat
<1>5. DoneSoFar'
  BY <1>1, <1>2, <1>3, <1>4 DEF DoneSoFar
<1>6. next' \in 1..14 /\ failures' \in 0..MaxFails /\ completed' \subseteq Deploy!Scripts
  BY DeployConstants DEF DeployInv
<1>7. QED BY <1>5, <1>6 DEF DeployInv

\* Every step of the scripts keeps the invariant.
LEMMA DeploySteps ==
    ASSUME DeployInv, Deploy!Next
    PROVE  DeployInv'
<1>1. ASSUME NEW s \in Deploy!Scripts, Deploy!Start(s) PROVE DeployInv'
  <2>1. /\ schema' = schema /\ completed' = completed
        /\ script' = s /\ next' = 1 /\ failures' = 0
    BY <1>1 DEF Deploy!Start
  <2>2. SchemaForm' /\ Grows
    BY <2>1 DEF DeployInv, SchemaForm, OwnIndices, CreatedWhole, Grows
  <2>3. QED BY <2>1, <2>2, LoopRestarts DEF Known
<1>2. ASSUME Deploy!CreateTable \/ Deploy!CreateFails PROVE DeployInv'
  <2>1. /\ Deploy!Running(Deploy!Creates) /\ schema' \in {schema, Deploy!Created}
        /\ Deploy!Advance
        /\ \/ failures' = failures /\ schema' = Deploy!Created
           \/ failures < MaxFails /\ failures' = failures + 1
    BY <1>2 DEF Deploy!CreateTable, Deploy!CreateFails
  <2>2. Deploy!Creates \subseteq Deploy!Scripts /\ Deploy!Creates \cap {"add", "extra"} = {}
    BY LoopsListed DEF Deploy!Creates
  <2>3. /\ script \in Deploy!Scripts /\ next \in 1..Len(Deploy!Loop[script])
        /\ Len(Deploy!Loop[script]) \in 1..13
    BY <2>1, <2>2, CurrentTable
  <2>4. script \notin {"add", "extra"}
    BY <2>1, <2>2 DEF Deploy!Running
  <2>5. /\ SchemaForm' /\ Grows
        /\ schema' = Deploy!Created => schema'[Deploy!Current.name] # NoTable
    BY <2>1, TableCreated
  <2>6. failures \in 0..MaxFails /\ MaxFails \in Nat
    BY DeployConstants DEF DeployInv
  <2>7. /\ failures' \in 0..MaxFails
        /\ failures' = 0 => failures = 0 /\ schema' = Deploy!Created
    BY <2>1, <2>6
  <2>8. PICK c : c = Deploy!Current
    OBVIOUS
  <2>9. failures' = 0 => Made(c)'
    BY <2>5, <2>7, <2>8 DEF Made
  <2>10. QED BY <2>1, <2>3, <2>4, <2>5, <2>7, <2>8, <2>9, LoopGoesOn
<1>3. ASSUME Deploy!AddIndices PROVE DeployInv'
  <2>1. /\ Deploy!Running(Deploy!Scripts \ Deploy!Creates) /\ Deploy!Advance
        /\ schema[Deploy!Current.name] # NoTable /\ failures' = failures
        /\ schema' = [schema EXCEPT ![Deploy!Current.name] = @ \cup Deploy!Missing]
    BY <1>3 DEF Deploy!AddIndices
  <2>2. /\ script \in Deploy!Scripts /\ next \in 1..Len(Deploy!Loop[script])
        /\ Len(Deploy!Loop[script]) \in 1..13
    BY <2>1, CurrentTable
  <2>3. /\ SchemaForm' /\ Grows
        /\ schema'[Deploy!Current.name] # NoTable
        /\ Deploy!Current.gsis \subseteq schema'[Deploy!Current.name]
    BY <2>1, IndexAdded
  <2>4. script # "create"
    BY <2>1 DEF Deploy!Running, Deploy!Creates
  <2>5. PICK c : c = Deploy!Current
    OBVIOUS
  <2>6. Indexes(c)'
    BY <2>3, <2>5 DEF Indexes
  <2>7. failures' \in 0..MaxFails
    BY <2>1 DEF DeployInv
  <2>8. QED BY <2>1, <2>2, <2>3, <2>4, <2>5, <2>6, <2>7, LoopGoesOn
<1>4. ASSUME Deploy!Aborts PROVE DeployInv'
  <2>1. script' = "" /\ next' = 1 /\ failures' = 0 /\ completed' = completed
    BY <1>4 DEF Deploy!Aborts, Deploy!Stop
  <2>2. CASE schema' = schema
    <3>1. SchemaForm' /\ Grows
      BY <2>2 DEF DeployInv, SchemaForm, OwnIndices, CreatedWhole, Grows
    <3>2. QED BY <2>1, <3>1, LoopRestarts DEF Known
  <2>3. ASSUME Deploy!Running(Deploy!Scripts \ Deploy!Creates),
               schema[Deploy!Current.name] # NoTable,
               NEW some \in SUBSET Deploy!Missing,
               schema' = [schema EXCEPT ![Deploy!Current.name] = @ \cup some]
        PROVE  DeployInv'
    <3>1. SchemaForm' /\ Grows
      BY <2>3, IndexAdded
    <3>2. QED BY <2>1, <3>1, LoopRestarts DEF Known
  <2>4. QED BY <1>4, <2>2, <2>3 DEF Deploy!Aborts
<1>5. ASSUME Deploy!Finish PROVE DeployInv'
  <2>1. /\ script' = "" /\ next' = 1 /\ failures' = 0 /\ schema' = schema
        /\ script # "" /\ Len(Deploy!Loop[script]) < next
        /\ completed' = IF failures = 0 /\ Deploy!Verified THEN completed \cup {script}
                        ELSE completed
    BY <1>5 DEF Deploy!Finish, Deploy!Stop, DeployInv
  <2>2. SchemaForm' /\ script \in Deploy!Scripts
    BY <2>1 DEF DeployInv, SchemaForm, OwnIndices, CreatedWhole, Known
  <2>3. Len(Deploy!Loop[script]) \in 1..13 /\ next \in 1..14
    BY <2>2, LoopsListed DEF DeployInv
  <2>4. \A k \in 1..Len(Deploy!Loop[script]) : k < next
    <3>1. Len(Deploy!Loop[script]) < next
      BY <2>1
    <3>2. \A m \in 1..13, n \in 1..14 : m < n => \A k \in 1..m : k < n
      OBVIOUS
    <3>3. QED BY <2>3, <3>1, <3>2
  <2>5. script = "create" /\ failures = 0 => \A k \in 1..13 : Made(Deploy!tables[k])
    <3>1. script = "create" => Len(Deploy!Loop[script]) = 13
      BY LoopsListed, TablesListed
    <3>2. QED BY <2>4, <3>1 DEF DeployInv, DoneSoFar
  <2>6. script \in {"add", "extra"} =>
            \A k \in 1..Len(Deploy!Loop[script]) : Indexes(Deploy!Loop[script][k])
    BY <2>4 DEF DeployInv, DoneSoFar
  <2>7. \A t : Made(t)' = Made(t) /\ Indexes(t)' = Indexes(t)
    BY <2>1 DEF Made, Indexes
  <2>8. /\ "create" \in completed' => \A k \in 1..13 : Made(Deploy!tables[k])
        /\ \A s \in completed' \cap {"add", "extra"} :
              \A k \in 1..Len(Deploy!Loop[s]) : Indexes(Deploy!Loop[s][k])
    BY <2>1, <2>5, <2>6 DEF DeployInv, DoneSoFar
  <2>9. DoneSoFar'
    BY <2>1, <2>8 DEF DoneSoFar, Made, Indexes
  <2>10. completed' \subseteq Deploy!Scripts
    BY <2>1, <2>2 DEF DeployInv
  <2>11. next' \in 1..14 /\ failures' \in 0..MaxFails
    <3>1. next' = 1 /\ failures' = 0
      BY <2>1
    <3>2. QED BY <3>1, DeployConstants
  <2>12. QED BY <2>1, <2>2, <2>9, <2>10, <2>11 DEF DeployInv, Known
<1>6. QED BY <1>1, <1>2, <1>3, <1>4, <1>5 DEF Deploy!Next

\* DeployInv holds in every state.
LEMMA DeployInvariant == Deploy!Spec => []DeployInv
<1>1. Deploy!Init => DeployInv
  <2> SUFFICES ASSUME Deploy!Init PROVE DeployInv
    OBVIOUS
  <2>1. PICK old \in OldTables :
            schema = [t \in Deploy!TableNames |-> IF t \in old THEN {} ELSE NoTable]
    BY DEF Deploy!Init
  <2>2. old \subseteq Deploy!Upgraded
    BY DeployConstants
  <2>3. OwnIndices
    BY <2>1, QueriedListed DEF OwnIndices
  <2>4. CreatedWhole
    BY <2>1, <2>2, DeployConstants DEF CreatedWhole
  <2>5. SchemaForm
    <3>1. schema \in [Deploy!TableNames -> (SUBSET AllIndices) \cup {NoTable}]
      BY <2>1
    <3>2. QED BY <2>3, <2>4, <3>1 DEF SchemaForm
  <2>6. script = "" /\ next = 1 /\ failures = 0 /\ completed = {}
    BY DEF Deploy!Init
  <2>7. DoneSoFar
    BY <2>6 DEF DoneSoFar
  <2>8. next \in 1..14 /\ failures \in 0..MaxFails
    <3>1. next = 1 /\ failures = 0
      BY <2>6
    <3>2. QED BY <3>1, DeployConstants
  <2>9. QED BY <2>5, <2>6, <2>7, <2>8 DEF DeployInv, Known
<1>2. DeployInv /\ [Deploy!Next]_(Deploy!vars) => DeployInv'
  <2>1. ASSUME DeployInv, UNCHANGED Deploy!vars PROVE DeployInv'
    BY <2>1 DEF DeployInv, SchemaForm, OwnIndices, CreatedWhole, DoneSoFar, Made, Indexes,
                Deploy!vars
  <2>2. QED BY <2>1, DeploySteps
<1>3. QED BY <1>1, <1>2, PTL DEF Deploy!Spec

\* The steps of the services do not touch the schema.
LEMMA DeployFollows == AuxSpec => Deploy!Spec
<1>1. AuxInit => Deploy!Init
  BY DEF AuxInit
<1>2. [AuxNext]_auxVars => [Deploy!Next]_(Deploy!vars)
  BY DEF AuxNext, SessionStep, KycStep, LimitStep, UserStep, DeployStep, NodeStep,
         auxVars, deployVars, Deploy!vars
<1>3. QED BY <1>1, <1>2, PTL DEF AuxSpec, Deploy!Spec

(***************************************************************************)
(* SchemaDeploy, for any tables of an older deployment among those the     *)
(* scripts upgrade and any number of failures: once the tables have been   *)
(* created and the indices added, every index the services query exists.   *)
(***************************************************************************)
THEOREM IndicesComplete == AuxSpec => []EveryQueryHasIndex
<1>1. DeployInv => EveryQueryHasIndex
  <2> SUFFICES ASSUME DeployInv, "create" \in completed, "add" \in completed,
                      "extra" \in completed, NEW t \in Deploy!TableNames
               PROVE  schema[t] # NoTable /\ Deploy!Queried[t] \subseteq schema[t]
    BY DEF EveryQueryHasIndex, Deploy!EveryQueryHasIndex
  <2>1. PICK k \in 1..13 :
            Deploy!tables[k].name = t /\ Deploy!Queried[t] \subseteq Deploy!tables[k].gsis
    BY QueriedListed
  <2>2. schema[t] # NoTable
    BY <2>1 DEF DeployInv, DoneSoFar, Made
  <2>3. CASE t \notin Deploy!Upgraded
    BY <2>1, <2>2, <2>3 DEF DeployInv, SchemaForm, CreatedWhole
  <2>4. CASE t \in Deploy!Upgraded
    <3>0. PICK s \in {"add", "extra"} :
              \E j \in 1..Len(Deploy!Loop[s]) : Deploy!Loop[s][j].name = t
      BY <2>4, UpgradesListed
    <3>1. PICK j \in 1..Len(Deploy!Loop[s]) : Deploy!Loop[s][j].name = t
      BY <3>0
    <3>2. Deploy!Loop[s][j].gsis \subseteq schema[t]
      BY <3>1 DEF DeployInv, DoneSoFar, Indexes
    <3>3. Deploy!Loop[s][j] = Deploy!tables[k]
      <4>1. s \in Deploy!Scripts
        BY LoopsListed
      <4>2. PICK i \in 1..13 : Deploy!Loop[s][j] = Deploy!tables[i]
        BY <4>1, LoopsListed
      <4>3. QED BY <2>1, <3>1, <4>2, NamesDiffer
    <3>4. QED BY <2>1, <2>2, <3>2, <3>3
  <2>5. QED BY <2>3, <2>4
<1>2. QED BY <1>1, DeployInvariant, DeployFollows, PTL

-----------------------------------------------------------------------------
(***************************************************************************)
(* AuxUsers.  An item stays with the wallet and the address it was created *)
(* for (SameUser); what a thread resolved stays so (Founded); and while no *)
(* two creations overlap, they are all of different users (InTurn).        *)
(***************************************************************************)
\* The present item i is that of the user u with the address e.
Owns(i, u, e) ==
    /\ Users!Held(users, i) \in Users!User
    /\ Users!Held(users, i).user_id = u
    /\ Users!Held(users, i).email = e

\* No user ever changes the wallet or the address, and none is deleted.
SameUser ==
    \A i \in Rows :
        /\ \A k \in 2..Len(users[i]) : users[i][k] \in Users!User
        /\ \A k \in 1..Len(users[i]) : users[i][k] \in Users!User =>
              Owns(i, users[i][k].user_id, users[i][k].email)

CreationSteps == {"check_email", "put"}

\* What the thread with the task r has learned, and is still so.
Founded(r) ==
    /\ r.step \in CreationSteps => r.id \in Rows /\ users[r.id] = <<None>>
    /\ r.step \notin CreationSteps => \E j \in Rows : Owns(j, r.user, r.email)
    /\ r.step = "update" => r.id \in Rows /\ Owns(r.id, r.user, Users!Held(users, r.id).email)
    /\ r.step = "insert" => r.kind \in Users!UserKinds

\* The user about to be created is not there yet, and all others are indexed.
Unclaimed(r) ==
    \A i \in Rows : Users!Held(users, i) \in Users!User =>
        /\ Users!Shown(users, i) \in Users!User
        /\ Users!Held(users, i).user_id # r.user
        /\ r.step = "put" => Users!Held(users, i).email # r.email

Creates(h) == handling[h] # None /\ handling[h].step \in CreationSteps

DifferentIds ==
    \A h, k \in Threads : Creates(h) /\ Creates(k) /\ handling[h].id = handling[k].id => h = k

Distinct ==
    \A i, j \in Rows :
        Users!Held(users, i) \in Users!User /\ Users!Held(users, j) \in Users!User /\ i # j =>
            /\ Users!Held(users, i).email # Users!Held(users, j).email
            /\ Users!Held(users, i).user_id # Users!Held(users, j).user_id

\* While no two creations overlap.
InTurn ==
    /\ \A h, k \in Threads : Creates(h) /\ Creates(k) => h = k
    /\ \A h \in Threads : Creates(h) => Unclaimed(handling[h])
    /\ Distinct

UserInv ==
    /\ users \in Table(Rows, Users!User \cup {None})
    /\ \A i \in Rows : Len(users[i]) <= ShortLag + 1
    /\ handling \in [Threads -> Users!Task \cup {None}]
    /\ records \subseteq Users!Record
    /\ overlapped \in BOOLEAN
    /\ SameUser
    /\ \A h \in Threads : handling[h] # None => Founded(handling[h])
    /\ DifferentIds
    /\ ~overlapped => InTurn
    /\ \A r \in records : r.kind \in Users!UserKinds => \E j \in Rows : Owns(j, r.owner, r.for)

\* What the assumptions say of the constants, as the steps below need it.
LEMMA UserConstants ==
    /\ ShortLag \in Nat \ {0} /\ None \notin Rows
    /\ None \notin Users!User
    /\ \A v \in Users!User : v \notin Users!NoItem
    /\ None \in Users!NoItem
BY AuxAssumption DEF Users!UserAssumption, Users!TableAssumption, Users!NoItem

\* A user the index shows is the one its item has had since its creation.
LEMMA UsersShown ==
    ASSUME UserInv, NEW i \in Users!Indexed(users)
    PROVE  /\ i \in Rows /\ Users!Shown(users, i) \in Users!User
           /\ Owns(i, Users!Shown(users, i).user_id, Users!Shown(users, i).email)
<1>1. i \in Rows /\ Users!Shown(users, i) \notin Users!NoItem
  BY DEF Users!Indexed, UserInv, Table
<1>2. /\ Users!Shown(users, i) \in Users!User \cup {None} /\ 1 \in 1..Len(users[i])
  BY <1>1, Versions DEF UserInv, Users!Shown
<1>3. users[i][1] \in Users!User
  BY <1>1, <1>2, UserConstants DEF Users!Shown
<1>4. Owns(i, users[i][1].user_id, users[i][1].email)
  BY <1>1, <1>2, <1>3 DEF UserInv, SameUser
<1>5. QED BY <1>1, <1>3, <1>4 DEF Users!Shown

\* A thread takes up a task, goes on with it, or gives it up.
LEMMA TaskTaken ==
    ASSUME UserInv, NEW h \in Threads, NEW x \in Users!Task \cup {None},
           Users!Take(h, x), UNCHANGED <<users, records>>,
           overlapped' \in BOOLEAN, overlapped => overlapped',
           x # None => Founded(x),
           x # None /\ x.step \in CreationSteps =>
              /\ \A k \in Threads \ {h} : Creates(k) => handling[k].id # x.id
              /\ ~overlapped' => /\ \A k \in Threads \ {h} : ~Creates(k)
                                 /\ Unclaimed(x)
    PROVE  UserInv'
<1>1. /\ handling' \in [Threads -> Users!Task \cup {None}] /\ handling'[h] = x
      /\ \A k \in Threads \ {h} : handling'[k] = handling[k]
  BY DEF Users!Take, UserInv
<1>2. /\ \A i, u, e : Owns(i, u, e)' = Owns(i, u, e)
      /\ \A r : Founded(r)' = Founded(r) /\ Unclaimed(r)' = Unclaimed(r)
      /\ SameUser' = SameUser /\ Distinct' = Distinct
  BY DEF Owns, Founded, Unclaimed, SameUser, Distinct
<1>3. \A k \in Threads : handling'[k] # None => Founded(handling'[k])
  BY <1>1 DEF UserInv
<1>4. \A k \in Threads : handling'[k] # None => Founded(handling[k])'
  BY <1>3 DEF Founded, Owns
<1>5. /\ \A k \in Threads \ {h} : Creates(k)' = Creates(k)
      /\ Creates(h)' = (x # None /\ x.step \in CreationSteps)
  BY <1>1 DEF Creates
<1>6. DifferentIds'
  BY <1>1, <1>5 DEF DifferentIds, UserInv
<1>7. ~overlapped' => InTurn'
  <2> SUFFICES ASSUME ~overlapped' PROVE InTurn'
    OBVIOUS
  <2>1. InTurn
    BY DEF UserInv
  <2>2. \A g, k \in Threads : Creates(g)' /\ Creates(k)' => g = k
    BY <1>5, <2>1 DEF InTurn
  <2>3. \A k \in Threads : Creates(k)' => Unclaimed(handling'[k])
    BY <1>1, <1>5, <2>1 DEF InTurn
  <2>4. \A k \in Threads : Creates(k)' => Unclaimed(handling[k])'
    BY <1>1, <2>3 DEF Unclaimed
  <2>5. QED BY <1>2, <2>1, <2>2, <2>4 DEF InTurn
<1>8. QED BY <1>1, <1>2, <1>4, <1>6, <1>7 DEF UserInv

\* A new version of the item i of the table.
LEMMA UserWritten ==
    ASSUME UserInv, NEW i \in Rows, NEW v \in Users!User, users' = Written(users, i, v),
           Len(users[i]) <= ShortLag,
           \/ users[i] = <<None>>
           \/ Owns(i, v.user_id, v.email)
    PROVE  /\ users' \in Table(Rows, Users!User \cup {None})
           /\ \A j \in Rows : Len(users'[j]) <= ShortLag + 1
           /\ \A j \in Rows \ {i} : users'[j] = users[j]
           /\ users'[i] # <<None>>
           /\ Users!Held(users', i) = v /\ Users!Shown(users', i) = Users!Shown(users, i)
           /\ SameUser'
           /\ \A j \in Rows : \A u, e : Owns(j, u, e) => Owns(j, u, e)'
<1> DEFINE V == Users!User \cup {None}
<1>1. users \in Table(Rows, V) /\ v \in V
  BY DEF UserInv
<1>2. /\ users' \in Table(Rows, V)
      /\ \A j \in Rows \ {i} : users'[j] = users[j]
      /\ Len(users[i]) \in Nat \ {0}
      /\ Len(users'[i]) = Len(users[i]) + 1
      /\ \A k \in 1..Len(users[i]) : users'[i][k] = users[i][k]
      /\ users'[i][1] = users[i][1]
      /\ users'[i][Len(users'[i])] = v
  <2> HIDE DEF V
  <2>1. QED BY <1>1, WriteAppends, Versions
<1>3. \A j \in Rows : Len(users'[j]) <= ShortLag + 1
  BY <1>2, UserConstants DEF UserInv
<1>4. users'[i] # <<None>>
  <2>1. Len(<<None>>) = 1 /\ Len(users'[i]) # 1
    BY <1>2
  <2>2. QED BY <2>1
<1>5. Users!Held(users', i) = v /\ Users!Shown(users', i) = Users!Shown(users, i)
  BY <1>2 DEF Users!Held, Users!Shown
<1>6. Owns(i, v.user_id, v.email)'
  BY <1>5 DEF Owns
<1>7. \A u, e : Owns(i, u, e) => Owns(i, u, e)'
  <2>1. CASE users[i] = <<None>>
    BY <2>1, UserConstants DEF Owns, Users!Held
  <2>2. CASE Owns(i, v.user_id, v.email)
    BY <1>5, <2>2 DEF Owns
  <2>3. QED BY <2>1, <2>2
<1>8. \A j \in Rows \ {i} : \A u, e : Owns(j, u, e)' = Owns(j, u, e)
  BY <1>2 DEF Owns, Users!Held
<1>9. ASSUME NEW j \in Rows
      PROVE  /\ \A k \in 2..Len(users'[j]) : users'[j][k] \in Users!User
             /\ \A k \in 1..Len(users'[j]) : users'[j][k] \in Users!User =>
                   Owns(j, users[j][k].user_id, users[j][k].email)'
  <2>1. CASE j # i
    BY <1>2, <1>8, <2>1 DEF UserInv, SameUser
  <2>2. CASE j = i
    <3>1. \A k \in 1..Len(users'[i]) : k \in 1..Len(users[i]) \/ k = Len(users'[i])
      BY <1>2
    <3>2. \A k \in 2..Len(users'[i]) : k \in 2..Len(users[i]) \/ k = Len(users'[i])
      BY <1>2
    <3>3. \A k \in 2..Len(users[i]) : users[i][k] \in Users!User /\ users'[i][k] = users[i][k]
      BY <1>2 DEF UserInv, SameUser
    <3>4. \A k \in 1..Len(users[i]) : users[i][k] \in Users!User =>
              Owns(i, users[i][k].user_id, users[i][k].email)
      BY DEF UserInv, SameUser
    <3>5. \A k \in 2..Len(users'[i]) : users'[i][k] \in Users!User
      BY <1>2, <3>2, <3>3
    <3>6. ASSUME NEW k \in 1..Len(users'[i]), users'[i][k] \in Users!User
          PROVE  Owns(i, users[i][k].user_id, users[i][k].email)'
      <4>1. CASE k = Len(users'[i])
        BY <1>2, <1>6, <4>1
      <4>2. CASE k \in 1..Len(users[i])
        BY <1>2, <1>7, <3>4, <3>6, <4>2
      <4>3. QED BY <3>1, <4>1, <4>2
    <3>7. QED BY <2>2, <3>5, <3>6
  <2>3. QED BY <2>1, <2>2
<1>10. SameUser'
  BY <1>9 DEF SameUser
<1>11. QED BY <1>2, <1>3, <1>4, <1>5, <1>7, <1>8, <1>10

\* The thread h is done: it has stored a user, or changed the status of one.
LEMMA TaskWritten ==
    ASSUME UserInv, NEW h \in Threads, handling[h] # None, Users!Take(h, None),
           records' = records, overlapped' = overlapped,
           NEW i \in Rows, NEW v \in Users!User, users' = Written(users, i, v),
           Len(users[i]) <= ShortLag,
           \/ handling[h].step \in CreationSteps /\ i = handling[h].id
           \/ Owns(i, v.user_id, v.email),
           users[i] = <<None>> /\ ~overlapped =>
              /\ handling[h].step = "put" /\ i = handling[h].id
              /\ v.user_id = handling[h].user /\ v.email = handling[h].email
    PROVE  UserInv'
<1>1. handling[h].step \in CreationSteps /\ i = handling[h].id => users[i] = <<None>>
  BY DEF UserInv, Founded
<1>2. /\ users' \in Table(Rows, Users!User \cup {None})
      /\ \A j \in Rows : Len(users'[j]) <= ShortLag + 1
      /\ \A j \in Rows \ {i} : users'[j] = users[j]
      /\ users'[i] # <<None>>
      /\ Users!Held(users', i) = v /\ Users!Shown(users', i) = Users!Shown(users, i)
      /\ SameUser'
      /\ \A j \in Rows : \A u, e : Owns(j, u, e) => Owns(j, u, e)'
  BY <1>1, UserWritten
<1>3. /\ handling' \in [Threads -> Users!Task \cup {None}] /\ handling'[h] = None
      /\ \A k \in Threads \ {h} : handling'[k] = handling[k]
      /\ \A k \in Threads : Creates(k)' => Creates(k) /\ k # h
  BY DEF Users!Take, UserInv, Creates
<1>4. \A j \in Rows \ {i} : /\ Users!Held(users', j) = Users!Held(users, j)
                            /\ Users!Shown(users', j) = Users!Shown(users, j)
  BY <1>2 DEF Users!Held, Users!Shown
<1>5. users[i] # <<None>> => Owns(i, v.user_id, v.email)
  BY <1>1
<1>6. \A k \in Threads \ {h} : Creates(k) => handling[k].id # i
  <2> SUFFICES ASSUME NEW k \in Threads \ {h}, Creates(k), handling[k].id = i PROVE FALSE
    OBVIOUS
  <2>1. users[i] = <<None>>
    BY DEF Creates, UserInv, Founded
  <2>2. ~Owns(i, v.user_id, v.email)
    BY <2>1, UserConstants DEF Owns, Users!Held
  <2>3. Creates(h) /\ handling[h].id = i
    BY <2>2 DEF Creates
  <2>4. QED BY <2>3 DEF UserInv, DifferentIds
<1>7. \A k \in Threads \ {h} : handling[k] # None => Founded(handling[k])'
  <2> SUFFICES ASSUME NEW k \in Threads \ {h}, handling[k] # None PROVE Founded(handling[k])'
    OBVIOUS
  <2> DEFINE r == handling[k]
  <2>1. handling'[k] = r
    BY <1>3
  <2>2. Founded(r)
    BY DEF UserInv
  <2>3. r.step \in CreationSteps => r.id \in Rows /\ users'[r.id] = <<None>>
    BY <1>2, <1>6, <2>2 DEF Founded, Creates
  <2>4. r.step \notin CreationSteps => \E j \in Rows : Owns(j, handling[k].user, handling[k].email)'
    <3>1. \A j \in Rows : Owns(j, r.user, r.email) => Owns(j, handling[k].user, handling[k].email)'
      <4>1. ASSUME NEW j \in Rows, Owns(j, r.user, r.email)
            PROVE  Owns(j, handling[k].user, handling[k].email)'
        <5>1. PICK u, e : u = r.user /\ e = r.email
          OBVIOUS
        <5>2. Owns(j, u, e)'
          BY <1>2, <4>1, <5>1
        <5>3. QED BY <2>1, <5>1, <5>2 DEF Owns
      <4>2. QED BY <4>1
    <3>2. QED BY <2>2, <3>1 DEF Founded
  <2>5. r.step = "update" =>
            r.id \in Rows /\ Owns(handling[k].id, handling[k].user, Users!Held(users, handling[k].id).email)'
    <3> SUFFICES ASSUME r.step = "update"
                 PROVE  /\ r.id \in Rows
                        /\ Owns(handling[k].id, handling[k].user,
                                Users!Held(users, handling[k].id).email)'
      OBVIOUS
    <3>1. PICK j, u, e : j = r.id /\ u = r.user /\ e = Users!Held(users, r.id).email
      OBVIOUS
    <3>2. j \in Rows /\ Owns(j, u, e)
      BY <2>2, <3>1 DEF Founded
    <3>3. Owns(j, u, e)'
      BY <1>2, <3>2
    <3>4. QED BY <2>1, <3>1, <3>2, <3>3 DEF Owns
  <2>6. r.step = "insert" => r.kind \in Users!UserKinds
    BY <2>2 DEF Founded
  <2>7. QED BY <2>1, <2>3, <2>4, <2>5, <2>6 DEF Founded
<1>8. \A k \in Threads : handling'[k] # None => Founded(handling[k])'
  BY <1>3, <1>7
<1>9. DifferentIds'
  BY <1>3 DEF UserInv, DifferentIds
<1>10. ASSUME ~overlapped PROVE InTurn'
  <2>1. InTurn
    BY <1>10 DEF UserInv
  <2>2. \A g, k \in Threads : Creates(g)' /\ Creates(k)' => g = k
    BY <1>3, <2>1 DEF InTurn
  <2>3. CASE users[i] = <<None>>
    <3>1. /\ handling[h].step = "put" /\ v.user_id = handling[h].user /\ v.email = handling[h].email
      BY <1>10, <2>3
    <3>2. Creates(h) /\ Unclaimed(handling[h])
      BY <2>1, <3>1 DEF Creates, CreationSteps, InTurn
    <3>3. \A k \in Threads : ~Creates(k)'
      BY <1>3, <2>1, <3>2 DEF InTurn
    <3>4. Distinct'
      <4>1. \A j \in Rows \ {i} : Users!Held(users, j) \in Users!User =>
                Users!Held(users, j).user_id # v.user_id /\ Users!Held(users, j).email # v.email
        BY <3>1, <3>2 DEF Unclaimed
      <4>2. QED BY <1>2, <1>4, <2>1, <4>1 DEF Distinct, InTurn
    <3>5. QED BY <2>2, <3>3, <3>4 DEF InTurn
  <2>4. CASE users[i] # <<None>>
    <3>1. /\ Users!Held(users, i) \in Users!User
          /\ Users!Held(users, i).user_id = v.user_id /\ Users!Held(users, i).email = v.email
      BY <1>5, <2>4 DEF Owns
    <3>2. Distinct'
      BY <1>2, <1>4, <2>1, <3>1 DEF Distinct, InTurn
    <3>3. \A k \in Threads : Creates(k)' => Unclaimed(handling[k])'
      <4> SUFFICES ASSUME NEW k \in Threads, Creates(k)' PROVE Unclaimed(handling[k])'
        OBVIOUS
      <4>1. Unclaimed(handling[k]) /\ handling'[k] = handling[k]
        BY <1>3, <2>1 DEF InTurn
      <4>2. QED BY <1>2, <1>4, <3>1, <4>1 DEF Unclaimed
    <3>4. QED BY <2>2, <3>2, <3>3 DEF InTurn
  <2>5. QED BY <2>3, <2>4
<1>11. \A r \in records : r.kind \in Users!UserKinds => \E j \in Rows : Owns(j, r.owner, r.for)'
  BY <1>2 DEF UserInv
<1>12. QED BY <1>2, <1>3, <1>8, <1>9, <1>10, <1>11 DEF UserInv

\* The three steps of create_user keep the invariant.
LEMMA UserCreations ==
    ASSUME UserInv, NEW h \in Threads
    PROVE  /\ \A i \in Rows : Users!CreateUser(h, i) => UserInv'
           /\ Users!CheckEmail(h) => UserInv'
           /\ Users!PutUser(h) => UserInv'
<1>1. ASSUME NEW i \in Rows, Users!CreateUser(h, i) PROVE UserInv'
  <2>1. PICK u \in Wallets, e \in Emails, s \in Statuses \cap Users!ValidStatuses :
            /\ handling[h] = None
            /\ Users!Fresh(users, i)
            /\ \A k \in Threads : Users!Creating(k) => handling[k].id # i
            /\ Users!ByWallet(u) = {}
            /\ Users!Take(h, [step |-> "check_email", id |-> i, user |-> u, email |-> e,
                              status |-> s, kind |-> None])
            /\ overlapped' = (overlapped \/ Users!Lagging(users) # {}
                                  \/ \E k \in Threads : Users!Creating(k))
            /\ UNCHANGED <<users, records>>
    BY <1>1 DEF Users!CreateUser
  <2>2. PICK x : x = [step |-> "check_email", id |-> i, user |-> u, email |-> e,
                      status |-> s, kind |-> None]
    OBVIOUS
  <2>3. x \in Users!Task /\ x.step = "check_email" /\ x.id = i /\ x.user = u /\ Users!Take(h, x)
    BY <2>1, <2>2 DEF Users!Task, Users!Steps
  <2>4. Founded(x)
    BY <2>1, <2>3 DEF Founded, CreationSteps, Users!Fresh
  <2>5. \A k \in Threads : Creates(k) = Users!Creating(k)
    BY DEF Creates, CreationSteps, Users!Creating, Users!Doing
  <2>6. ASSUME ~overlapped' PROVE Unclaimed(x)
    <3>1. Users!Lagging(users) = {}
      BY <2>1, <2>6
    <3>2. \A j \in Rows : Users!Shown(users, j) = Users!Held(users, j)
      <4>1. ASSUME NEW j \in Rows PROVE Len(users[j]) = 1
        <5>1. Len(users[j]) \in Nat \ {0}
          BY Versions DEF UserInv
        <5>2. ~(Len(users[j]) > 1)
          BY <3>1 DEF Users!Lagging, UserInv, Table
        <5>3. \A n \in Nat \ {0} : ~(n > 1) => n = 1
          OBVIOUS
        <5>4. QED BY <5>1, <5>2, <5>3
      <4>2. QED BY <4>1 DEF Users!Shown, Users!Held
    <3>3. \A j \in Rows : Users!Held(users, j) \in Users!User => Users!Held(users, j).user_id # u
      BY <2>1, <3>2, UserConstants DEF Users!ByWallet, Users!Indexed, UserInv, Table
    <3>4. QED BY <2>3, <3>2, <3>3 DEF Unclaimed
  <2>7. overlapped' \in BOOLEAN /\ (overlapped => overlapped')
    BY <2>1 DEF UserInv
  <2>8. x # None => /\ \A k \in Threads \ {h} : Creates(k) => handling[k].id # x.id
                    /\ ~overlapped' => \A k \in Threads \ {h} : ~Creates(k)
    BY <2>1, <2>3, <2>5
  <2> HIDE <2>2
  <2>9. QED BY <2>1, <2>3, <2>4, <2>6, <2>7, <2>8, TaskTaken
<1>2. ASSUME Users!CheckEmail(h) PROVE UserInv'
  <2> DEFINE r == handling[h]
  <2>1. /\ r # None /\ r.step = "check_email"
        /\ UNCHANGED <<users, records, overlapped>>
        /\ Users!Take(h, IF Users!ByEmail(r.email) = {} THEN [r EXCEPT !.step = "put"] ELSE None)
    BY <1>2 DEF Users!CheckEmail, Users!Doing
  <2>2. /\ r \in Users!Task /\ Founded(r) /\ Creates(h) /\ overlapped \in BOOLEAN
    BY <2>1 DEF UserInv, Creates, CreationSteps
  <2>3. CASE Users!ByEmail(r.email) # {}
    <3>1. Users!Take(h, None)
      BY <2>1, <2>3
    <3>2. QED BY <2>1, <2>2, <3>1, TaskTaken
  <2>4. CASE Users!ByEmail(r.email) = {}
    <3>1. PICK x : x = [r EXCEPT !.step = "put"]
      OBVIOUS
    <3>2. /\ Users!Take(h, x) /\ x \in Users!Task /\ x.step = "put"
          /\ x.id = r.id /\ x.user = r.user /\ x.email = r.email
      BY <2>1, <2>2, <2>4, <3>1 DEF Users!Task, Users!Steps
    <3>3. Founded(x)
      BY <2>1, <2>2, <3>2 DEF Founded, CreationSteps
    <3>4. \A k \in Threads \ {h} : Creates(k) => handling[k].id # x.id
      BY <2>2, <3>2 DEF UserInv, DifferentIds
    <3>5. ASSUME ~overlapped PROVE (\A k \in Threads \ {h} : ~Creates(k)) /\ Unclaimed(x)
      <4>1. (\A k \in Threads \ {h} : ~Creates(k)) /\ Unclaimed(r)
        BY <2>2, <3>5 DEF UserInv, InTurn
      <4>2. ASSUME NEW j \in Rows, Users!Held(users, j) \in Users!User
            PROVE  Users!Held(users, j).email # r.email
        <5>1. Users!Shown(users, j) \in Users!User
          BY <4>1, <4>2 DEF Unclaimed
        <5>2. j \in Users!Indexed(users)
          BY <5>1, UserConstants DEF Users!Indexed, UserInv, Table
        <5>3. Users!Shown(users, j).email # r.email
          BY <2>4, <5>2 DEF Users!ByEmail
        <5>4. Owns(j, Users!Shown(users, j).user_id, Users!Shown(users, j).email)
          BY <5>2, UsersShown
        <5>5. QED BY <5>3, <5>4 DEF Owns
      <4>3. Unclaimed(x)
        BY <3>2, <4>1, <4>2 DEF Unclaimed
      <4>4. QED BY <4>1, <4>3
    <3> HIDE <3>1
    <3>6. QED BY <2>1, <2>2, <3>2, <3>3, <3>4, <3>5, TaskTaken
  <2>5. QED BY <2>3, <2>4
<1>3. ASSUME Users!PutUser(h) PROVE UserInv'
  <2> DEFINE r == handling[h]
  <2>1. PICK v : v = [user_id |-> r.user, email |-> r.email, status |-> r.status]
    OBVIOUS
  <2>2. /\ r # None /\ r.step = "put" /\ Users!Take(h, None)
        /\ UNCHANGED <<records, overlapped>>
        /\ users' = Written(users, r.id, v)
    BY <1>3, <2>1 DEF Users!PutUser, Users!Doing, Users!PutItem, Users!Write, Written
  <2>3. r \in Users!Task /\ r.id \in Rows /\ users[r.id] = <<None>> /\ r.step \in CreationSteps
    BY <2>2 DEF UserInv, Founded, CreationSteps
  <2>4. v \in Users!User /\ v.user_id = r.user /\ v.email = r.email
    BY <2>1, <2>3 DEF Users!User, Users!Task
  <2>5. Len(users[r.id]) <= ShortLag
    BY <2>3, UserConstants
  <2> HIDE <2>1
  <2>6. QED BY <2>2, <2>3, <2>4, <2>5, TaskWritten
<1>4. QED BY <1>1, <1>2, <1>3

\* A thread that has resolved an address.
LEMMA UserResolved ==
    ASSUME UserInv, NEW e, NEW u \in Users!ResolveUserId(e)
    PROVE  \E j \in Rows : Owns(j, u, e)
BY UsersShown DEF Users!ResolveUserId, Users!ByEmail

\* So do the three steps of update_user_status.
LEMMA UserUpdates ==
    ASSUME UserInv, NEW h \in Threads
    PROVE  /\ Users!UpdateUserStatus(h) => UserInv'
           /\ Users!ResolveItem(h) => UserInv'
           /\ Users!SetStatus(h) => UserInv'
<1>1. ASSUME Users!UpdateUserStatus(h) PROVE UserInv'
  <2>1. PICK e \in Emails, s \in Statuses \cap Users!ValidStatuses :
        \E u \in Users!ResolveUserId(e) :
            /\ handling[h] = None
            /\ Users!Take(h, [step |-> "resolve", id |-> None, user |-> u, email |-> e,
                              status |-> s, kind |-> None])
            /\ UNCHANGED <<users, records, overlapped>>
    BY <1>1 DEF Users!UpdateUserStatus
  <2>2. PICK u \in Users!ResolveUserId(e) :
            /\ Users!Take(h, [step |-> "resolve", id |-> None, user |-> u, email |-> e,
                              status |-> s, kind |-> None])
            /\ UNCHANGED <<users, records, overlapped>>
    BY <2>1
  <2>3. PICK j \in Rows : Owns(j, u, e)
    BY UserResolved
  <2>4. PICK x : x = [step |-> "resolve", id |-> None, user |-> u, email |-> e,
                      status |-> s, kind |-> None]
    OBVIOUS
  <2>5. u \in Wallets
    BY <2>3 DEF Owns, Users!User
  <2>6. /\ x \in Users!Task /\ x.step = "resolve" /\ x.user = u /\ x.email = e
        /\ Users!Take(h, x)
    BY <2>2, <2>4, <2>5 DEF Users!Task, Users!Steps
  <2>7. Founded(x) /\ x.step \notin CreationSteps
    BY <2>3, <2>6 DEF Founded, CreationSteps
  <2>8. overlapped' \in BOOLEAN /\ (overlapped => overlapped')
    BY <2>2 DEF UserInv
  <2> HIDE <2>4
  <2>9. QED BY <2>2, <2>6, <2>7, <2>8, TaskTaken
<1>2. ASSUME Users!ResolveItem(h) PROVE UserInv'
  <2> DEFINE r == handling[h]
  <2>1. /\ r # None /\ r.step = "resolve" /\ UNCHANGED <<users, records, overlapped>>
        /\ \/ \E i \in Users!ByWallet(r.user) : Users!Take(h, [r EXCEPT !.step = "update", !.id = i])
           \/ Users!Take(h, None)
    BY <1>2 DEF Users!ResolveItem, Users!Doing
  <2>2. r \in Users!Task /\ Founded(r) /\ overlapped \in BOOLEAN
    BY <2>1 DEF UserInv
  <2>3. CASE Users!Take(h, None)
    BY <2>1, <2>2, <2>3, TaskTaken
  <2>4. ASSUME NEW i \in Users!ByWallet(r.user),
               Users!Take(h, [r EXCEPT !.step = "update", !.id = i])
        PROVE  UserInv'
    <3>1. i \in Users!Indexed(users) /\ Users!Shown(users, i).user_id = r.user
      BY DEF Users!ByWallet
    <3>2. i \in Rows /\ Owns(i, r.user, Users!Held(users, i).email)
      BY <3>1, UsersShown DEF Owns
    <3>3. PICK x : x = [r EXCEPT !.step = "update", !.id = i]
      OBVIOUS
    <3>4. /\ x \in Users!Task /\ x.step = "update" /\ x.id = i
          /\ x.user = r.user /\ x.email = r.email /\ Users!Take(h, x)
      BY <2>2, <2>4, <3>2, <3>3 DEF Users!Task, Users!Steps
    <3>5. Founded(x) /\ x.step \notin CreationSteps
      BY <2>1, <2>2, <3>2, <3>4 DEF Founded, CreationSteps
    <3> HIDE <3>3
    <3>6. QED BY <2>1, <2>2, <3>4, <3>5, TaskTaken
  <2>5. QED BY <2>1, <2>3, <2>4
<1>3. ASSUME Users!SetStatus(h) PROVE UserInv'
  <2> DEFINE r == handling[h]
             old == Users!Held(users, r.id)
  <2>1. /\ r # None /\ r.step = "update" /\ Users!Take(h, None)
        /\ UNCHANGED <<records, overlapped>> /\ Len(users[r.id]) <= ShortLag
        /\ users' = Written(users, r.id, IF old \in Users!NoItem THEN Orphan
                                         ELSE [old EXCEPT !.status = r.status])
    BY <1>3 DEF Users!SetStatus, Users!Doing, Users!UpdateItem, Users!Write, Written, Users!HasRoom
  <2>2. r \in Users!Task /\ r.id \in Rows /\ old \in Users!User
    BY <2>1 DEF UserInv, Founded, Owns
  <2>3. PICK v : v = [old EXCEPT !.status = r.status]
    OBVIOUS
  <2>4. v \in Users!User /\ v.user_id = old.user_id /\ v.email = old.email
    BY <2>2, <2>3 DEF Users!User, Users!Task
  <2>5. users' = Written(users, r.id, v)
    BY <2>1, <2>2, <2>3, UserConstants
  <2>6. Owns(r.id, v.user_id, v.email)
    BY <2>2, <2>4 DEF Owns
  <2>7. ASSUME users[r.id] = <<None>> PROVE FALSE
    <3>1. Users!Held(users, r.id) = None
      BY <2>7 DEF Users!Held
    <3>2. QED BY <2>2, <3>1, UserConstants
  <2> HIDE <2>3
  <2>8. QED BY <2>1, <2>2, <2>4, <2>5, <2>6, <2>7, TaskWritten
<1>4. QED BY <1>1, <1>2, <1>3

\* So do the records stored for a user.
LEMMA UserRecords ==
    ASSUME UserInv, NEW h \in Threads
    PROVE  /\ Users!CreateMetadata(h) => UserInv'
           /\ Users!CreateAudit(h) => UserInv'
           /\ Users!InsertPosition(h) => UserInv'
           /\ Users!PutRecord(h) => UserInv'
<1>1. ASSUME NEW kind \in Users!UserKinds, NEW e \in Emails,
             Users!ForUser(h, kind, e)
      PROVE  UserInv'
  <2>1. PICK u \in Users!ResolveUserId(e) :
            Users!Take(h, [step |-> "insert", id |-> None, user |-> u, email |-> e,
                           status |-> "ACTIVE", kind |-> kind])
    BY <1>1 DEF Users!ForUser
  <2>2. UNCHANGED <<users, records, overlapped>>
    BY <1>1 DEF Users!ForUser
  <2>3. PICK j \in Rows : Owns(j, u, e)
    BY UserResolved
  <2>4. PICK x : x = [step |-> "insert", id |-> None, user |-> u, email |-> e,
                      status |-> "ACTIVE", kind |-> kind]
    OBVIOUS
  <2>5. u \in Wallets
    BY <2>3 DEF Owns, Users!User
  <2>6. /\ x \in Users!Task /\ x.step = "insert" /\ x.user = u /\ x.email = e /\ x.kind = kind
        /\ Users!Take(h, x)
    BY <2>1, <2>4, <2>5 DEF Users!Task, Users!Steps, Users!ValidStatuses
  <2>7. Founded(x) /\ x.step \notin CreationSteps
    BY <2>3, <2>6 DEF Founded, CreationSteps
  <2>8. overlapped' \in BOOLEAN /\ (overlapped => overlapped')
    BY <2>2 DEF UserInv
  <2> HIDE <2>4
  <2>9. QED BY <2>2, <2>6, <2>7, <2>8, TaskTaken
<1>2. ASSUME Users!CreateMetadata(h) \/ Users!CreateAudit(h) \/ Users!InsertPosition(h)
      PROVE  UserInv'
  BY <1>1, <1>2 DEF Users!CreateMetadata, Users!CreateAudit, Users!InsertPosition, Users!UserKinds
<1>3. ASSUME Users!PutRecord(h) PROVE UserInv'
  <2> DEFINE r == handling[h]
  <2>1. PICK new : new = [kind |-> r.kind, owner |-> r.user, for |-> r.email]
    OBVIOUS
  <2>2. /\ r # None /\ r.step = "insert" /\ Users!Take(h, None) /\ UNCHANGED <<users, overlapped>>
        /\ records' = records \cup {new}
    BY <1>3, <2>1 DEF Users!PutRecord, Users!Doing
  <2>3. /\ r \in Users!Task /\ r.kind \in Users!UserKinds
        /\ \E j \in Rows : Owns(j, r.user, r.email)
    BY <2>2 DEF UserInv, Founded, CreationSteps
  <2>4. new \in Users!Record /\ new.owner = r.user /\ new.for = r.email
    BY <2>1, <2>3 DEF Users!Record, Users!Task
  <2>5. /\ handling' \in [Threads -> Users!Task \cup {None}] /\ handling'[h] = None
        /\ \A k \in Threads \ {h} : handling'[k] = handling[k]
        /\ \A k \in Threads : Creates(k)' => Creates(k)
    BY <2>2 DEF Users!Take, UserInv, Creates
  <2>6. /\ SameUser' /\ (Distinct => Distinct')
        /\ \A i, u, e : Owns(i, u, e) => Owns(i, u, e)'
    <3>1. SameUser'
      BY <2>2 DEF SameUser, Owns, UserInv
    <3>2. Distinct => Distinct'
      BY <2>2 DEF Distinct
    <3>3. \A i, u, e : Owns(i, u, e) => Owns(i, u, e)'
      BY <2>2 DEF Owns
    <3>4. QED BY <3>1, <3>2, <3>3
  <2>7. \A k \in Threads : handling'[k] # None => Founded(handling[k])'
    <3>1. \A x : Founded(x) => Founded(x)'
      BY <2>2 DEF Founded, Owns
    <3>2. \A k \in Threads : handling'[k] # None => Founded(handling'[k])
      BY <2>5 DEF UserInv
    <3>3. QED BY <2>5, <3>1, <3>2
  <2>8. DifferentIds'
    BY <2>5 DEF UserInv, DifferentIds, Creates
  <2>9. ~overlapped => InTurn'
    BY <2>2, <2>5, <2>6 DEF UserInv, InTurn, Unclaimed, Creates
  <2>10. \A q \in records' : q.kind \in Users!UserKinds => \E j \in Rows : Owns(j, q.owner, q.for)'
    BY <2>2, <2>3, <2>4, <2>6 DEF UserInv
  <2>11. records' \subseteq Users!Record
    BY <2>2, <2>4 DEF UserInv
  <2>12. QED BY <2>2, <2>5, <2>6, <2>7, <2>8, <2>9, <2>10, <2>11 DEF UserInv
<1>4. QED BY <1>2, <1>3

\* So do those stored for a token.
LEMMA SymbolRecords ==
    ASSUME UserInv, Users!UpsertTokenMeta \/ Users!InsertCandle
    PROVE  UserInv'
<1>1. ASSUME NEW kind \in Users!SymbolKinds, NEW symbol \in Symbols, NEW least,
             Users!ForSymbol(kind, symbol, least)
      PROVE  UserInv'
  <2>1. PICK new : new = [kind |-> kind, owner |-> symbol, for |-> symbol]
    OBVIOUS
  <2>2. UNCHANGED <<users, handling, overlapped>> /\ records' = records \cup {new}
    BY <1>1, <2>1 DEF Users!ForSymbol
  <2>3. new \in Users!Record /\ new.kind \notin Users!UserKinds
    BY <2>1 DEF Users!Record, Users!UserKinds, Users!SymbolKinds
  <2>4. \A q \in records' : q.kind \in Users!UserKinds => \E j \in Rows : Owns(j, q.owner, q.for)'
    BY <2>2, <2>3 DEF UserInv, Owns
  <2>5. records' \subseteq Users!Record
    BY <2>2, <2>3 DEF UserInv
  <2> HIDE <2>1
  <2>6. QED BY <2>2, <2>4, <2>5 DEF UserInv, SameUser, Founded, Owns, DifferentIds, Creates,
                                    InTurn, Unclaimed, Distinct
<1>2. QED
  BY <1>1 DEF Users!UpsertTokenMeta, Users!InsertCandle, Users!SymbolKinds

\* So does an index that catches up.
LEMMA UsersShowMore ==
    ASSUME UserInv, NEW i \in Rows, Users!IndexCatchesUp(i)
    PROVE  UserInv'
<1> DEFINE V == Users!User \cup {None}
<1>1. /\ Len(users[i]) > 1 /\ users' = CaughtUp(users, i)
      /\ UNCHANGED <<handling, records, overlapped>>
  BY DEF Users!IndexCatchesUp, Users!Lagging, Users!CatchUp, CaughtUp
<1>2. /\ users' \in Table(Rows, V)
      /\ \A j \in Rows \ {i} : users'[j] = users[j]
      /\ Len(users'[i]) = Len(users[i]) - 1
      /\ Len(users[i]) \in Nat
      /\ \A k \in 1..Len(users'[i]) : users'[i][k] = users[i][k + 1]
      /\ users'[i][1] = users[i][2]
      /\ users'[i][Len(users'[i])] = users[i][Len(users[i])]
  <2>1. users \in Table(Rows, V)
    BY DEF UserInv
  <2> HIDE DEF V
  <2>2. QED BY <1>1, <2>1, IndexDrops, Versions
<1>3. \A j \in Rows : Users!Held(users', j) = Users!Held(users, j)
  BY <1>2 DEF Users!Held
<1>4. \A j \in Rows : Users!Shown(users, j) \in Users!User
                          => Users!Shown(users', j) \in Users!User
  <2>1. 2 \in 2..Len(users[i])
    BY <1>1, <1>2
  <2>2. users'[i][1] \in Users!User
    BY <1>2, <2>1 DEF UserInv, SameUser
  <2>3. QED BY <1>2, <2>2 DEF Users!Shown
<1>5. \A j \in Rows : \A u, e : Owns(j, u, e)' <=> Owns(j, u, e)
  <2>1. \A j \in Rows : Users!Held(users', j) = Users!Held(users, j)
    BY <1>3
  <2>2. QED BY <2>1 DEF Owns
<1>6. \A j \in Rows : Len(users'[j]) <= ShortLag + 1
  BY <1>2, UserConstants DEF UserInv
<1>7. SameUser'
  <2>1. ASSUME NEW j \in Rows
        PROVE  /\ \A k \in 2..Len(users'[j]) : users'[j][k] \in Users!User
               /\ \A k \in 1..Len(users'[j]) : users'[j][k] \in Users!User =>
                     Owns(j, users[j][k].user_id, users[j][k].email)'
    <3>1. CASE j # i
      BY <1>2, <1>5, <3>1 DEF UserInv, SameUser
    <3>2. CASE j = i
      <4>1. \A k \in 1..Len(users'[i]) : k + 1 \in 1..Len(users[i])
        BY <1>2
      <4>2. \A k \in 2..Len(users'[i]) : k + 1 \in 2..Len(users[i]) /\ k \in 1..Len(users'[i])
        BY <1>2
      <4>3. \A k \in 2..Len(users'[i]) : users'[i][k] \in Users!User
        BY <1>2, <4>2 DEF UserInv, SameUser
      <4>4. \A k \in 1..Len(users[i]) : users[i][k] \in Users!User =>
                Owns(i, users[i][k].user_id, users[i][k].email)
        BY DEF UserInv, SameUser
      <4>5. \A k \in 1..Len(users'[i]) : users'[i][k] \in Users!User =>
                Owns(i, users'[i][k].user_id, users'[i][k].email)
        BY <1>2, <4>1, <4>4
      <4>6. \A k \in 1..Len(users'[i]) : users'[i][k] \in Users!User =>
                Owns(i, users[i][k].user_id, users[i][k].email)'
        <5>1. Users!Held(users', i) = Users!Held(users, i)
          BY <1>3
        <5>2. QED BY <4>5, <5>1 DEF Owns
      <4>7. QED BY <3>2, <4>3, <4>6
    <3>3. QED BY <3>1, <3>2
  <2>2. QED BY <2>1 DEF SameUser
<1>8. users[i] # <<None>>
  <2>1. Len(<<None>>) = 1 /\ Len(users[i]) # 1
    BY <1>1, <1>2
  <2>2. QED BY <2>1
<1>9. \A k \in Threads : handling'[k] # None => Founded(handling[k])'
  <2> SUFFICES ASSUME NEW k \in Threads, handling[k] # None PROVE Founded(handling[k])'
    BY <1>1
  <2> DEFINE r == handling[k]
  <2>1. Founded(r) /\ handling'[k] = r
    BY <1>1 DEF UserInv
  <2>2. r.step \in CreationSteps => r.id \in Rows /\ users'[r.id] = <<None>>
    BY <1>2, <1>8, <2>1 DEF Founded
  <2>3. \A j \in Rows : Users!Held(users', j) = Users!Held(users, j)
    BY <1>3
  <2>4. QED BY <2>1, <2>2, <2>3 DEF Founded, Owns
<1>10. DifferentIds'
  BY <1>1 DEF UserInv, DifferentIds, Creates
<1>11. ASSUME ~overlapped PROVE InTurn'
  <2>1. InTurn
    BY <1>11 DEF UserInv
  <2>2. \A k \in Threads : Creates(k)' <=> Creates(k)
    BY <1>1 DEF Creates
  <2>3. Distinct'
    <3>1. \A j \in Rows : Users!Held(users', j) = Users!Held(users, j)
      BY <1>3
    <3>2. QED BY <2>1, <3>1 DEF InTurn, Distinct
  <2>4. \A k \in Threads : Creates(k) => Unclaimed(handling[k])'
    <3> SUFFICES ASSUME NEW k \in Threads, Creates(k) PROVE Unclaimed(handling[k])'
      OBVIOUS
    <3> DEFINE r == handling[k]
    <3>1. Unclaimed(r) /\ handling'[k] = r
      BY <1>1, <2>1 DEF InTurn
    <3>2. handling'[k].step = r.step /\ handling'[k].user = r.user /\ handling'[k].email = r.email
      BY <3>1
    <3> HIDE DEF r
    <3>3. Unclaimed(r)'
      BY <1>3, <1>4, <3>1, <3>2 DEF Unclaimed, r
    <3>4. QED BY <3>3 DEF r
  <2>5. QED BY <2>1, <2>2, <2>3, <2>4 DEF InTurn
<1>12. \A r \in records : r.kind \in Users!UserKinds => \E j \in Rows : Owns(j, r.owner, r.for)'
  BY <1>5 DEF UserInv
<1>13. QED BY <1>1, <1>2, <1>6, <1>7, <1>9, <1>10, <1>11, <1>12 DEF UserInv

\* UserInv holds in every state.
LEMMA UserInvariant == Users!Spec => []UserInv
<1>1. Users!Init => UserInv
  <2> SUFFICES ASSUME Users!Init PROVE UserInv
    OBVIOUS
  <2>1. /\ users = [i \in Rows |-> <<None>>] /\ handling = [h \in Threads |-> None]
        /\ records = {} /\ overlapped = FALSE
    BY DEF Users!Init, Users!EmptyTable
  <2>2. /\ users \in Table(Rows, Users!User \cup {None})
        /\ \A i \in Rows : Len(users[i]) = 1 /\ users[i][1] = None /\ Users!Held(users, i) = None
    BY <2>1, NothingWritten DEF Users!Held
  <2>3. \A i \in Rows : Len(users[i]) <= ShortLag + 1
    <3>1. 1 <= ShortLag + 1
      BY UserConstants
    <3>2. QED BY <2>2, <3>1
  <2>4. SameUser
    <3>1. 2..1 = {} /\ 1..1 = {1}
      OBVIOUS
    <3>2. QED BY <2>2, <3>1, UserConstants DEF SameUser
  <2>5. \A h \in Threads : handling[h] = None
    BY <2>1
  <2>6. DifferentIds /\ InTurn
    BY <2>2, <2>5, UserConstants DEF DifferentIds, InTurn, Creates, Distinct
  <2>7. handling \in [Threads -> Users!Task \cup {None}]
    BY <2>1
  <2>8. QED BY <2>1, <2>2, <2>3, <2>4, <2>5, <2>6, <2>7 DEF UserInv
<1>2. UserInv /\ [Users!Next]_(Users!vars) => UserInv'
  <2>1. ASSUME UserInv, UNCHANGED Users!vars PROVE UserInv'
    BY <2>1 DEF UserInv, SameUser, Founded, Owns, DifferentIds, Creates, InTurn, Unclaimed,
                Distinct, Users!vars
  <2>2. ASSUME UserInv, NEW h \in Threads,
               \/ \E i \in Rows : Users!CreateUser(h, i)
               \/ Users!CheckEmail(h) \/ Users!PutUser(h)
               \/ Users!UpdateUserStatus(h) \/ Users!ResolveItem(h) \/ Users!SetStatus(h)
               \/ Users!CreateMetadata(h) \/ Users!CreateAudit(h) \/ Users!InsertPosition(h)
               \/ Users!PutRecord(h)
        PROVE  UserInv'
    <3>1. ASSUME NEW i \in Rows, Users!CreateUser(h, i) PROVE UserInv'
      BY <2>2, <3>1, UserCreations
    <3>2. CASE Users!CheckEmail(h) \/ Users!PutUser(h)
      BY <2>2, <3>2, UserCreations
    <3>3. CASE Users!UpdateUserStatus(h) \/ Users!ResolveItem(h) \/ Users!SetStatus(h)
      BY <2>2, <3>3, UserUpdates
    <3>4. CASE Users!CreateMetadata(h) \/ Users!CreateAudit(h) \/ Users!InsertPosition(h)
      BY <2>2, <3>4, UserRecords
    <3>5. CASE Users!PutRecord(h)
      BY <2>2, <3>5, UserRecords
    <3>6. QED BY <2>2, <3>1, <3>2, <3>3, <3>4, <3>5
  <2>3. ASSUME UserInv, Users!UpsertTokenMeta \/ Users!InsertCandle PROVE UserInv'
    BY <2>3, SymbolRecords
  <2>4. QED BY <2>1, <2>2, <2>3, UsersShowMore DEF Users!Next
<1>3. QED BY <1>1, <1>2, PTL DEF Users!Spec

\* The steps of the other services do not touch the users.
LEMMA UsersFollow == AuxSpec => Users!Spec
<1>1. AuxInit => Users!Init
  BY DEF AuxInit
<1>2. [AuxNext]_auxVars => [Users!Next]_(Users!vars)
  BY DEF AuxNext, SessionStep, KycStep, LimitStep, UserStep, DeployStep, NodeStep,
         auxVars, userVars, Users!vars
<1>3. QED BY <1>1, <1>2, PTL DEF AuxSpec, Users!Spec

(***************************************************************************)
(* AuxUsers, for any number of users, addresses, wallets and threads:      *)
(* while no two creations overlap, addresses and wallets are unique, and   *)
(* a record stays with the user its address resolves to.                   *)
(***************************************************************************)
THEOREM RecordsStayListed == AuxSpec => []RecordsReachable
<1>1. UserInv => RecordsReachable
  <2> SUFFICES ASSUME UserInv, ~overlapped PROVE RecordsReachable
    BY DEF RecordsReachable, Users!RecordsReachable
  <2>1. \A i \in Users!Present(users) : i \in Rows /\ Users!Held(users, i) \in Users!User
    <3>1. ASSUME NEW i \in Rows PROVE Users!Held(users, i) \in Users!User \cup {None}
      BY Versions DEF UserInv, Users!Held
    <3>2. Users!Present(users) = {i \in Rows : Users!Held(users, i) \notin Users!NoItem}
      BY DEF Users!Present, UserInv, Table
    <3>3. QED BY <3>1, <3>2, UserConstants
  <2>2. Distinct
    BY DEF UserInv, InTurn
  <2>3. ASSUME NEW r \in records, r.kind \in Users!UserKinds,
               NEW i \in Users!Present(users), Users!Held(users, i).email = r.for
        PROVE  Users!Held(users, i).user_id = r.owner
    <3>1. PICK j \in Rows : Owns(j, r.owner, r.for)
      BY <2>3 DEF UserInv
    <3>2. j = i
      BY <2>1, <2>2, <2>3, <3>1 DEF Distinct, Owns
    <3>3. QED BY <3>1, <3>2 DEF Owns
  <2>4. QED BY <2>1, <2>2, <2>3
            DEF RecordsReachable, Users!RecordsReachable, Users!Items, Distinct
<1>2. QED BY <1>1, UserInvariant, UsersFollow, PTL

(***************************************************************************)
(* AuxUsers: a status is written to the user whose address was named.      *)
(***************************************************************************)
THEOREM StatusReachesUser == AuxSpec => RightUserUpdated
<1> DEFINE Right(h) == Users!Doing(h, "update") /\ handling'[h] = None =>
                           Users!Held(users, handling[h].id).email = handling[h].email
<1>1. UserInv /\ [Users!Next]_(Users!vars)
          => [~overlapped => \A h \in Threads : Right(h)]_(Users!vars)
  <2> SUFFICES ASSUME UserInv, ~overlapped, NEW h \in Threads, Users!Doing(h, "update")
               PROVE  Users!Held(users, handling[h].id).email = handling[h].email
    OBVIOUS
  <2> DEFINE r == handling[h]
  <2>1. r # None /\ r.step = "update"
    BY DEF Users!Doing
  <2>2. /\ r.id \in Rows /\ Owns(r.id, r.user, Users!Held(users, r.id).email)
        /\ \E j \in Rows : Owns(j, r.user, r.email)
    BY <2>1 DEF UserInv, Founded, CreationSteps
  <2>3. PICK j \in Rows : Owns(j, r.user, r.email)
    BY <2>2
  <2>4. j = r.id
    BY <2>2, <2>3 DEF UserInv, InTurn, Distinct, Owns
  <2>5. QED BY <2>3, <2>4 DEF Owns
<1>2. QED BY <1>1, UserInvariant, UsersFollow, PTL
          DEF Users!Spec, RightUserUpdated, Users!RightUserUpdated

-----------------------------------------------------------------------------
(***************************************************************************)
(* RateLimits.  A sum of counts is the number of grains under them, one for *)
(* each unit: an increment adds at most one grain to all versions of all   *)
(* items, and exactly one to what the table holds while none is deleted.   *)
(***************************************************************************)
\* A grain for each unit an item of T counts: there are as many as the sum.
Grains(f, T, N) == {g \in T \X (1..N) : g[2] <= f[g[1]]}

\* g sums f over every subset of T, an item at a time, as a fold does.
AddsUp(g, f, T) ==
    \A s \in SUBSET T :
        g[s] = IF s = {} THEN 0
               ELSE f[CHOOSE x \in s : TRUE] + g[s \ {CHOOSE x \in s : TRUE}]

(***************************************************************************)
(* Of the subsets of a finite set that have a property, one is smallest.   *)
(***************************************************************************)
LEMMA SmallestOf ==
    ASSUME NEW S, IsFiniteSet(S), NEW Bad \in SUBSET SUBSET S, Bad # {}
    PROVE  \E s \in Bad : \A t \in Bad : t \subseteq s => t = s
<1>1. Bad \subseteq FiniteSubsetsOf(S)
  BY FS_FiniteSubsetsOfFinite
<1>2. PICK s \in Bad : \A t \in Bad : ~(<<t, s>> \in StrictSubsetOrdering(S))
  BY <1>1, FS_StrictSubsetOrderingWellFounded, WFMin
<1>3. QED BY <1>2 DEF StrictSubsetOrdering

(***************************************************************************)
(* There are finitely many grains.                                         *)
(***************************************************************************)
LEMMA GrainsFinite ==
    ASSUME NEW f, NEW T, IsFiniteSet(T), NEW N \in Nat
    PROVE  IsFiniteSet(Grains(f, T, N)) /\ Cardinality(Grains(f, T, N)) \in Nat
<1>1. IsFiniteSet(1..N)
  BY FS_Interval
<1>2. IsFiniteSet(T \X (1..N))
  BY <1>1, FS_Product
<1>3. Grains(f, T, N) \in SUBSET (T \X (1..N))
  BY DEF Grains
<1>4. IsFiniteSet(Grains(f, T, N))
  BY <1>2, <1>3, FS_Subset
<1>5. QED BY <1>4, FS_CardinalityType

(***************************************************************************)
(* An item has as many grains as it counts.                                *)
(***************************************************************************)
LEMMA GrainsOfOne ==
    ASSUME NEW x, NEW n \in Nat
    PROVE  LET G == {x} \X (1..n) IN IsFiniteSet(G) /\ Cardinality(G) = n
<1> DEFINE G == {x} \X (1..n)
           b == [k \in 1..n |-> <<x, k>>]
<1>1. b \in Bijection(1..n, G)
  <2>1. b \in [1..n -> G]
    OBVIOUS
  <2>2. \A k, m \in 1..n : b[k] = b[m] => k = m
    OBVIOUS
  <2>3. \A g \in G : \E k \in 1..n : b[k] = g
    OBVIOUS
  <2> HIDE DEF G, b
  <2>4. QED BY <2>1, <2>2, <2>3, Fun_IsBij
<1>2. IsFiniteSet(1..n) /\ Cardinality(1..n) = n
  BY FS_Interval
<1> HIDE DEF G
<1>3. ExistsBijection(1..n, G)
  BY <1>1 DEF ExistsBijection
<1>4. IsFiniteSet(G) /\ Cardinality(G) = n
  BY <1>2, <1>3, FS_Bijection
<1>5. QED BY <1>4 DEF G

(***************************************************************************)
(* The grains of a set are those of one item and those of the rest.        *)
(***************************************************************************)
LEMMA GrainsSplit ==
    ASSUME NEW T, IsFiniteSet(T), NEW N \in Nat, NEW f, \A y \in T : f[y] \in 0..N, NEW x \in T
    PROVE  Cardinality(Grains(f, T, N)) = f[x] + Cardinality(Grains(f, T \ {x}, N))
<1> DEFINE G == Grains(f, T, N)
           R == Grains(f, T \ {x}, N)
           X == {x} \X (1..f[x])
<1>1. IsFiniteSet(R) /\ Cardinality(R) \in Nat
  <2>1. IsFiniteSet(T \ {x})
    BY FS_RemoveElement
  <2>2. QED BY <2>1, GrainsFinite
<1>2. f[x] \in 0..N /\ f[x] \in Nat
  OBVIOUS
<1>3. IsFiniteSet(X) /\ Cardinality(X) = f[x]
  BY <1>2, GrainsOfOne
<1>4. G = X \cup R
  <2>1. G \subseteq X \cup R
    BY <1>2 DEF Grains
  <2>2. X \subseteq G
    BY <1>2 DEF Grains
  <2>3. R \subseteq G
    BY DEF Grains
  <2>4. QED BY <2>1, <2>2, <2>3
<1>5. X \cap R = {}
  BY DEF Grains
<1> HIDE DEF G, R, X
<1>6. Cardinality(X \cap R) = 0
  BY <1>5, FS_EmptySet
<1>7. Cardinality(G) = Cardinality(X) + Cardinality(R) - Cardinality(X \cap R)
  BY <1>1, <1>3, <1>4, FS_Union
<1>8. QED BY <1>1, <1>2, <1>3, <1>6, <1>7 DEF G, R

(***************************************************************************)
(* What a fold that adds computes on each subset: the number of grains.    *)
(***************************************************************************)
LEMMA SumIsGrains ==
    ASSUME NEW T, IsFiniteSet(T), NEW N \in Nat, NEW f, \A y \in T : f[y] \in 0..N, NEW g,
           AddsUp(g, f, T)
    PROVE  \A s \in SUBSET T : g[s] = Cardinality(Grains(f, s, N))
<1> SUFFICES ASSUME NEW bad \in SUBSET T, g[bad] # Cardinality(Grains(f, bad, N))
             PROVE  FALSE
  OBVIOUS
<1> DEFINE Bad == {s \in SUBSET T : g[s] # Cardinality(Grains(f, s, N))}
<1>1. PICK s \in Bad : \A t \in Bad : t \subseteq s => t = s
  <2>1. Bad \in SUBSET SUBSET T /\ bad \in Bad
    OBVIOUS
  <2> HIDE DEF Bad
  <2>2. QED BY <2>1, SmallestOf
<1>2. s # {}
  <2>1. Grains(f, {}, N) = {}
    BY DEF Grains
  <2>2. QED BY <1>1, <2>1, FS_EmptySet DEF AddsUp
<1>3. PICK x : x = CHOOSE y \in s : TRUE
  OBVIOUS
<1>4. x \in s
  BY <1>2, <1>3
<1>5. g[s] = f[x] + g[s \ {x}]
  BY <1>1, <1>2, <1>3 DEF AddsUp
<1>6. g[s \ {x}] = Cardinality(Grains(f, s \ {x}, N))
  BY <1>1, <1>4
<1>7. Cardinality(Grains(f, s, N)) = f[x] + Cardinality(Grains(f, s \ {x}, N))
  <2>1. s \in SUBSET T /\ IsFiniteSet(s)
    BY <1>1, FS_Subset
  <2>2. QED BY <1>4, <2>1, GrainsSplit
<1>8. QED BY <1>1, <1>5, <1>6, <1>7

(***************************************************************************)
(* There is such a fold.                                                   *)
(***************************************************************************)
LEMMA SumExists ==
    ASSUME NEW T, IsFiniteSet(T), NEW N \in Nat, NEW f, \A y \in T : f[y] \in 0..N
    PROVE  \E g : g = [s \in SUBSET T |-> g[s]] /\ AddsUp(g, f, T)
<1> DEFINE g == [s \in SUBSET T |-> Cardinality(Grains(f, s, N))]
<1>1. ASSUME NEW s \in SUBSET T
      PROVE  g[s] = IF s = {} THEN 0
                    ELSE f[CHOOSE x \in s : TRUE] + g[s \ {CHOOSE x \in s : TRUE}]
  <2>1. CASE s = {}
    <3>1. Grains(f, {}, N) = {}
      BY DEF Grains
    <3>2. QED BY <2>1, <3>1, FS_EmptySet
  <2>2. CASE s # {}
    <3>1. PICK x : x = CHOOSE y \in s : TRUE
      OBVIOUS
    <3>2. x \in s /\ IsFiniteSet(s)
      BY <2>2, <3>1, FS_Subset
    <3>3. Cardinality(Grains(f, s, N)) = f[x] + Cardinality(Grains(f, s \ {x}, N))
      BY <3>2, GrainsSplit
    <3>4. g[s] = Cardinality(Grains(f, s, N)) /\ g[s \ {x}] = Cardinality(Grains(f, s \ {x}, N))
      OBVIOUS
    <3> HIDE DEF g
    <3>5. QED BY <2>2, <3>1, <3>3, <3>4
  <2>3. QED BY <2>1, <2>2
<1>2. g = [s \in SUBSET T |-> g[s]]
  OBVIOUS
<1> HIDE DEF g
<1>3. AddsUp(g, f, T)
  BY <1>1 DEF AddsUp
<1>4. QED BY <1>2, <1>3

(***************************************************************************)
(* The sum of a table's shown counts, as CountFor computes it.             *)
(***************************************************************************)
LEMMA ShownSum ==
    ASSUME NEW t, NEW N \in Nat, NEW f,
           IsFiniteSet(Limits!Indexed(t)),
           \A i \in Limits!Indexed(t) : f[i] \in 0..N /\ f[i] = Limits!Shown(t, i)
    PROVE  Limits!CountFor(t) = Cardinality(Grains(f, Limits!Indexed(t), N))
<1> DEFINE T == Limits!Indexed(t)
           Sum(g) == g = [s \in SUBSET T |->
                            IF s = {} THEN 0
                            ELSE Limits!Shown(t, CHOOSE x \in s : TRUE)
                                 + g[s \ {CHOOSE x \in s : TRUE}]]
           G == CHOOSE g : Sum(g)
<1>1. Limits!CountFor(t) = G[T]
  BY DEF Limits!CountFor, Limits!FoldSet, Limits!MapThenFoldSet
<1>2. \A s \in SUBSET T : s # {} => f[CHOOSE x \in s : TRUE] = Limits!Shown(t, CHOOSE x \in s : TRUE)
  OBVIOUS
<1>3. IsFiniteSet(T)
  OBVIOUS
<1>4. \A y \in T : f[y] \in 0..N
  OBVIOUS
<1> HIDE DEF T
<1>5. \E g : Sum(g)
  <2>1. PICK g : g = [s \in SUBSET T |-> g[s]] /\ AddsUp(g, f, T)
    BY <1>3, <1>4, SumExists
  <2>2. \A s \in SUBSET T : g[s] = IF s = {} THEN 0
                                  ELSE f[CHOOSE x \in s : TRUE] + g[s \ {CHOOSE x \in s : TRUE}]
    BY <2>1 DEF AddsUp
  <2>3. \A s \in SUBSET T : g[s] = IF s = {} THEN 0
                                  ELSE Limits!Shown(t, CHOOSE x \in s : TRUE)
                                       + g[s \ {CHOOSE x \in s : TRUE}]
    BY <1>2, <2>2
  <2>4. Sum(g)
    BY <2>1, <2>3
  <2>5. QED BY <2>4
<1>6. Sum(G)
  BY <1>5
<1> HIDE DEF G
<1>7. AddsUp(G, f, T)
  BY <1>2, <1>6 DEF AddsUp
<1>8. G[T] = Cardinality(Grains(f, T, N))
  BY <1>7, <1>3, <1>4, SumIsGrains
<1>9. QED BY <1>1, <1>8 DEF T

(***************************************************************************)
(* The sum of what the table holds, as Total computes it.                  *)
(***************************************************************************)
LEMMA HeldSum ==
    ASSUME NEW N \in Nat, NEW f,
           IsFiniteSet(Limits!Present(counters)),
           \A i \in Limits!Present(counters) : f[i] \in 0..N /\ f[i] = Limits!Held(counters, i)
    PROVE  Limits!Total = Cardinality(Grains(f, Limits!Present(counters), N))
<1> DEFINE T == Limits!Present(counters)
           Sum(g) == g = [s \in SUBSET T |->
                            IF s = {} THEN 0
                            ELSE Limits!Held(counters, CHOOSE x \in s : TRUE)
                                 + g[s \ {CHOOSE x \in s : TRUE}]]
           G == CHOOSE g : Sum(g)
<1>1. Limits!Total = G[T]
  BY DEF Limits!Total, Limits!FoldSet, Limits!MapThenFoldSet
<1>2. \A s \in SUBSET T : s # {} => f[CHOOSE x \in s : TRUE] = Limits!Held(counters, CHOOSE x \in s : TRUE)
  OBVIOUS
<1>3. IsFiniteSet(T)
  OBVIOUS
<1>4. \A y \in T : f[y] \in 0..N
  OBVIOUS
<1> HIDE DEF T
<1>5. \E g : Sum(g)
  <2>1. PICK g : g = [s \in SUBSET T |-> g[s]] /\ AddsUp(g, f, T)
    BY <1>3, <1>4, SumExists
  <2>2. \A s \in SUBSET T : g[s] = IF s = {} THEN 0
                                  ELSE f[CHOOSE x \in s : TRUE] + g[s \ {CHOOSE x \in s : TRUE}]
    BY <2>1 DEF AddsUp
  <2>3. \A s \in SUBSET T : g[s] = IF s = {} THEN 0
                                  ELSE Limits!Held(counters, CHOOSE x \in s : TRUE)
                                       + g[s \ {CHOOSE x \in s : TRUE}]
    BY <1>2, <2>2
  <2>4. Sum(g)
    BY <2>1, <2>3
  <2>5. QED BY <2>4
<1>6. Sum(G)
  BY <1>5
<1> HIDE DEF G
<1>7. AddsUp(G, f, T)
  BY <1>2, <1>6 DEF AddsUp
<1>8. G[T] = Cardinality(Grains(f, T, N))
  BY <1>7, <1>3, <1>4, SumIsGrains
<1>9. QED BY <1>1, <1>8 DEF T

Counts == 1..MaxCount

\* What the table counts in item i; a deleted item counts nothing.
HeldCount == [i \in Rows |-> IF Limits!Held(counters, i) \in Counts
                              THEN Limits!Held(counters, i) ELSE 0]

HeldGrains == Grains(HeldCount, Rows, MaxCount)

\* The grains of every version the indices may still show.
AllGrains == {g \in Rows \X Counts :
                 \E k \in 1..Len(counters[g[1]]) :
                    counters[g[1]][k] \in Counts /\ g[2] <= counters[g[1]][k]}

\* An item is only ever created once, and never written before that.
OnceMade ==
    /\ \A i \in Rows : \A k \in 2..Len(counters[i]) : counters[i][k] # None
    /\ \A h \in Threads : Limits!Doing(h, "put") =>
          /\ \A i \in counting[h].ids : Limits!Held(counters, i) = None
          /\ \A k \in Threads \ {h} : Limits!Doing(k, "put") => counting[h].ids \cap counting[k].ids = {}
    /\ \A h \in Threads : Limits!Doing(h, "add") \/ Limits!Doing(h, "delete") =>
          \A i \in counting[h].ids : Limits!Held(counters, i) # None

LimitTask == [step : {"add", "put", "count", "delete"}, ids : SUBSET Rows]

\* No count exceeds the increments written, and none is missing but by a reset.
Counted ==
    /\ \A i \in Rows : \A k \in 1..Len(counters[i]) :
          counters[i][k] \in Counts => counters[i][k] <= written
    /\ Cardinality(AllGrains) <= written
    /\ ~deleted => /\ \A i \in Rows : Limits!Held(counters, i) \in Counts \cup {None}
                   /\ Cardinality(HeldGrains) = written

LimitInv ==
    /\ counters \in Table(Rows, Counts \cup Limits!NoItem)
    /\ \A i \in Rows : Len(counters[i]) <= MaxLag + 1
    /\ counting \in [Threads -> LimitTask \cup {None}]
    /\ written \in 0..MaxCount /\ counted \in Nat /\ deleted \in BOOLEAN
    /\ OnceMade
    /\ Counted
    /\ counted <= written

\* What the assumptions say of the constants, as the steps below need it.
LEMMA LimitConstants ==
    /\ MaxCount \in Nat /\ MaxLag \in Nat \ {0} /\ IsFiniteSet(Rows)
    /\ \A n \in Counts : n \notin Limits!NoItem
    /\ None \in Limits!NoItem /\ Gone \in Limits!NoItem /\ Orphan \in Limits!NoItem
    /\ None # Gone /\ None # Orphan
<1>1. /\ MaxCount \in Nat /\ MaxLag \in Nat \ {0} /\ None \notin {Gone, Orphan}
      /\ Limits!NoItem \cap Nat = {}
  BY AuxAssumption DEF Limits!RateAssumption, Limits!TableAssumption
<1>2. IsFiniteSet(Rows)
  BY AuxAssumption DEF Limits!RateAssumption, Limits!IsFiniteSet, IsFiniteSet
<1>3. Counts \subseteq Nat
  BY <1>1 DEF Counts
<1>4. None \in Limits!NoItem /\ Gone \in Limits!NoItem /\ Orphan \in Limits!NoItem
  BY DEF Limits!NoItem
<1>5. QED BY <1>1, <1>2, <1>3, <1>4

(***************************************************************************)
(* There are finitely many of them.                                        *)
(***************************************************************************)
LEMMA AllGrainsFinite ==
    IsFiniteSet(AllGrains) /\ Cardinality(AllGrains) \in Nat
<1>1. IsFiniteSet(Counts)
  BY LimitConstants, FS_Interval DEF Counts
<1>2. IsFiniteSet(Rows)
  BY LimitConstants
<1>3. IsFiniteSet(Rows \X Counts)
  BY <1>1, <1>2, FS_Product
<1>4. AllGrains \in SUBSET (Rows \X Counts)
  BY DEF AllGrains
<1>5. QED BY <1>3, <1>4, FS_Subset, FS_CardinalityType

(***************************************************************************)
(* No more grains than before are within what is written.                  *)
(***************************************************************************)
LEMMA FewerGrains ==
    ASSUME LimitInv, AllGrains' \subseteq AllGrains, written' = written
    PROVE  Cardinality(AllGrains') <= written'
<1>1. IsFiniteSet(AllGrains) /\ Cardinality(AllGrains) \in Nat
  BY AllGrainsFinite
<1>2. /\ IsFiniteSet(AllGrains') /\ Cardinality(AllGrains') <= Cardinality(AllGrains)
  BY <1>1, FS_Subset
<1>3. Cardinality(AllGrains') \in Nat
  BY <1>2, FS_CardinalityType
<1>4. written \in Nat /\ Cardinality(AllGrains) <= written
  BY LimitConstants DEF LimitInv, Counted
<1>5. QED BY <1>1, <1>2, <1>3, <1>4

(***************************************************************************)
(* A count one higher than the one held, or what an update of a deleted    *)
(* item leaves, keeps the sums within the increments written.              *)
(***************************************************************************)
LEMMA CountWritten ==
    ASSUME LimitInv, NEW i \in Rows, Len(counters[i]) <= MaxLag, NEW v,
           counters' = Written(counters, i, v), v # None,
           \/ v = HeldCount[i] + 1
           \/ v = Orphan /\ Limits!Held(counters, i) \in {Gone, Orphan},
           written < MaxCount, written' = written + 1, deleted' = deleted
    PROVE  /\ counters' \in Table(Rows, Counts \cup Limits!NoItem)
           /\ \A j \in Rows : Len(counters'[j]) <= MaxLag + 1
           /\ written' \in 0..MaxCount
           /\ \A j \in Rows : \A k \in 2..Len(counters'[j]) : counters'[j][k] # None
           /\ \A j \in Rows \ {i} : Limits!Held(counters, j)' = Limits!Held(counters, j)
           /\ Limits!Held(counters, i)' # None
           /\ Counted'
<1> DEFINE V == Counts \cup Limits!NoItem
           m == HeldCount[i]
<1>1. /\ counters \in Table(Rows, V) /\ written \in 0..MaxCount /\ OnceMade /\ Counted
      /\ MaxLag \in Nat \ {0} /\ MaxCount \in Nat
  BY LimitConstants DEF LimitInv
<1>2. /\ \A j \in Rows : Len(counters[j]) \in Nat \ {0} /\ Len(counters[j]) <= MaxLag + 1
      /\ \A j \in Rows : \A k \in 1..Len(counters[j]) : counters[j][k] \in V
      /\ \A j \in Rows : Limits!Held(counters, j) \in V
  BY <1>1, Versions DEF Limits!Held, LimitInv
<1>3. m \in 0..written
  <2>1. Limits!Held(counters, i) \in Counts => Limits!Held(counters, i) <= written
    BY <1>1, <1>2 DEF Counted, Limits!Held
  <2>2. QED BY <1>1, <2>1 DEF HeldCount, Counts
<1>4. v \in V /\ (v \in Counts => v <= written + 1) /\ (v \in Counts => v = m + 1)
  BY <1>1, <1>3, LimitConstants DEF Counts
<1>5. /\ counters' \in Table(Rows, V)
      /\ \A j \in Rows \ {i} : counters'[j] = counters[j]
      /\ Len(counters'[i]) = Len(counters[i]) + 1
      /\ \A k \in 1..Len(counters[i]) : counters'[i][k] = counters[i][k]
      /\ counters'[i][Len(counters'[i])] = v
  <2> HIDE DEF V
  <2>1. QED BY <1>1, <1>4, WriteAppends
<1> HIDE DEF m
<1>6. /\ \A j \in Rows : Len(counters'[j]) <= MaxLag + 1
      /\ written' \in 0..MaxCount
  BY <1>1, <1>2, <1>5
<1>7. \A k \in 1..Len(counters'[i]) : k # Len(counters'[i]) =>
          k \in 1..Len(counters[i]) /\ counters'[i][k] = counters[i][k]
  BY <1>2, <1>5
<1>8. \A j \in Rows : \A k \in 2..Len(counters'[j]) : counters'[j][k] # None
  <2>1. \A k \in 2..Len(counters'[i]) : k # Len(counters'[i]) => k \in 2..Len(counters[i])
    BY <1>2, <1>5
  <2>2. \A k \in 2..Len(counters'[i]) : k \in 1..Len(counters'[i])
    BY <1>2, <1>5
  <2>3. \A k \in 2..Len(counters'[i]) : counters'[i][k] # None
    BY <1>1, <1>5, <1>7, <2>1, <2>2 DEF OnceMade
  <2>4. QED BY <1>1, <1>5, <2>3 DEF OnceMade
<1>9. /\ \A j \in Rows \ {i} : Limits!Held(counters', j) = Limits!Held(counters, j)
      /\ Limits!Held(counters', i) = v
  BY <1>5 DEF Limits!Held
<1>10. \A j \in Rows : \A k \in 1..Len(counters'[j]) : counters'[j][k] \in Counts => counters'[j][k] <= written'
  <2>1. \A k \in 1..Len(counters'[i]) : counters'[i][k] \in Counts => counters'[i][k] <= written + 1
    <3>1. \A k \in 1..Len(counters[i]) : counters[i][k] \in Counts => counters[i][k] <= written + 1
      BY <1>1 DEF Counted, Counts
    <3>2. QED BY <1>4, <1>5, <1>7, <3>1
  <2>2. \A j \in Rows \ {i} : \A k \in 1..Len(counters'[j]) : counters'[j][k] \in Counts => counters'[j][k] <= written + 1
    BY <1>1, <1>5 DEF Counted, Counts
  <2>3. QED BY <2>1, <2>2
<1>11. Cardinality(AllGrains)' <= written'
  <2>1. IsFiniteSet(AllGrains) /\ Cardinality(AllGrains) \in Nat
    BY AllGrainsFinite
  <2>2. AllGrains' \subseteq AllGrains \cup {<<i, v>>}
    <3> SUFFICES ASSUME NEW j \in Rows, NEW n \in Counts, NEW k \in 1..Len(counters'[j]),
                        counters'[j][k] \in Counts, n <= counters'[j][k]
                 PROVE  <<j, n>> \in AllGrains \cup {<<i, v>>}
      BY DEF AllGrains
    <3>1. CASE j # i
      BY <1>5, <3>1 DEF AllGrains
    <3>2. CASE j = i /\ k # Len(counters'[i])
      BY <1>7, <3>2 DEF AllGrains
    <3>3. CASE j = i /\ k = Len(counters'[i]) /\ n # v
      <4>1. v \in Counts /\ v = m + 1 /\ n <= m /\ m \in Counts
        BY <1>3, <1>4, <1>5, <1>1, <3>3 DEF Counts
      <4>2. Limits!Held(counters, i) = m
        BY <4>1 DEF m, HeldCount, Counts
      <4>3. Len(counters[i]) \in 1..Len(counters[i]) /\ counters[i][Len(counters[i])] = m
        BY <1>2, <4>2 DEF Limits!Held
      <4>4. QED BY <3>3, <4>1, <4>3 DEF AllGrains
    <3>4. QED BY <3>1, <3>2, <3>3
  <2>3. Cardinality(AllGrains') <= Cardinality(AllGrains) + 1
    <3>1. IsFiniteSet(AllGrains \cup {<<i, v>>})
          /\ Cardinality(AllGrains \cup {<<i, v>>}) <= Cardinality(AllGrains) + 1
          /\ Cardinality(AllGrains \cup {<<i, v>>}) \in Nat
      <4>1. /\ IsFiniteSet(AllGrains \cup {<<i, v>>})
            /\ Cardinality(AllGrains \cup {<<i, v>>}) = IF <<i, v>> \in AllGrains
                   THEN Cardinality(AllGrains) ELSE Cardinality(AllGrains) + 1
        BY <2>1, FS_AddElement
      <4>2. QED BY <2>1, <4>1
    <3>2. IsFiniteSet(AllGrains') /\ Cardinality(AllGrains') <= Cardinality(AllGrains \cup {<<i, v>>})
      BY <2>2, <3>1, FS_Subset
    <3>3. Cardinality(AllGrains') \in Nat
      BY <3>2, FS_CardinalityType
    <3>4. QED BY <2>1, <3>1, <3>2, <3>3
  <2>4. Cardinality(AllGrains) <= written
    BY <1>1 DEF Counted
  <2>5. Cardinality(AllGrains') \in Nat
    <3>1. IsFiniteSet(AllGrains \cup {<<i, v>>})
      BY <2>1, FS_AddElement
    <3>2. QED BY <2>2, <3>1, FS_Subset, FS_CardinalityType
  <2>6. QED BY <1>1, <2>1, <2>3, <2>4, <2>5
<1>12. ASSUME ~deleted
       PROVE  /\ \A j \in Rows : Limits!Held(counters', j) \in Counts \cup {None}
              /\ Cardinality(HeldGrains)' = written'
  <2>1. /\ \A j \in Rows : Limits!Held(counters, j) \in Counts \cup {None}
        /\ Cardinality(HeldGrains) = written
    BY <1>1, <1>12 DEF Counted
  <2>2. v = m + 1 /\ v \in Counts
    BY <1>1, <1>3, <1>12, <2>1, LimitConstants DEF Counts, m
  <2>3. HeldGrains' = HeldGrains \cup {<<i, v>>} /\ <<i, v>> \notin HeldGrains
    <3>1. HeldCount'[i] = v /\ \A j \in Rows \ {i} : HeldCount'[j] = HeldCount[j]
      BY <1>9, <2>2 DEF HeldCount
    <3>2. HeldGrains' = {g \in Rows \X Counts : g[2] <= HeldCount'[g[1]]}
          /\ HeldGrains = {g \in Rows \X Counts : g[2] <= HeldCount[g[1]]}
      BY DEF HeldGrains, Grains, Counts
    <3>3. HeldCount[i] = m /\ \A n \in Counts : n <= v <=> n <= m \/ n = v
      BY <1>3, <2>2 DEF m, Counts
    <3>4. ~(v <= m)
      BY <1>3, <2>2
    <3>5. \A j \in Rows, n \in Counts : <<j, n>> \in HeldGrains' <=>
              <<j, n>> \in HeldGrains \/ (j = i /\ n = v)
      BY <3>1, <3>2, <3>3
    <3>6. HeldGrains' \subseteq Rows \X Counts /\ HeldGrains \subseteq Rows \X Counts
      BY <3>2
    <3>7. <<i, v>> \notin HeldGrains
      BY <3>2, <3>3, <3>4
    <3>8. <<i, v>> \in Rows \X Counts
      BY <2>2
    <3>9. QED BY <3>5, <3>6, <3>7, <3>8
  <2>4. IsFiniteSet(HeldGrains) /\ Cardinality(HeldGrains) \in Nat
    BY <1>1, LimitConstants, GrainsFinite DEF HeldGrains
  <2>5. Cardinality(HeldGrains') = Cardinality(HeldGrains) + 1
    BY <2>3, <2>4, FS_AddElement
  <2>6. QED BY <1>9, <2>1, <2>2, <2>5
<1>13. Counted'
  BY <1>10, <1>11, <1>12 DEF Counted
<1>14. QED BY <1>5, <1>6, <1>8, <1>9, <1>13

(***************************************************************************)
(* The writes of increment: ADD to an item, or the put of a new one.       *)
(***************************************************************************)
LEMMA IncrementWrites ==
    ASSUME LimitInv, NEW h \in Threads, NEW i \in Rows, Limits!Add(h, i) \/ Limits!Put(h, i)
    PROVE  LimitInv'
<1> DEFINE m == HeldCount[i]
<1>1. /\ Limits!Doing(h, "add") \/ Limits!Doing(h, "put")
      /\ i \in counting[h].ids /\ written < MaxCount /\ written' = written + 1
      /\ Limits!Do(h, "count", {}) /\ UNCHANGED <<counted, deleted>>
  BY DEF Limits!Add, Limits!Put
<1>2. /\ Limits!Held(counters, i) \in Counts \cup Limits!NoItem
      /\ Len(counters[i]) \in Nat \ {0}
  BY Versions DEF LimitInv, Limits!Held
<1>3. \E v : /\ v # None /\ counters' = Written(counters, i, v) /\ Len(counters[i]) <= MaxLag
             /\ \/ v = m + 1
                \/ v = Orphan /\ Limits!Held(counters, i) \in {Gone, Orphan}
  <2>1. CASE Limits!Add(h, i)
    <3>1. Limits!Held(counters, i) # None
      BY <2>1 DEF LimitInv, OnceMade, Limits!Add
    <3>2. CASE Limits!Held(counters, i) \in Counts
      <4>1. counters' = Written(counters, i, m + 1) /\ Len(counters[i]) <= MaxLag
        BY <2>1, <3>2, LimitConstants
           DEF Limits!Add, Limits!UpdateItem, Limits!Write, Limits!HasRoom, Written, HeldCount
      <4>2. m + 1 \in Nat
        BY <3>2, LimitConstants DEF HeldCount, Counts
      <4>3. m + 1 # None
        BY <4>2, AuxAssumption DEF Limits!RateAssumption, Limits!NoItem
      <4>4. QED BY <4>1, <4>3
    <3>3. CASE Limits!Held(counters, i) \in Limits!NoItem
      <4>1. counters' = Written(counters, i, Orphan) /\ Len(counters[i]) <= MaxLag
        BY <2>1, <3>3
           DEF Limits!Add, Limits!UpdateItem, Limits!Write, Limits!HasRoom, Written
      <4>2. Limits!Held(counters, i) \in {Gone, Orphan}
        BY <3>1, <3>3 DEF Limits!NoItem
      <4>3. QED BY <4>1, <4>2, LimitConstants
    <3>4. QED BY <1>2, <3>2, <3>3
  <2>2. CASE Limits!Put(h, i)
    <3>1. Limits!Held(counters, i) = None
      BY <2>2 DEF LimitInv, OnceMade, Limits!Put
    <3>2. m = 0
      BY <3>1, LimitConstants DEF HeldCount
    <3>3. counters' = Written(counters, i, 1)
      BY <2>2 DEF Limits!Put, Limits!PutItem, Limits!Write, Written
    <3>4. Len(counters[i]) = 1
      <4>1. \A k \in 2..Len(counters[i]) : k # Len(counters[i])
        BY <3>1 DEF LimitInv, OnceMade, Limits!Held
      <4>2. \A n \in Nat \ {0} : n # 1 => n \in 2..n
        OBVIOUS
      <4>3. QED BY <1>2, <4>1, <4>2
    <3>5. 1 # None
      BY AuxAssumption DEF Limits!RateAssumption, Limits!NoItem
    <3>6. Len(counters[i]) <= MaxLag /\ 1 = m + 1
      BY <3>2, <3>4, LimitConstants
    <3>7. QED BY <3>3, <3>5, <3>6
  <2>3. QED BY <2>1, <2>2
<1>4. /\ counters' \in Table(Rows, Counts \cup Limits!NoItem)
      /\ \A j \in Rows : Len(counters'[j]) <= MaxLag + 1
      /\ written' \in 0..MaxCount
      /\ \A j \in Rows : \A k \in 2..Len(counters'[j]) : counters'[j][k] # None
      /\ \A j \in Rows \ {i} : Limits!Held(counters, j)' = Limits!Held(counters, j)
      /\ Limits!Held(counters, i)' # None
      /\ Counted'
  BY <1>1, <1>3, CountWritten
<1>5. /\ counting' \in [Threads -> LimitTask \cup {None}]
      /\ \A k \in Threads \ {h} : counting'[k] = counting[k]
      /\ ~Limits!Doing(h, "put")' /\ ~Limits!Doing(h, "add")' /\ ~Limits!Doing(h, "delete")'
  <2>1. counting' = [counting EXCEPT ![h] = [step |-> "count", ids |-> {}]]
    BY <1>1 DEF Limits!Do
  <2>2. QED BY <2>1 DEF LimitInv, LimitTask, Limits!Doing
<1>7. OnceMade'
  <2>1. ASSUME NEW k \in Threads, Limits!Doing(k, "put")'
        PROVE  /\ \A j \in counting'[k].ids : Limits!Held(counters, j)' = None
               /\ \A n \in Threads \ {k} : Limits!Doing(n, "put")' =>
                     counting'[k].ids \cap counting'[n].ids = {}
    <3>1. k # h /\ Limits!Doing(k, "put") /\ counting'[k] = counting[k]
      BY <1>5, <2>1 DEF Limits!Doing
    <3>2. \A n \in Threads \ {k} : Limits!Doing(n, "put")' =>
              counting'[k].ids \cap counting'[n].ids = {}
      BY <1>5, <3>1 DEF LimitInv, OnceMade, Limits!Doing
    <3>3. i \notin counting[k].ids
      <4>1. CASE Limits!Doing(h, "put")
        BY <1>1, <3>1, <4>1 DEF LimitInv, OnceMade
      <4>2. CASE Limits!Doing(h, "add")
        BY <1>1, <3>1, <4>2 DEF LimitInv, OnceMade
      <4>3. QED BY <1>1, <4>1, <4>2
    <3>4. counting[k].ids \subseteq Rows
      BY <3>1 DEF LimitInv, LimitTask, Limits!Doing
    <3>5. \A j \in counting[k].ids : Limits!Held(counters, j) = None
      BY <3>1 DEF LimitInv, OnceMade
    <3>6. QED BY <1>4, <3>1, <3>2, <3>3, <3>4, <3>5
  <2>2. ASSUME NEW k \in Threads, Limits!Doing(k, "add")' \/ Limits!Doing(k, "delete")', NEW j \in counting'[k].ids
        PROVE  Limits!Held(counters, j)' # None
    <3>1. /\ k # h /\ counting'[k] = counting[k]
          /\ Limits!Doing(k, "add") \/ Limits!Doing(k, "delete")
      BY <1>5, <2>2 DEF Limits!Doing
    <3>2. Limits!Held(counters, j) # None
      BY <2>2, <3>1 DEF LimitInv, OnceMade
    <3>3. j \in Rows
      BY <2>2, <3>1 DEF LimitInv, LimitTask, Limits!Doing
    <3>4. QED BY <1>4, <3>2, <3>3
  <2>3. QED BY <1>4, <2>1, <2>2 DEF OnceMade
<1>8. counted' \in Nat /\ deleted' \in BOOLEAN /\ counted' <= written'
  <2>1. written \in Nat
    BY LimitConstants DEF LimitInv
  <2>2. QED BY <1>1, <2>1 DEF LimitInv
<1>9. QED BY <1>4, <1>5, <1>7, <1>8 DEF LimitInv

(***************************************************************************)
(* An item the indices show has been created.                              *)
(***************************************************************************)
LEMMA ListedIsMade ==
    ASSUME LimitInv, NEW i \in Limits!Indexed(counters)
    PROVE  i \in Rows /\ Limits!Held(counters, i) # None
<1>1. i \in Rows /\ counters[i][1] # None
  BY LimitConstants DEF Limits!Indexed, Limits!Shown, LimitInv, Table
<1>2. Len(counters[i]) \in Nat \ {0}
  BY <1>1, Versions DEF LimitInv
<1>3. \A n \in Nat \ {0} : n # 1 => n \in 2..n
  OBVIOUS
<1>4. QED BY <1>1, <1>2, <1>3 DEF LimitInv, OnceMade, Limits!Held

(***************************************************************************)
(* The sum a query answers is within the increments written.               *)
(***************************************************************************)
LEMMA ShownIsWritten ==
    ASSUME LimitInv
    PROVE  Limits!CountFor(counters) \in Nat /\ Limits!CountFor(counters) <= written
<1> DEFINE I == Limits!Indexed(counters)
           f == [i \in Rows |-> IF counters[i][1] \in Counts THEN counters[i][1] ELSE 0]
           G == Grains(f, I, MaxCount)
<1>1. MaxCount \in Nat /\ IsFiniteSet(Rows) /\ counters \in Table(Rows, Counts \cup Limits!NoItem)
      /\ written \in Nat
  BY LimitConstants DEF LimitInv
<1>2. I \in SUBSET Rows /\ IsFiniteSet(I)
  <2>1. I \in SUBSET Rows
    BY <1>1 DEF Limits!Indexed, Table
  <2>2. QED BY <1>1, <2>1, FS_Subset
<1>3. \A i \in I : counters[i][1] \in Counts /\ 1 \in 1..Len(counters[i])
  <2>1. \A i \in Rows : counters[i][1] \in Counts \cup Limits!NoItem /\ 1 \in 1..Len(counters[i])
    BY <1>1, Versions
  <2>2. QED BY <1>2, <2>1 DEF Limits!Indexed, Limits!Shown
<1>4. \A i \in I : f[i] \in 0..MaxCount /\ f[i] = Limits!Shown(counters, i)
  BY <1>2, <1>3 DEF Limits!Shown, Counts
<1>5. Limits!CountFor(counters) = Cardinality(G)
  <2> HIDE DEF f
  <2>1. QED BY <1>1, <1>2, <1>4, ShownSum
<1>6. G \subseteq AllGrains
  BY <1>2, <1>3, <1>4 DEF Grains, AllGrains, Limits!Shown, Counts
<1>7. IsFiniteSet(G) /\ Cardinality(G) \in Nat
  <2> HIDE DEF f
  <2>1. QED BY <1>1, <1>2, GrainsFinite
<1>8. IsFiniteSet(AllGrains) /\ Cardinality(AllGrains) \in Nat
  BY AllGrainsFinite
<1> HIDE DEF G
<1>9. Cardinality(G) <= Cardinality(AllGrains)
  BY <1>6, <1>8, FS_Subset
<1>10. Cardinality(AllGrains) <= written
  BY DEF LimitInv, Counted
<1>11. QED BY <1>1, <1>5, <1>7, <1>8, <1>9, <1>10

(***************************************************************************)
(* What only one request's own task changes, and the deletions.            *)
(***************************************************************************)
LEMMA CountTasks ==
    ASSUME LimitInv, NEW h \in Threads
    PROVE  /\ \A i \in Rows : Limits!Increment(h, i) => LimitInv'
           /\ Limits!Count(h) => LimitInv'
           /\ Limits!Reset(h) => LimitInv'
<1>1. ASSUME NEW x \in LimitTask \cup {None}, counting' = [counting EXCEPT ![h] = x],
             UNCHANGED <<counters, written, deleted>>,
             counted' \in Nat, counted' <= written,
             x # None /\ x.step = "put" =>
                /\ \A i \in x.ids : Limits!Held(counters, i) = None
                /\ \A k \in Threads : Limits!Doing(k, "put") => x.ids \cap counting[k].ids = {},
             x # None /\ x.step \in {"add", "delete"} => \A i \in x.ids : Limits!Held(counters, i) # None
      PROVE  LimitInv'
  <2>1. /\ counting' \in [Threads -> LimitTask \cup {None}] /\ counting'[h] = x
        /\ \A k \in Threads \ {h} : counting'[k] = counting[k]
    BY <1>1 DEF LimitInv
  <2>2. \A i : Limits!Held(counters', i) = Limits!Held(counters, i)
    BY <1>1
  <2>3. OnceMade'
    BY <1>1, <2>1, <2>2 DEF LimitInv, OnceMade, Limits!Doing
  <2>4. Counted'
    BY <1>1 DEF LimitInv, Counted, AllGrains, HeldGrains, HeldCount, Limits!Held
  <2>5. QED BY <1>1, <2>1, <2>3, <2>4 DEF LimitInv
<1>2. ASSUME NEW i \in Rows, Limits!Increment(h, i) PROVE LimitInv'
  <2>1. PICK a, p : a = [step |-> "add", ids |-> {i}] /\ p = [step |-> "put", ids |-> {i}]
    OBVIOUS
  <2>2. /\ a \in LimitTask /\ a.step = "add" /\ a.ids = {i}
        /\ p \in LimitTask /\ p.step = "put" /\ p.ids = {i}
    BY <2>1 DEF LimitTask
  <2>3. UNCHANGED <<counters, written, counted, deleted>>
    BY <1>2 DEF Limits!Increment
  <2>4. counted' \in Nat /\ counted' <= written
    BY <2>3 DEF LimitInv
  <2>5. CASE i \in Limits!Indexed(counters) /\ Limits!Do(h, "add", {i})
    <3>1. counting' = [counting EXCEPT ![h] = a]
      BY <2>1, <2>5 DEF Limits!Do
    <3>2. Limits!Held(counters, i) # None
      BY <2>5, ListedIsMade
    <3>3. QED BY <1>1, <2>2, <2>3, <2>4, <3>1, <3>2
  <2>6. CASE /\ Limits!Fresh(counters, i)
             /\ \A k \in Threads : Limits!Doing(k, "put") => i \notin counting[k].ids
             /\ Limits!Do(h, "put", {i})
    <3>1. counting' = [counting EXCEPT ![h] = p]
      BY <2>1, <2>6 DEF Limits!Do
    <3>2. Limits!Held(counters, i) = None
      BY <2>6 DEF Limits!Fresh, Limits!Held
    <3>3. QED BY <1>1, <2>2, <2>3, <2>4, <2>6, <3>1, <3>2
  <2>7. QED BY <1>2, <2>5, <2>6 DEF Limits!Increment
<1>3. ASSUME Limits!Count(h) PROVE LimitInv'
  <2>1. counted' \in Nat /\ counted' <= written
    BY <1>3, ShownIsWritten DEF Limits!Count
  <2>2. counting' = [counting EXCEPT ![h] = None] /\ UNCHANGED <<counters, written, deleted>>
    BY <1>3 DEF Limits!Count
  <2>3. QED BY <1>1, <2>1, <2>2
<1>4. ASSUME Limits!Reset(h) PROVE LimitInv'
  <2>1. PICK x : x = [step |-> "delete", ids |-> Limits!Indexed(counters)]
    OBVIOUS
  <2>2. Limits!Indexed(counters) \subseteq Rows
    BY DEF LimitInv, Limits!Indexed, Table
  <2>3. x \in LimitTask /\ x.step = "delete" /\ x.ids = Limits!Indexed(counters)
    BY <2>1, <2>2 DEF LimitTask
  <2>4. counting' = [counting EXCEPT ![h] = x] /\ UNCHANGED <<counters, written, counted, deleted>>
    BY <1>4, <2>1 DEF Limits!Reset, Limits!Do
  <2>5. counted' \in Nat /\ counted' <= written
    BY <2>4 DEF LimitInv
  <2>6. QED BY <1>1, <2>3, <2>4, <2>5, ListedIsMade
<1>5. QED BY <1>2, <1>3, <1>4

\* A deletion leaves every other count as it is.
LEMMA CountDeleted ==
    ASSUME LimitInv, NEW h \in Threads, NEW i \in Rows, Limits!Delete(h, i)
    PROVE  LimitInv'
<1> DEFINE V == Counts \cup Limits!NoItem
<1>1. /\ counters' = Written(counters, i, Gone) /\ Len(counters[i]) <= MaxLag
      /\ deleted' = TRUE /\ UNCHANGED <<written, counted>>
      /\ Limits!Doing(h, "delete")
  BY DEF Limits!Delete, Limits!DeleteItem, Limits!Write, Limits!HasRoom, Written
<1>2. /\ counters \in Table(Rows, V) /\ Gone \in V /\ Gone \notin Counts /\ Gone # None
      /\ Len(counters[i]) \in Nat \ {0} /\ MaxLag \in Nat
      /\ \A j \in Rows : Len(counters[j]) <= MaxLag + 1
  BY LimitConstants, Versions DEF LimitInv
<1>3. /\ counters' \in Table(Rows, V)
      /\ \A j \in Rows \ {i} : counters'[j] = counters[j]
      /\ Len(counters'[i]) = Len(counters[i]) + 1
      /\ \A k \in 1..Len(counters[i]) : counters'[i][k] = counters[i][k]
      /\ counters'[i][Len(counters'[i])] = Gone
  <2> HIDE DEF V
  <2>1. QED BY <1>1, <1>2, WriteAppends
<1>4. \A j \in Rows : Len(counters'[j]) <= MaxLag + 1
  BY <1>1, <1>2, <1>3
<1>5. /\ \A k \in 1..Len(counters'[i]) : k # Len(counters'[i]) =>
            k \in 1..Len(counters[i]) /\ counters'[i][k] = counters[i][k]
      /\ \A k \in 2..Len(counters'[i]) : k \in 1..Len(counters'[i]) /\
            (k # Len(counters'[i]) => k \in 2..Len(counters[i]))
  BY <1>2, <1>3
<1>6. PICK x \in LimitTask \cup {None} :
          /\ counting' = [counting EXCEPT ![h] = x]
          /\ x = None \/ (x.step = "delete" /\ x.ids \subseteq counting[h].ids)
  <2> DEFINE others == counting[h].ids \ {i}
             x == IF others = {} THEN None ELSE [counting[h] EXCEPT !.ids = others]
  <2>1. counting[h] \in LimitTask /\ counting[h].step = "delete"
    BY <1>1 DEF LimitInv, Limits!Doing
  <2>2. counting' = [counting EXCEPT ![h] = x]
    BY DEF Limits!Delete
  <2>3. /\ x \in LimitTask \cup {None}
        /\ x = None \/ (x.step = "delete" /\ x.ids \subseteq counting[h].ids)
    BY <2>1 DEF LimitTask
  <2>4. QED BY <2>2, <2>3
<1>7. /\ counting' \in [Threads -> LimitTask \cup {None}]
      /\ \A k \in Threads \ {h} : counting'[k] = counting[k]
      /\ \/ counting'[h] = None
         \/ counting'[h].step = "delete" /\ counting'[h].ids \subseteq counting[h].ids
  BY <1>6 DEF LimitInv
<1>8. /\ \A j \in Rows \ {i} : Limits!Held(counters', j) = Limits!Held(counters, j)
      /\ Limits!Held(counters', i) = Gone
  BY <1>3 DEF Limits!Held
<1>9. OnceMade'
  <2>1. \A j \in Rows : \A k \in 2..Len(counters'[j]) : counters'[j][k] # None
    BY <1>2, <1>3, <1>5 DEF LimitInv, OnceMade
  <2>2. \A j \in Rows : Limits!Held(counters, j) # None => Limits!Held(counters', j) # None
    BY <1>2, <1>8
  <2>3. Limits!Held(counters, i) # None
    BY <1>1 DEF LimitInv, OnceMade, Limits!Delete
  <2>4. \A k \in Threads : Limits!Doing(k, "delete") \/ Limits!Doing(k, "add") \/ Limits!Doing(k, "put")
                           => counting[k].ids \subseteq Rows
    BY DEF LimitInv, LimitTask, Limits!Doing
  <2>5. ASSUME NEW k \in Threads, Limits!Doing(k, "put")'
        PROVE  /\ \A j \in counting'[k].ids : Limits!Held(counters', j) = None
               /\ \A n \in Threads \ {k} : Limits!Doing(n, "put")' =>
                     counting'[k].ids \cap counting'[n].ids = {}
    <3>1. k # h /\ Limits!Doing(k, "put") /\ counting'[k] = counting[k]
      BY <1>7, <2>5 DEF Limits!Doing
    <3>2. \A j \in counting[k].ids : Limits!Held(counters', j) = None
      BY <1>8, <2>3, <2>4, <3>1 DEF LimitInv, OnceMade
    <3>3. \A n \in Threads \ {k} : Limits!Doing(n, "put")' =>
              counting'[k].ids \cap counting'[n].ids = {}
      BY <1>7, <3>1 DEF LimitInv, OnceMade, Limits!Doing
    <3>4. QED BY <3>1, <3>2, <3>3
  <2>6. ASSUME NEW k \in Threads, Limits!Doing(k, "add")' \/ Limits!Doing(k, "delete")',
               NEW j \in counting'[k].ids
        PROVE  Limits!Held(counters', j) # None
    <3>1. /\ Limits!Doing(k, "add") \/ Limits!Doing(k, "delete")
          /\ j \in counting[k].ids
      BY <1>1, <1>7, <2>6 DEF Limits!Doing
    <3>2. QED BY <2>2, <2>4, <3>1 DEF LimitInv, OnceMade
  <2>7. QED BY <2>1, <2>5, <2>6 DEF OnceMade
<1>10. AllGrains' \subseteq AllGrains
  <2> SUFFICES ASSUME NEW j \in Rows, NEW n \in Counts, NEW k \in 1..Len(counters'[j]),
                      counters'[j][k] \in Counts, n <= counters'[j][k]
               PROVE  <<j, n>> \in AllGrains
    BY DEF AllGrains
  <2>1. k \in 1..Len(counters[j]) /\ counters'[j][k] = counters[j][k]
    BY <1>2, <1>3, <1>5
  <2>2. QED BY <2>1 DEF AllGrains
<1>11. Counted'
  <2>1. \A j \in Rows : \A k \in 1..Len(counters'[j]) :
            counters'[j][k] \in Counts => counters'[j][k] <= written'
    <3>1. \A k \in 1..Len(counters'[i]) : counters'[i][k] \in Counts =>
              k \in 1..Len(counters[i]) /\ counters'[i][k] = counters[i][k]
      BY <1>2, <1>3, <1>5
    <3>2. \A j \in Rows \ {i} : counters'[j] = counters[j]
      BY <1>3
    <3>3. \A j \in Rows : \A k \in 1..Len(counters[j]) : counters[j][k] \in Counts => counters[j][k] <= written
      BY DEF LimitInv, Counted
    <3>4. \A k \in 1..Len(counters'[i]) : counters'[i][k] \in Counts => counters'[i][k] <= written
      BY <3>1, <3>3
    <3>5. QED BY <1>1, <3>2, <3>3, <3>4
  <2>2. Cardinality(AllGrains') <= written'
    BY <1>1, <1>10, FewerGrains
  <2>3. QED BY <1>1, <2>1, <2>2 DEF Counted
<1>12. QED BY <1>1, <1>3, <1>4, <1>7, <1>9, <1>11 DEF LimitInv

(***************************************************************************)
(* An index that catches up changes no count the table holds.              *)
(***************************************************************************)
LEMMA CountsShowMore ==
    ASSUME LimitInv, NEW i \in Rows, Limits!IndexCatchesUp(i)
    PROVE  LimitInv'
<1> DEFINE V == Counts \cup Limits!NoItem
<1>1. /\ Len(counters[i]) > 1 /\ counters' = CaughtUp(counters, i)
      /\ UNCHANGED <<counting, written, counted, deleted>>
  BY DEF Limits!IndexCatchesUp, Limits!Lagging, Limits!CatchUp, CaughtUp
<1>2. /\ counters' \in Table(Rows, V)
      /\ \A j \in Rows \ {i} : counters'[j] = counters[j]
      /\ Len(counters'[i]) = Len(counters[i]) - 1
      /\ Len(counters[i]) \in Nat
      /\ \A k \in 1..Len(counters'[i]) : counters'[i][k] = counters[i][k + 1]
      /\ counters'[i][Len(counters'[i])] = counters[i][Len(counters[i])]
  <2>1. counters \in Table(Rows, V)
    BY DEF LimitInv
  <2> HIDE DEF V
  <2>2. QED BY <1>1, <2>1, IndexDrops, Versions
<1>3. \A j \in Rows : Limits!Held(counters', j) = Limits!Held(counters, j)
  BY <1>2 DEF Limits!Held
<1>4. /\ \A k \in 1..Len(counters'[i]) : k + 1 \in 1..Len(counters[i])
      /\ \A k \in 2..Len(counters'[i]) : k + 1 \in 2..Len(counters[i]) /\ k \in 1..Len(counters'[i])
  BY <1>2
<1>5. \A j \in Rows : Len(counters'[j]) <= MaxLag + 1
  BY <1>2, LimitConstants DEF LimitInv
<1>6. OnceMade'
  <2>1. \A j \in Rows : \A k \in 2..Len(counters'[j]) : counters'[j][k] # None
    <3>1. \A j \in Rows : \A k \in 2..Len(counters[j]) : counters[j][k] # None
      BY DEF LimitInv, OnceMade
    <3>2. \A k \in 2..Len(counters'[i]) : counters'[i][k] # None
      BY <1>2, <1>4, <3>1
    <3>3. QED BY <1>2, <3>1, <3>2
  <2>2. \A k \in Threads : Limits!Doing(k, "add") \/ Limits!Doing(k, "put") \/ Limits!Doing(k, "delete")
            => counting[k].ids \subseteq Rows
    BY DEF LimitInv, LimitTask, Limits!Doing
  <2>3. QED BY <1>1, <1>3, <2>1, <2>2 DEF LimitInv, OnceMade, Limits!Doing
<1>7. Counted'
  <2>1. \A j \in Rows : \A k \in 1..Len(counters'[j]) :
            counters'[j][k] \in Counts => counters'[j][k] <= written'
    <3>1. \A j \in Rows \ {i} : counters'[j] = counters[j]
      BY <1>2
    <3>2. \A j \in Rows : \A k \in 1..Len(counters[j]) : counters[j][k] \in Counts => counters[j][k] <= written
      BY DEF LimitInv, Counted
    <3>3. \A k \in 1..Len(counters'[i]) : counters'[i][k] \in Counts => counters'[i][k] <= written
      BY <1>2, <1>4, <3>2
    <3>4. QED BY <1>1, <3>1, <3>2, <3>3
  <2>2. AllGrains' \subseteq AllGrains
    <3> SUFFICES ASSUME NEW j \in Rows, NEW n \in Counts, NEW k \in 1..Len(counters'[j]),
                        counters'[j][k] \in Counts, n <= counters'[j][k]
                 PROVE  <<j, n>> \in AllGrains
      BY DEF AllGrains
    <3>1. \E m \in 1..Len(counters[j]) : counters'[j][k] = counters[j][m]
      BY <1>2, <1>4
    <3>2. QED BY <3>1 DEF AllGrains
  <2>3. Cardinality(AllGrains') <= written'
    BY <1>1, <2>2, FewerGrains
  <2>4. HeldGrains' = HeldGrains
    <3>1. HeldCount' = HeldCount
      BY <1>3 DEF HeldCount
    <3>2. QED BY <3>1 DEF HeldGrains
  <2>5. QED BY <1>1, <1>3, <2>1, <2>3, <2>4 DEF LimitInv, Counted
<1>8. QED BY <1>1, <1>2, <1>5, <1>6, <1>7 DEF LimitInv

\* LimitInv holds in every state.
LEMMA LimitInvariant == Limits!Spec => []LimitInv
<1>1. Limits!Init => LimitInv
  <2> SUFFICES ASSUME Limits!Init PROVE LimitInv
    OBVIOUS
  <2>1. /\ counters = [i \in Rows |-> <<None>>] /\ counting = [h \in Threads |-> None]
        /\ written = 0 /\ counted = 0 /\ deleted = FALSE
    BY DEF Limits!Init, Limits!EmptyTable
  <2>2. /\ counters \in Table(Rows, Counts \cup Limits!NoItem)
        /\ \A i \in Rows : Len(counters[i]) = 1 /\ counters[i][1] = None
                          /\ Limits!Held(counters, i) = None
    <3>1. None \in Counts \cup Limits!NoItem
      BY LimitConstants
    <3>2. QED BY <2>1, <3>1, NothingWritten DEF Limits!Held
  <2>3. \A i \in Rows : /\ Len(counters[i]) <= MaxLag + 1
                        /\ \A k \in 1..Len(counters[i]) : counters[i][k] \notin Counts
                        /\ \A k \in 2..Len(counters[i]) : counters[i][k] # None
    <3>1. 1 <= MaxLag + 1 /\ None \notin Counts
      BY LimitConstants
    <3>2. 1..1 = {1} /\ 2..1 = {}
      OBVIOUS
    <3>3. QED BY <2>2, <3>1, <3>2
  <2>4. OnceMade
    BY <2>1, <2>3 DEF OnceMade, Limits!Doing
  <2>5. AllGrains = {}
    BY <2>3 DEF AllGrains
  <2>6. HeldGrains = {}
    <3>1. \A i \in Rows : HeldCount[i] = 0
      BY <2>2, LimitConstants DEF HeldCount
    <3>2. QED BY <3>1 DEF HeldGrains, Grains
  <2>7. Counted
    BY <2>1, <2>2, <2>3, <2>5, <2>6, FS_EmptySet DEF Counted
  <2>8. counting \in [Threads -> LimitTask \cup {None}]
    BY <2>1
  <2>9. written \in 0..MaxCount /\ counted \in Nat /\ deleted \in BOOLEAN /\ counted <= written
    <3>1. MaxCount \in Nat
      BY LimitConstants
    <3>2. 0 \in 0..MaxCount /\ 0 <= 0
      BY <3>1
    <3>3. QED BY <2>1, <3>2
  <2>10. QED BY <2>2, <2>3, <2>4, <2>7, <2>8, <2>9 DEF LimitInv
<1>2. LimitInv /\ [Limits!Next]_(Limits!vars) => LimitInv'
  <2>1. ASSUME LimitInv, UNCHANGED Limits!vars PROVE LimitInv'
    BY <2>1 DEF LimitInv, OnceMade, Counted, AllGrains, HeldGrains, HeldCount, Limits!Held,
                Limits!Doing, Limits!vars
  <2>2. ASSUME LimitInv, NEW h \in Threads, NEW i \in Rows,
               Limits!Increment(h, i) \/ Limits!Add(h, i) \/ Limits!Put(h, i) \/ Limits!Delete(h, i)
        PROVE  LimitInv'
    <3>1. CASE Limits!Increment(h, i)
      BY <2>2, <3>1, CountTasks
    <3>2. CASE Limits!Add(h, i) \/ Limits!Put(h, i)
      BY <2>2, <3>2, IncrementWrites
    <3>3. CASE Limits!Delete(h, i)
      BY <2>2, <3>3, CountDeleted
    <3>4. QED BY <2>2, <3>1, <3>2, <3>3
  <2>3. ASSUME LimitInv, NEW h \in Threads, Limits!Count(h) \/ Limits!Reset(h) PROVE LimitInv'
    BY <2>3, CountTasks
  <2>4. ASSUME LimitInv, NEW i \in Rows, Limits!IndexCatchesUp(i) PROVE LimitInv'
    BY <2>4, CountsShowMore
  <2>5. QED BY <2>1, <2>2, <2>3, <2>4 DEF Limits!Next
<1>3. QED BY <1>1, <1>2, PTL DEF Limits!Spec

\* The steps of the other services do not touch the counters.
LEMMA LimitsFollow == AuxSpec => Limits!Spec
<1>1. AuxInit => Limits!Init
  BY DEF AuxInit
<1>2. [AuxNext]_auxVars => [Limits!Next]_(Limits!vars)
  BY DEF AuxNext, SessionStep, KycStep, LimitStep, UserStep, DeployStep, NodeStep,
         auxVars, limitVars, Limits!vars
<1>3. QED BY <1>1, <1>2, PTL DEF AuxSpec, Limits!Spec

(***************************************************************************)
(* RateLimits, for any number of counters, threads and increments: unless  *)
(* a reset deleted an item, every increment written is in the sum of what  *)
(* the table holds, and the sum is never beyond them.                      *)
(***************************************************************************)
THEOREM NoIncrementIsLost == AuxSpec => []LostOnlyByReset
<1>1. LimitInv => LostOnlyByReset
  <2> SUFFICES ASSUME LimitInv PROVE LostOnlyByReset
    OBVIOUS
  <2> DEFINE P == Limits!Present(counters)
             G == Grains(HeldCount, P, MaxCount)
  <2>1. MaxCount \in Nat /\ IsFiniteSet(Rows) /\ counters \in Table(Rows, Counts \cup Limits!NoItem)
        /\ written \in Nat
    BY LimitConstants DEF LimitInv
  <2>2. \A i \in Rows : Limits!Held(counters, i) \in Counts \cup Limits!NoItem
    BY <2>1, Versions DEF Limits!Held
  <2>3. \A i \in Rows : i \in P <=> Limits!Held(counters, i) \in Counts
    <3>1. P = {i \in Rows : Limits!Held(counters, i) \notin Limits!NoItem}
      BY <2>1 DEF Limits!Present, Table
    <3>2. QED BY <2>2, <3>1, LimitConstants
  <2>4. \A i \in Rows : Len(counters[i]) \in 1..Len(counters[i])
    BY <2>1, Versions
  <2>5. P \in SUBSET Rows /\ IsFiniteSet(P)
    <3>1. P \in SUBSET Rows
      BY <2>1 DEF Limits!Present, Table
    <3>2. QED BY <2>1, <3>1, FS_Subset
  <2> HIDE DEF P
  <2>6. \A i \in P : HeldCount[i] \in 0..MaxCount /\ HeldCount[i] = Limits!Held(counters, i)
    <3>1. \A i \in P : i \in Rows /\ Limits!Held(counters, i) \in Counts
      BY <2>5, <2>3
    <3>2. \A i \in P : HeldCount[i] = Limits!Held(counters, i)
      BY <3>1 DEF HeldCount
    <3>3. \A n \in Counts : n \in 0..MaxCount
      BY <2>1 DEF Counts
    <3>4. QED BY <3>1, <3>2, <3>3
  <2>7. Limits!Total = Cardinality(G)
    BY <2>1, <2>5, <2>6, HeldSum DEF P
  <2>8. G = HeldGrains
    <3>1. \A i \in Rows \ P : HeldCount[i] = 0
      BY <2>3 DEF HeldCount
    <3>2. QED BY <2>5, <3>1 DEF HeldGrains, Grains
  <2>9. HeldGrains \subseteq AllGrains
    <3>1. \A i \in Rows, n \in Counts : n <= HeldCount[i] =>
              i \in P /\ n <= counters[i][Len(counters[i])] /\ counters[i][Len(counters[i])] \in Counts
      BY <2>3, <2>6 DEF HeldCount, Counts, Limits!Held
    <3>2. \A i \in Rows, n \in Counts : n <= HeldCount[i] => <<i, n>> \in AllGrains
      <4>1. ASSUME NEW i \in Rows, NEW n \in Counts, n <= HeldCount[i] PROVE <<i, n>> \in AllGrains
        <5>1. Len(counters[i]) \in 1..Len(counters[i])
          BY <2>4
        <5>2. n <= counters[i][Len(counters[i])] /\ counters[i][Len(counters[i])] \in Counts
          BY <3>1, <4>1
        <5>3. QED BY <5>1, <5>2 DEF AllGrains
      <4>2. QED BY <4>1
    <3>3. HeldGrains \subseteq {g \in Rows \X Counts : g[2] <= HeldCount[g[1]]}
      BY DEF HeldGrains, Grains, Counts
    <3>4. QED BY <3>2, <3>3
  <2>10. IsFiniteSet(AllGrains) /\ Cardinality(AllGrains) \in Nat
    BY AllGrainsFinite
  <2>11. Cardinality(HeldGrains) <= Cardinality(AllGrains) /\ Cardinality(HeldGrains) \in Nat
    BY <2>9, <2>10, FS_Subset, FS_CardinalityType
  <2>12. Cardinality(AllGrains) <= written /\ (~deleted => Cardinality(HeldGrains) = written)
    BY DEF LimitInv, Counted
  <2>13. Limits!Total <= written /\ (~deleted => Limits!Total = written)
    BY <2>1, <2>7, <2>8, <2>10, <2>11, <2>12
  <2>14. QED BY <2>13 DEF LostOnlyByReset, Limits!LostOnlyByReset
<1>2. QED BY <1>1, LimitInvariant, LimitsFollow, PTL

(***************************************************************************)
(* RateLimits, for any number of counters, threads and increments: no      *)
(* client is told a count beyond the increments written.                   *)
(***************************************************************************)
THEOREM CountsAreWritten == AuxSpec => []NeverOverCounted
<1>1. LimitInv => NeverOverCounted
  BY DEF LimitInv, NeverOverCounted, Limits!NeverOverCounted
<1>2. QED BY <1>1, LimitInvariant, LimitsFollow, PTL

-----------------------------------------------------------------------------
(***************************************************************************)
(* NodeRequests.  The trusted nodes of a request are those that answered it *)
(* and have not failed since: their breakers are closed, so no failover    *)
(* call leaves them out (AllInReach), and the call asks them in order.     *)
(***************************************************************************)
Trusted(r) == ((healthy[r] \cup {source[r]}) \cap Nodes) \ failed[r]

TrustedClosed == \A r \in Requests : \A p \in Trusted(r) : breaker[p].state = "closed"

\* A call that waits comes to every trusted node, and goes up the numbers.
AllInReach ==
    \A r \in Requests :
        /\ doing[r] = "calling" => Trusted(r) \subseteq {at[r]} \cup rest[r]
        /\ \A p \in rest[r] : at[r] < p

Placed ==
    \A r \in Requests :
        /\ doing[r] # "checking" => unasked[r] = {} /\ asked[r] = {}
        /\ at[r] # NoNode => doing[r] = "calling"

NodeInv ==
    /\ TypeOK
    /\ TrustedClosed
    /\ AllInReach
    /\ Placed
    /\ HeightLostOnlyByFailure

\* What the loop of a call of r over the nodes S, with breakers b, brings about.
Tried(r, S, b) ==
    /\ breaker' \in [Nodes -> Breaker]
    /\ doing' \in [Requests -> {"idle", "checking", "calling", "ended"}]
    /\ at' \in [Requests -> Nodes \cup {NoNode}]
    /\ rest' \in [Requests -> SUBSET Nodes]
    /\ left' \in [Requests -> 0..3]
    /\ \A p \in Nodes : b[p].state = "closed" => breaker'[p].state = "closed"
    /\ \A q \in Requests \ {r} :
           doing'[q] = doing[q] /\ at'[q] = at[q] /\ rest'[q] = rest[q]
    /\ \/ /\ doing'[r] = "calling" /\ at'[r] \in S
          /\ \A p \in rest'[r] : at'[r] < p
          /\ \A p \in S : b[p].state = "closed" => p = at'[r] \/ p \in rest'[r]
       \/ /\ doing'[r] = "ended" /\ at'[r] = NoNode /\ rest'[r] = {}
          /\ \A p \in S : b[p].state # "closed"

\* A call of r, with breakers b, is such a loop over all nodes that are closed.
TriesClosed(r, b, n) ==
    \E S \in SUBSET Nodes, read \in [Nodes -> Breaker] :
        /\ Try(r, S, read, n)
        /\ \A p \in Nodes : b[p].state = "closed" => read[p].state = "closed" /\ p \in S

\* The loop over S with breakers b leaves out no node that anyone trusts by then.
TrustKept(r, S, b) ==
    /\ UNCHANGED <<unasked, asked, healthy>>
    /\ unasked[r] = {} /\ asked[r] = {}
    /\ source' \in [Requests -> Nodes \cup {NoNode}]
    /\ failed' \in [Requests -> SUBSET Nodes]
    /\ \A q \in Requests \ {r} : source'[q] = source[q] /\ failed[q] \subseteq failed'[q]
    /\ \A q \in Requests, p \in Nodes : p \in Trusted(q)' => b[p].state = "closed"
    /\ Trusted(r)' \subseteq S

-----------------------------------------------------------------------------
(***************************************************************************)
(* A closed breaker stays closed until a failure, and is not open.         *)
(***************************************************************************)
LEMMA ClosedStays ==
    \A b \in Breaker :
        /\ RecordSuccess(b).state = "closed"
        /\ b.state = "closed" => /\ Peeked(b).state = "closed" /\ ~IsOpen(b)
                                 /\ Aged(b).state = "closed"
BY DEF RecordSuccess, Peeked, IsOpen, Aged, Breaker

(***************************************************************************)
(* Nodes are the positive numbers up to some number.                       *)
(***************************************************************************)
LEMMA NodeFacts ==
    /\ NoNode \notin Nodes
    /\ \A p \in Nodes : p \in Int /\ NoNode < p
BY DEF Nodes, NoNode

(***************************************************************************)
(* The loop of a call keeps the types and leaves the breakers of all nodes *)
(* that are closed closed.                                                 *)
(***************************************************************************)
LEMMA TryStep ==
    ASSUME TypeOK, NEW r \in Requests, NEW S \in SUBSET Nodes,
           NEW b \in [Nodes -> Breaker], NEW n \in 0..3, Try(r, S, b, n)
    PROVE  Tried(r, S, b)
<1> DEFINE usable == {p \in S : ~IsOpen(b[p])}
<1>1. ASSUME NEW p \in usable, \A q \in usable : p <= q,
             Waits(r, p, {q \in S : q > p}),
             breaker' = [b EXCEPT ![p] = Peeked(@)],
             left' = [left EXCEPT ![r] = n], doing' = [doing EXCEPT ![r] = "calling"]
      PROVE  Tried(r, S, b)
  <2>1. p \in Nodes /\ p \in S
    OBVIOUS
  <2>2. breaker' \in [Nodes -> Breaker]
    BY <1>1, <2>1, BreakerClosed
  <2>3. \A q \in Nodes : b[q].state = "closed" => breaker'[q].state = "closed"
    BY <1>1, <2>1, ClosedStays
  <2>4. at'[r] = p /\ rest'[r] = {q \in S : q > p} /\ doing'[r] = "calling"
    BY <1>1 DEF TypeOK, Waits
  <2>5. \A q \in S : q \in Int
    BY NodeFacts
  <2>6. \A q \in S : b[q].state = "closed" => q = p \/ q > p
    <3>1. \A q \in S : b[q].state = "closed" => q \in usable
      BY ClosedStays
    <3>2. QED BY <1>1, <2>1, <2>5, <3>1
  <2>7. \A q \in rest'[r] : at'[r] < q
    BY <2>1, <2>4, <2>5
  <2>8. /\ doing' \in [Requests -> {"idle", "checking", "calling", "ended"}]
        /\ at' \in [Requests -> Nodes \cup {NoNode}]
        /\ rest' \in [Requests -> SUBSET Nodes]
        /\ left' \in [Requests -> 0..3]
    BY <1>1, <2>1 DEF TypeOK, Waits
  <2>9. \A q \in Requests \ {r} : doing'[q] = doing[q] /\ at'[q] = at[q] /\ rest'[q] = rest[q]
    BY <1>1 DEF TypeOK, Waits
  <2>10. QED BY <2>1, <2>2, <2>3, <2>4, <2>6, <2>7, <2>8, <2>9 DEF Tried
<1>2. CASE /\ usable = {} /\ Waits(r, NoNode, {}) /\ breaker' = b
           /\ left' = [left EXCEPT ![r] = 0] /\ doing' = [doing EXCEPT ![r] = "ended"]
  <2>1. \A p \in S : b[p].state # "closed"
    BY <1>2, ClosedStays
  <2>2. /\ doing' \in [Requests -> {"idle", "checking", "calling", "ended"}]
        /\ at' \in [Requests -> Nodes \cup {NoNode}]
        /\ rest' \in [Requests -> SUBSET Nodes]
        /\ left' \in [Requests -> 0..3]
    BY <1>2 DEF TypeOK, Waits
  <2>3. breaker' = b /\ doing'[r] = "ended" /\ at'[r] = NoNode /\ rest'[r] = {}
    BY <1>2 DEF TypeOK, Waits
  <2>4. \A q \in Requests \ {r} : doing'[q] = doing[q] /\ at'[q] = at[q] /\ rest'[q] = rest[q]
    BY <1>2 DEF TypeOK, Waits
  <2>5. QED BY <2>1, <2>2, <2>3, <2>4 DEF Tried
<1>3. QED BY <1>1, <1>2 DEF Try

(***************************************************************************)
(* A call tries every node whose breaker is closed when it begins.         *)
(***************************************************************************)
LEMMA CallStep ==
    ASSUME TypeOK, NEW r \in Requests, NEW b \in [Nodes -> Breaker], NEW n \in 0..3,
           Call(r, b, n)
    PROVE  TriesClosed(r, b, n)
<1> DEFINE read == [p \in Nodes |-> Peeked(b[p])]
           S == {p \in Nodes : ~IsOpen(read[p])}
<1>1. read \in [Nodes -> Breaker]
  BY BreakerClosed
<1>2. \A p \in Nodes : b[p].state = "closed" => read[p].state = "closed" /\ p \in S
  BY <1>1, ClosedStays
<1>3. Try(r, S, read, n)
  BY DEF Call
<1>4. S \in SUBSET Nodes
  OBVIOUS
<1>5. QED BY <1>1, <1>2, <1>3, <1>4 DEF TriesClosed

(***************************************************************************)
(* The other requests do not notice a call of r, and r itself is placed,   *)
(* whatever it knows of the nodes with closed breakers.                    *)
(***************************************************************************)
LEMMA CallKeeps ==
    ASSUME TypeOK, NEW r \in Requests, NEW n \in 0..3, NEW S \in SUBSET Nodes,
           NEW b \in [Nodes -> Breaker], Try(r, S, b, n),
           TrustKept(r, S, b),
           AllInReach, Placed, HeightLostOnlyByFailure
    PROVE  NodeInv'
<1>1. /\ breaker' \in [Nodes -> Breaker]
      /\ doing' \in [Requests -> {"idle", "checking", "calling", "ended"}]
      /\ at' \in [Requests -> Nodes \cup {NoNode}]
      /\ rest' \in [Requests -> SUBSET Nodes]
      /\ left' \in [Requests -> 0..3]
      /\ \A p \in Nodes : b[p].state = "closed" => breaker'[p].state = "closed"
      /\ \A q \in Requests \ {r} :
             doing'[q] = doing[q] /\ at'[q] = at[q] /\ rest'[q] = rest[q]
      /\ \/ /\ doing'[r] = "calling" /\ at'[r] \in S
            /\ \A p \in rest'[r] : at'[r] < p
            /\ \A p \in S : b[p].state = "closed" => p = at'[r] \/ p \in rest'[r]
         \/ /\ doing'[r] = "ended" /\ at'[r] = NoNode /\ rest'[r] = {}
            /\ \A p \in S : b[p].state # "closed"
  <2>1. Tried(r, S, b)
    BY TryStep
  <2>2. QED BY <2>1 DEF Tried
<1>2. TypeOK'
  BY <1>1 DEF TypeOK, TrustKept
<1>3. \A q \in Requests : Trusted(q)' \subseteq Nodes
  BY DEF Trusted, Nodes
<1>4. TrustedClosed'
  BY <1>1, <1>3 DEF TrustedClosed, TrustKept
<1>5. \A q \in Requests \ {r} : Trusted(q)' \subseteq Trusted(q)
  BY DEF Trusted, Nodes, TrustKept
<1>6. ASSUME NEW q \in Requests \ {r}
      PROVE  /\ doing'[q] = "calling" => Trusted(q)' \subseteq {at'[q]} \cup rest'[q]
             /\ \A p \in rest'[q] : at'[q] < p
  BY <1>1, <1>5 DEF AllInReach
<1>7. /\ doing'[r] = "calling" => Trusted(r)' \subseteq {at'[r]} \cup rest'[r]
      /\ \A p \in rest'[r] : at'[r] < p
  BY <1>1, <1>3 DEF TrustKept
<1>8. AllInReach'
  BY <1>6, <1>7 DEF AllInReach
<1>9. Placed'
  BY <1>1 DEF Placed, TrustKept
<1>10. HeightLostOnlyByFailure'
  <2> SUFFICES ASSUME NEW q \in Requests, doing'[q] = "ended", source'[q] = NoNode
               PROVE  healthy'[q] \subseteq failed'[q]
    BY DEF HeightLostOnlyByFailure
  <2>1. CASE q = r
    <3>1. Trusted(r)' = {}
      BY <1>1, <1>3, <2>1 DEF TrustKept
    <3>2. healthy'[r] \subseteq Nodes
      BY DEF TypeOK, TrustKept
    <3>3. QED BY <2>1, <3>1, <3>2 DEF Trusted, Nodes, TrustKept
  <2>2. CASE q # r
    BY <1>1, <2>2 DEF HeightLostOnlyByFailure, TrustKept
  <2>3. QED BY <2>1, <2>2
<1>11. QED BY <1>2, <1>4, <1>8, <1>9, <1>10 DEF NodeInv

(***************************************************************************)
(* When node p fails, no request trusts it any more.                       *)
(***************************************************************************)
LEMMA FailureNoted ==
    ASSUME TypeOK, NEW p \in Nodes, NoteFailure(p), UNCHANGED <<healthy, source>>
    PROVE  /\ failed' \in [Requests -> SUBSET Nodes]
           /\ \A q \in Requests : /\ failed[q] \subseteq failed'[q]
                                  /\ Trusted(q)' \subseteq Trusted(q) \ {p}
<1>1. failed' = [q \in Requests |-> failed[q] \cup ({p} \cap (healthy[q] \cup {source[q]}))]
  BY DEF NoteFailure
<1>2. failed' \in [Requests -> SUBSET Nodes]
  BY <1>1 DEF TypeOK
<1>3. QED BY <1>1, <1>2 DEF Trusted, Nodes

(***************************************************************************)
(* A failure closes no breaker but may open that of its node.              *)
(***************************************************************************)
LEMMA OneBreaker ==
    ASSUME TypeOK, NEW p \in Nodes, NEW new \in Breaker,
           breaker' = [breaker EXCEPT ![p] = new]
    PROVE  /\ breaker' \in [Nodes -> Breaker]
           /\ breaker'[p] = new
           /\ \A q \in Nodes \ {p} : breaker'[q] = breaker[q]
BY DEF TypeOK

(***************************************************************************)
(* The steps of a health check.                                            *)
(***************************************************************************)
LEMMA CheckSteps ==
    ASSUME NodeInv, NEW r \in Requests, NEW p \in Nodes,
           CheckOne(r, p) \/ CheckSucceeds(r, p) \/ CheckFails(r, p)
    PROVE  NodeInv'
<1>1. UNCHANGED <<doing, callVars>>
  BY DEF CheckOne, CheckSucceeds, CheckFails
<1>2. doing[r] = "checking"
  BY DEF CheckOne, CheckSucceeds, CheckFails, NodeInv, Placed
<1>3. /\ unasked' \in [Requests -> SUBSET Nodes] /\ asked' \in [Requests -> SUBSET Nodes]
      /\ \A q \in Requests \ {r} : unasked'[q] = unasked[q] /\ asked'[q] = asked[q]
  BY DEF CheckOne, CheckSucceeds, CheckFails, NodeInv, TypeOK
<1>4. Placed'
  BY <1>1, <1>2, <1>3 DEF NodeInv, Placed, callVars
<1>5. PICK new \in Breaker :
          /\ breaker' = [breaker EXCEPT ![p] = new]
          /\ \/ CheckOne(r, p) /\ (breaker[p].state = "closed" => new.state = "closed")
             \/ CheckSucceeds(r, p) /\ new.state = "closed"
             \/ CheckFails(r, p)
  <2>1. breaker[p] \in Breaker
    BY DEF NodeInv, TypeOK
  <2>2. CASE CheckOne(r, p)
    <3>1. breaker' = [breaker EXCEPT ![p] = Peeked(breaker[p])]
      BY <2>2 DEF CheckOne
    <3>2. QED BY <2>1, <2>2, <3>1, BreakerClosed, ClosedStays
  <2>3. CASE CheckSucceeds(r, p)
    <3>1. breaker' = [breaker EXCEPT ![p] = RecordSuccess(breaker[p])]
      BY <2>3 DEF CheckSucceeds
    <3>2. QED BY <2>1, <2>3, <3>1, BreakerClosed, ClosedStays
  <2>4. CASE CheckFails(r, p)
    <3>1. breaker' = [breaker EXCEPT ![p] = RecordFailure(breaker[p])]
      BY <2>4 DEF CheckFails
    <3>2. QED BY <2>1, <2>4, <3>1, BreakerClosed
  <2>5. QED BY <2>2, <2>3, <2>4
<1>6. /\ breaker' \in [Nodes -> Breaker] /\ breaker'[p] = new
      /\ \A q \in Nodes \ {p} : breaker'[q] = breaker[q]
  BY <1>5, OneBreaker DEF NodeInv
<1>7. CASE CheckOne(r, p) /\ (breaker[p].state = "closed" => new.state = "closed")
  <2>1. UNCHANGED <<healthy, failed, source, at, rest, left, doing>>
    BY <1>1, <1>7 DEF CheckOne, callVars
  <2>2. \A q \in Requests : Trusted(q)' = Trusted(q) /\ Trusted(q) \subseteq Nodes
    BY <2>1 DEF Trusted, Nodes
  <2>3. TypeOK'
    BY <1>3, <1>6, <2>1 DEF NodeInv, TypeOK
  <2>4. TrustedClosed'
    BY <1>6, <1>7, <2>2 DEF NodeInv, TrustedClosed
  <2>5. AllInReach' /\ HeightLostOnlyByFailure'
    BY <2>1, <2>2 DEF NodeInv, AllInReach, HeightLostOnlyByFailure
  <2>6. QED BY <1>4, <2>3, <2>4, <2>5 DEF NodeInv
<1>8. CASE CheckSucceeds(r, p) /\ new.state = "closed"
  <2>1. /\ UNCHANGED <<failed, source, at, rest, left, doing>>
        /\ healthy' = [healthy EXCEPT ![r] = @ \cup {p}]
    BY <1>1, <1>8 DEF CheckSucceeds, callVars
  <2>2. /\ healthy' \in [Requests -> SUBSET Nodes] /\ healthy'[r] = healthy[r] \cup {p}
        /\ \A q \in Requests \ {r} : healthy'[q] = healthy[q]
    BY <2>1 DEF NodeInv, TypeOK
  <2>3. /\ \A q \in Requests \ {r} : Trusted(q)' = Trusted(q)
        /\ Trusted(r)' \subseteq Trusted(r) \cup {p}
        /\ \A q \in Requests : Trusted(q) \subseteq Nodes
    BY <2>1, <2>2 DEF Trusted, Nodes
  <2>4. TypeOK'
    BY <1>3, <1>6, <2>1, <2>2 DEF NodeInv, TypeOK
  <2>5. TrustedClosed'
    BY <1>6, <1>8, <2>3 DEF NodeInv, TrustedClosed
  <2>6. AllInReach'
    BY <1>2, <2>1, <2>3 DEF NodeInv, AllInReach
  <2>7. HeightLostOnlyByFailure'
    BY <1>2, <2>1, <2>2 DEF NodeInv, HeightLostOnlyByFailure
  <2>8. QED BY <1>4, <2>4, <2>5, <2>6, <2>7 DEF NodeInv
<1>9. CASE CheckFails(r, p)
  <2>1. UNCHANGED <<healthy, source, at, rest, left, doing>> /\ NoteFailure(p)
    BY <1>1, <1>9 DEF CheckFails, callVars
  <2>2. /\ failed' \in [Requests -> SUBSET Nodes]
        /\ \A q \in Requests : /\ failed[q] \subseteq failed'[q]
                               /\ Trusted(q)' \subseteq Trusted(q) \ {p}
        /\ \A q \in Requests : Trusted(q) \subseteq Nodes
    BY <2>1, FailureNoted DEF NodeInv, Trusted, Nodes
  <2>3. TypeOK'
    BY <1>3, <1>6, <2>1, <2>2 DEF NodeInv, TypeOK
  <2>4. TrustedClosed'
    BY <1>6, <2>2 DEF NodeInv, TrustedClosed
  <2>5. AllInReach' /\ HeightLostOnlyByFailure'
    BY <2>1, <2>2 DEF NodeInv, AllInReach, HeightLostOnlyByFailure
  <2>6. QED BY <1>4, <2>3, <2>4, <2>5 DEF NodeInv
<1>10. QED BY <1>5, <1>7, <1>8, <1>9

(***************************************************************************)
(* The calls that open a failover.                                         *)
(***************************************************************************)
LEMMA FirstCalls ==
    ASSUME NodeInv, NEW r \in Requests, GetHeight(r) \/ GetNetwork(r)
    PROVE  NodeInv'
<1>1. PICK n \in 0..3 : Call(r, breaker, n)
  BY DEF GetHeight, GetNetwork
<1>2. PICK S \in SUBSET Nodes, read \in [Nodes -> Breaker] :
          /\ Try(r, S, read, n)
          /\ \A p \in Nodes : breaker[p].state = "closed" => read[p].state = "closed" /\ p \in S
  <2>1. breaker \in [Nodes -> Breaker] /\ TypeOK
    BY DEF NodeInv, TypeOK
  <2>2. TriesClosed(r, breaker, n)
    BY <1>1, <2>1, CallStep
  <2>3. QED BY <2>2 DEF TriesClosed
<1>3. UNCHANGED <<unasked, asked, healthy, source, failed>>
  BY DEF GetHeight, GetNetwork
<1>4. unasked[r] = {} /\ asked[r] = {}
  BY DEF GetHeight, GetNetwork, NodeInv, Placed
<1>5. \A q \in Requests : Trusted(q)' = Trusted(q) /\ Trusted(q) \subseteq Nodes
  BY <1>3 DEF Trusted, Nodes
<1>6. \A q \in Requests, p \in Nodes : p \in Trusted(q)' => read[p].state = "closed" /\ p \in S
  BY <1>2, <1>5 DEF NodeInv, TrustedClosed
<1>7. TrustKept(r, S, read)
  BY <1>3, <1>4, <1>5, <1>6 DEF TrustKept, NodeInv, TypeOK
<1>8. QED BY <1>2, <1>7, CallKeeps DEF NodeInv

(***************************************************************************)
(* A call that fails goes on with nodes that are still trusted.            *)
(***************************************************************************)
LEMMA FailedCall ==
    ASSUME NodeInv, NEW r \in Requests, CallFails(r)
    PROVE  NodeInv'
<1> DEFINE b == [breaker EXCEPT ![at[r]] = RecordFailure(@)]
<1>1. /\ at[r] \in Nodes /\ rest[r] \in SUBSET Nodes /\ left[r] \in 0..3
      /\ doing[r] = "calling" /\ unasked[r] = {} /\ asked[r] = {}
  BY DEF CallFails, NodeInv, TypeOK, Placed
<1>2. Try(r, rest[r], b, left[r]) /\ NoteFailure(at[r]) /\ UNCHANGED <<unasked, asked, healthy, source>>
  BY DEF CallFails
<1>3. /\ b \in [Nodes -> Breaker]
      /\ \A p \in Nodes \ {at[r]} : b[p] = breaker[p]
  BY <1>1, BreakerClosed DEF NodeInv, TypeOK
<1>4. /\ failed' \in [Requests -> SUBSET Nodes]
      /\ \A q \in Requests : /\ failed[q] \subseteq failed'[q]
                             /\ Trusted(q)' \subseteq Trusted(q) \ {at[r]}
  BY <1>1, <1>2, FailureNoted DEF NodeInv
<1>5. \A q \in Requests, p \in Nodes : p \in Trusted(q)' => b[p].state = "closed"
  BY <1>3, <1>4 DEF NodeInv, TrustedClosed
<1>6. Trusted(r)' \subseteq rest[r]
  BY <1>1, <1>4 DEF NodeInv, AllInReach
<1>7. source' \in [Requests -> Nodes \cup {NoNode}]
  BY <1>2 DEF NodeInv, TypeOK
<1>8. TrustKept(r, rest[r], b)
  BY <1>1, <1>2, <1>4, <1>5, <1>6, <1>7 DEF TrustKept
<1>9. QED BY <1>1, <1>2, <1>3, <1>8, CallKeeps DEF NodeInv

(***************************************************************************)
(* A call that succeeds trusts its node.                                   *)
(***************************************************************************)
LEMMA SuccessfulCall ==
    ASSUME NodeInv, NEW r \in Requests, CallSucceeds(r)
    PROVE  NodeInv'
<1> DEFINE b == [breaker EXCEPT ![at[r]] = RecordSuccess(@)]
<1>1. /\ at[r] \in Nodes /\ left[r] \in 0..3 /\ rest[r] \in SUBSET Nodes
      /\ doing[r] = "calling" /\ unasked[r] = {} /\ asked[r] = {}
  BY DEF CallSucceeds, NodeInv, TypeOK, Placed
<1>2. /\ b \in [Nodes -> Breaker] /\ b[at[r]].state = "closed"
      /\ \A p \in Nodes : breaker[p].state = "closed" => b[p].state = "closed"
  BY <1>1, BreakerClosed, ClosedStays DEF NodeInv, TypeOK
<1>3. /\ source' = [source EXCEPT ![r] = at[r]]
      /\ failed' = [failed EXCEPT ![r] = @ \ ({at[r]} \cup ({source[r]} \ healthy[r]))]
      /\ UNCHANGED <<unasked, asked, healthy>>
  BY DEF CallSucceeds
<1>4. /\ source' \in [Requests -> Nodes \cup {NoNode}]
      /\ failed' \in [Requests -> SUBSET Nodes]
      /\ source'[r] = at[r]
      /\ \A q \in Requests \ {r} : source'[q] = source[q] /\ failed'[q] = failed[q]
      /\ failed'[r] = failed[r] \ ({at[r]} \cup ({source[r]} \ healthy[r]))
  BY <1>1, <1>3 DEF NodeInv, TypeOK
<1>5. /\ \A q \in Requests \ {r} : Trusted(q)' = Trusted(q)
      /\ Trusted(r)' \subseteq Trusted(r) \cup {at[r]}
      /\ \A q \in Requests : Trusted(q)' \subseteq Nodes /\ Trusted(q) \subseteq Nodes
  BY <1>3, <1>4 DEF Trusted, Nodes
<1>6. \A q \in Requests, p \in Nodes : p \in Trusted(q)' => b[p].state = "closed"
  BY <1>2, <1>5 DEF NodeInv, TrustedClosed
<1>7. CASE left[r] > 1 /\ Call(r, b, left[r] - 1)
  <2>1. left[r] - 1 \in 0..3
    BY <1>1, <1>7
  <2>2. PICK S \in SUBSET Nodes, read \in [Nodes -> Breaker] :
            /\ Try(r, S, read, left[r] - 1)
            /\ \A p \in Nodes : b[p].state = "closed" => read[p].state = "closed" /\ p \in S
    <3>1. TriesClosed(r, b, left[r] - 1)
      BY <1>2, <1>7, <2>1, CallStep DEF NodeInv
    <3>2. QED BY <3>1 DEF TriesClosed
  <2>3. \A q \in Requests, p \in Nodes : p \in Trusted(q)' => read[p].state = "closed" /\ p \in S
    BY <1>6, <2>2
  <2>4. TrustKept(r, S, read)
    BY <1>1, <1>3, <1>4, <1>5, <2>3 DEF TrustKept
  <2>5. QED BY <2>1, <2>2, <2>4, CallKeeps DEF NodeInv
<1>8. CASE /\ left[r] = 1 /\ Waits(r, NoNode, {}) /\ breaker' = b
           /\ left' = [left EXCEPT ![r] = 0] /\ doing' = [doing EXCEPT ![r] = "ended"]
  <2>1. /\ doing'[r] = "ended" /\ at'[r] = NoNode /\ rest'[r] = {}
        /\ \A q \in Requests \ {r} : doing'[q] = doing[q] /\ at'[q] = at[q] /\ rest'[q] = rest[q]
    BY <1>8 DEF Waits, NodeInv, TypeOK
  <2>2. TypeOK'
    BY <1>2, <1>3, <1>4, <1>8 DEF Waits, NodeInv, TypeOK
  <2>3. TrustedClosed'
    BY <1>5, <1>6, <1>8 DEF TrustedClosed
  <2>4. AllInReach'
    BY <1>5, <2>1 DEF NodeInv, AllInReach
  <2>5. Placed'
    BY <1>1, <1>3, <2>1 DEF NodeInv, Placed
  <2>6. HeightLostOnlyByFailure'
    BY <1>1, <1>3, <1>4, <2>1, NodeFacts DEF NodeInv, HeightLostOnlyByFailure
  <2>7. QED BY <2>2, <2>3, <2>4, <2>5, <2>6 DEF NodeInv
<1>9. QED BY <1>7, <1>8 DEF CallSucceeds

(***************************************************************************)
(* Every step keeps the invariant.                                         *)
(***************************************************************************)
LEMMA NodeInvStep == NodeInv /\ [Next]_vars => NodeInv'
<1> SUFFICES ASSUME NodeInv, [Next]_vars PROVE NodeInv'
  OBVIOUS
<1>1. ASSUME NEW r \in Requests, StartHealth(r) PROVE NodeInv'
  <2>1. UNCHANGED <<breaker, asked, healthy, at, rest, left, source, failed>>
    BY <1>1 DEF StartHealth, callVars
  <2>2. /\ doing[r] = "idle" /\ doing'[r] = "checking"
        /\ \A q \in Requests \ {r} : doing'[q] = doing[q] /\ unasked'[q] = unasked[q]
    BY <1>1 DEF StartHealth, NodeInv, TypeOK
  <2>3. TypeOK'
    BY <1>1, <2>1 DEF StartHealth, NodeInv, TypeOK
  <2>4. \A q \in Requests : Trusted(q)' = Trusted(q)
    BY <2>1 DEF Trusted, Nodes
  <2>5. TrustedClosed' /\ AllInReach' /\ Placed' /\ HeightLostOnlyByFailure'
    BY <2>1, <2>2, <2>4 DEF NodeInv, TrustedClosed, AllInReach, Placed, HeightLostOnlyByFailure
  <2>6. QED BY <2>3, <2>5 DEF NodeInv
<1>2. ASSUME NEW r \in Requests, Respond(r) PROVE NodeInv'
  <2>1. UNCHANGED <<breaker, unasked, asked, at, rest, left>>
    BY <1>2 DEF Respond
  <2>2. /\ doing[r] = "ended" /\ doing'[r] = "idle" /\ healthy'[r] = {} /\ source'[r] = NoNode
        /\ \A q \in Requests \ {r} : /\ doing'[q] = doing[q] /\ healthy'[q] = healthy[q]
                                     /\ source'[q] = source[q] /\ failed'[q] = failed[q]
    BY <1>2 DEF Respond, NodeInv, TypeOK
  <2>3. TypeOK'
    BY <1>2, <2>1 DEF Respond, NodeInv, TypeOK
  <2>4. Trusted(r)' = {} /\ \A q \in Requests \ {r} : Trusted(q)' = Trusted(q)
    BY <2>2, NodeFacts DEF Trusted, Nodes
  <2>5. TrustedClosed' /\ AllInReach' /\ Placed' /\ HeightLostOnlyByFailure'
    BY <2>1, <2>2, <2>4 DEF NodeInv, TrustedClosed, AllInReach, Placed, HeightLostOnlyByFailure
  <2>6. QED BY <2>3, <2>5 DEF NodeInv
<1>3. CASE Tick
  <2>1. UNCHANGED <<doing, unasked, asked, healthy, at, rest, left, source, failed>>
    BY <1>3 DEF Tick, callVars
  <2>2. /\ breaker' \in [Nodes -> Breaker]
        /\ \A p \in Nodes : breaker[p].state = "closed" => breaker'[p].state = "closed"
    BY <1>3, BreakerClosed, ClosedStays DEF Tick, NodeInv, TypeOK
  <2>3. TypeOK'
    BY <2>1, <2>2 DEF NodeInv, TypeOK
  <2>4. \A q \in Requests : Trusted(q)' = Trusted(q) /\ Trusted(q) \subseteq Nodes
    BY <2>1 DEF Trusted, Nodes
  <2>5. TrustedClosed'
    BY <2>2, <2>4 DEF NodeInv, TrustedClosed
  <2>6. AllInReach' /\ Placed' /\ HeightLostOnlyByFailure'
    BY <2>1, <2>4 DEF NodeInv, AllInReach, Placed, HeightLostOnlyByFailure
  <2>7. QED BY <2>3, <2>5, <2>6 DEF NodeInv
<1>4. CASE UNCHANGED vars
  <2>1. TypeOK' /\ Placed' /\ HeightLostOnlyByFailure'
    BY <1>4 DEF vars, callVars, NodeInv, TypeOK, Placed, HeightLostOnlyByFailure
  <2>2. \A q \in Requests : Trusted(q)' = Trusted(q)
    BY <1>4 DEF vars, callVars, Trusted, Nodes
  <2>3. TrustedClosed' /\ AllInReach'
    BY <1>4, <2>2 DEF vars, callVars, NodeInv, TrustedClosed, AllInReach
  <2>4. QED BY <2>1, <2>3 DEF NodeInv
<1>5. QED
  BY <1>1, <1>2, <1>3, <1>4, CheckSteps, FirstCalls, SuccessfulCall, FailedCall DEF Next

(***************************************************************************)
(* The invariant holds from the beginning.                                 *)
(***************************************************************************)
LEMMA NodeInvariant == Spec => []NodeInv
<1>1. Init => NodeInv
  <2> SUFFICES ASSUME Init PROVE NodeInv
    OBVIOUS
  <2>1. TypeOK
    BY BreakerClosed DEF Init, TypeOK
  <2>2. \A r \in Requests : Trusted(r) = {}
    BY NodeFacts DEF Init, Trusted
  <2>3. TrustedClosed /\ AllInReach /\ Placed /\ HeightLostOnlyByFailure
    BY <2>2 DEF Init, TrustedClosed, AllInReach, Placed, HeightLostOnlyByFailure
  <2>4. QED BY <2>1, <2>3 DEF NodeInv
<1>2. QED BY <1>1, NodeInvStep, PTL DEF Spec

-----------------------------------------------------------------------------
(***************************************************************************)
(* The variables of the two requests keep their types.                     *)
(***************************************************************************)
THEOREM TypeCorrect == Spec => []TypeOK
<1>1. NodeInv => TypeOK
  BY DEF NodeInv
<1>2. QED BY <1>1, NodeInvariant, PTL

(***************************************************************************)
(* A health response lacks its height only if every node it found healthy  *)
(* has failed since.                                                       *)
(***************************************************************************)
THEOREM HeightNeedsFailure == Spec => []HeightLostOnlyByFailure
<1>1. NodeInv => HeightLostOnlyByFailure
  BY DEF NodeInv
<1>2. QED BY <1>1, NodeInvariant, PTL

(***************************************************************************)
(* A response goes on with a node of lower priority only after a failure   *)
(* of the node it had asked before.                                        *)
(***************************************************************************)
THEOREM MixNeedsFailover == Spec => MixedOnlyByFailover
<1> DEFINE Kept(r) == NoNode < source[r] /\ source[r] < source'[r] => source[r] \in failed[r]
<1>1. NodeInv /\ [Next]_vars => [\A r \in Requests : Kept(r)]_vars
  <2> SUFFICES ASSUME NodeInv, [Next]_vars, NEW r \in Requests PROVE Kept(r)
    OBVIOUS
  <2>1. source[r] \in Nodes \cup {NoNode} /\ \A p \in Nodes \cup {NoNode} : p \in Int
    BY NodeFacts DEF NodeInv, TypeOK, NoNode
  <2>2. CASE source'[r] = source[r]
    BY <2>1, <2>2
  <2>3. CASE source'[r] = NoNode
    BY <2>1, <2>3
  <2>4. CASE CallSucceeds(r)
    <3> SUFFICES ASSUME NoNode < source[r], source[r] < source'[r], source[r] \notin failed[r]
                 PROVE  FALSE
      OBVIOUS
    <3>1. at[r] \in Nodes /\ source'[r] = at[r] /\ doing[r] = "calling"
      BY <2>4 DEF CallSucceeds, NodeInv, TypeOK, Placed
    <3>2. source[r] \in Trusted(r)
      BY <2>1 DEF Trusted, NoNode
    <3>3. source[r] = at[r] \/ source[r] \in rest[r]
      BY <3>1, <3>2 DEF NodeInv, AllInReach
    <3>4. QED BY <2>1, <3>1, <3>3 DEF NodeInv, AllInReach
  <2>5. source'[r] = source[r] \/ source'[r] = NoNode \/ CallSucceeds(r)
    <3>1. ASSUME NEW q \in Requests, CallSucceeds(q) PROVE q = r \/ source'[r] = source[r]
      BY <3>1 DEF CallSucceeds, NodeInv, TypeOK
    <3>2. ASSUME NEW q \in Requests, Respond(q) PROVE source'[r] \in {source[r], NoNode}
      BY <3>2 DEF Respond, NodeInv, TypeOK
    <3>3. ASSUME NEW q \in Requests, NEW p \in Nodes,
                 \/ StartHealth(q) \/ GetHeight(q) \/ GetNetwork(q) \/ CallFails(q)
                 \/ CheckOne(q, p) \/ CheckSucceeds(q, p) \/ CheckFails(q, p)
          PROVE  source' = source
      BY <3>3 DEF StartHealth, GetHeight, GetNetwork, CallFails, CheckOne, CheckSucceeds,
                  CheckFails, callVars
    <3>4. ASSUME NEW q \in Requests,
                 StartHealth(q) \/ GetHeight(q) \/ GetNetwork(q) \/ CallFails(q)
          PROVE  source' = source
      BY <3>4 DEF StartHealth, GetHeight, GetNetwork, CallFails, callVars
    <3>5. CASE Tick \/ UNCHANGED vars
      BY <3>5 DEF Tick, vars, callVars
    <3>6. QED BY <3>1, <3>2, <3>3, <3>4, <3>5 DEF Next
  <2>6. QED BY <2>2, <2>3, <2>4, <2>5
<1>2. QED BY <1>1, NodeInvariant, PTL DEF Spec, MixedOnlyByFailover

-----------------------------------------------------------------------------
(***************************************************************************)
(* All of them together.                                                   *)
(***************************************************************************)
\* The steps of the other services do not touch the requests to the nodes.
LEMMA NodesFollow == AuxSpec => Spec
<1>1. AuxInit => Init
  BY DEF AuxInit
<1>2. [AuxNext]_auxVars => [Next]_vars
  BY DEF AuxNext, SessionStep, KycStep, LimitStep, UserStep, DeployStep, NodeStep, auxVars
<1>3. QED BY <1>1, <1>2, PTL DEF AuxSpec, Spec

(***************************************************************************)
(* The table types of the invariants are those of the services.            *)
(***************************************************************************)
LEMMA TablesTyped ==
    ASSUME NEW t, NEW V, t \in Table(Rows, V), NEW n \in Nat, \A i \in Rows : Len(t[i]) <= n
    PROVE  t \in [Rows -> Seq(V)] /\ \A i \in Rows : Len(t[i]) \in 1..n
<1>1. \A i \in Rows : Len(t[i]) \in Nat \ {0}
  BY Versions
<1>2. QED BY <1>1 DEF Table

(***************************************************************************)
(* The variables of every service keep their types, however many items,    *)
(* threads and requests there are.                                         *)
(***************************************************************************)
THEOREM ServicesTyped == AuxSpec => []AuxTypeOK
<1>1. KycInv => Kyc!TypeOK
  <2> SUFFICES ASSUME KycInv PROVE Kyc!TypeOK
    OBVIOUS
  <2>1. profiles \in Table(Rows, Kyc!Version \cup Kyc!NoItem)
    <3>1. (1..increments+1) \cup Kyc!NoItem \subseteq Kyc!Version \cup Kyc!NoItem
      BY KycConstants DEF KycInv, Kyc!Version
    <3>2. QED BY <3>1, MoreVersions DEF KycInv
  <2>2. MaxLag + 1 \in Nat
    BY KycConstants
  <2>3. Kyc!IsTable(profiles, Rows, Kyc!Version)
    BY <2>1, <2>2, TablesTyped DEF KycInv, Kyc!IsTable
  <2>4. QED BY <2>3 DEF KycInv, Kyc!TypeOK
<1>2. SessionInv => Sessions!TypeOK
  <2> SUFFICES ASSUME SessionInv PROVE Sessions!TypeOK
    OBVIOUS
  <2>1. sessions \in Table(Rows, Sessions!Session \cup Sessions!NoItem)
    <3>1. Earned \cup Sessions!NoItem \subseteq Sessions!Session \cup Sessions!NoItem
      BY DEF Earned
    <3>2. QED BY <3>1, MoreVersions DEF SessionInv
  <2>2. ShortLag + 1 \in Nat
    BY SessionConstants
  <2>3. Sessions!IsTable(sessions, Rows, Sessions!Session)
    BY <2>1, <2>2, TablesTyped DEF SessionInv, Sessions!IsTable
  <2>4. QED BY <2>3 DEF SessionInv, Sessions!TypeOK
<1>3. LimitInv => Limits!TypeOK
  <2> SUFFICES ASSUME LimitInv PROVE Limits!TypeOK
    OBVIOUS
  <2>1. MaxLag + 1 \in Nat
    BY LimitConstants
  <2>2. Limits!IsTable(counters, Rows, Counts)
    BY <2>1, TablesTyped DEF LimitInv, Limits!IsTable
  <2>3. QED BY <2>2 DEF LimitInv, Limits!TypeOK, LimitTask, Counts
<1>4. UserInv => Users!TypeOK
  <2> SUFFICES ASSUME UserInv PROVE Users!TypeOK
    OBVIOUS
  <2>1. users \in Table(Rows, Users!User \cup Users!NoItem)
    <3>1. Users!User \cup {None} \subseteq Users!User \cup Users!NoItem
      BY UserConstants
    <3>2. QED BY <3>1, MoreVersions DEF UserInv
  <2>2. ShortLag + 1 \in Nat
    BY UserConstants
  <2>3. Users!IsTable(users, Rows, Users!User)
    BY <2>1, <2>2, TablesTyped DEF UserInv, Users!IsTable
  <2>4. QED BY <2>3 DEF UserInv, Users!TypeOK
<1>5. DeployInv => Deploy!TypeOK
  <2> SUFFICES ASSUME DeployInv PROVE Deploy!TypeOK
    OBVIOUS
  <2>1. Len(Deploy!tables) = 13
    BY TablesListed
  <2>2. \A t \in Deploy!TableNames : schema[t] = NoTable \/ \E k \in 1..Len(Deploy!tables) :
            Deploy!tables[k].name = t /\ schema[t] \subseteq Deploy!tables[k].gsis
    BY <2>1 DEF DeployInv, SchemaForm, OwnIndices
  <2>3. next \in 1..Len(Deploy!tables)+1
    BY <2>1 DEF DeployInv
  <2>4. QED BY <2>2, <2>3 DEF DeployInv, Known, Deploy!TypeOK
<1>6. NodeInv => TypeOK
  BY DEF NodeInv
<1>7. KycInv /\ SessionInv /\ LimitInv /\ UserInv /\ DeployInv /\ NodeInv => AuxTypeOK
  BY <1>1, <1>2, <1>3, <1>4, <1>5, <1>6 DEF AuxTypeOK
<1>8. QED
  BY <1>7, KycInvariant, KycFollows, SessionInvariant, SessionsFollow, LimitInvariant, LimitsFollow,
     UserInvariant, UsersFollow, DeployInvariant, DeployFollows, NodeInvariant, NodesFollow, PTL

=============================================================================
