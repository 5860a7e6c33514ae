------------------------------- MODULE AuxKyc -------------------------------
(***************************************************************************)
(* KycService and its routes, for one registered user.  A profile's        *)
(* version is raised by a read of the user's profiles through an index and *)
(* an unconditional write of the greatest version plus one.                *)
(***************************************************************************)
EXTENDS DynamoTable

CONSTANTS
    ProfileIds,     \* ids of profile items
    KycThreads,     \* threads of the pool
    MaxIncrements   \* bound on the increments acknowledged

\* What the constants satisfy.
KycAssumption == MaxIncrements \in Nat /\ None \notin ProfileIds /\ NoItem \cap Nat = {}

VARIABLES
    profiles,   \* BLOCKCHAIN_kyc_profiles: the version of each profile
    raising,    \* the profile and new version each thread is about to write
    increments, \* history: increments acknowledged
    overlapped  \* history: an increment began before an earlier request was over or indexed

vars == <<profiles, raising, increments, overlapped>>

Version == 1..MaxIncrements+1

TypeOK ==
    /\ IsTable(profiles, ProfileIds, Version)
    /\ raising \in [KycThreads -> [id : ProfileIds, version : Nat] \cup {None}]
    /\ increments \in 0..MaxIncrements
    /\ overlapped \in BOOLEAN

Init ==
    /\ profiles = EmptyTable(ProfileIds)
    /\ raising = [h \in KycThreads |-> None]
    /\ increments = 0
    /\ overlapped = FALSE

-----------------------------------------------------------------------------
\* Mutant: a version below one is stored.
CreateUnchecked(i) ==
    /\ Fresh(profiles, i)
    /\ \E v \in 0..1 : profiles' = PutItem(profiles, i, v)
    /\ UNCHANGED <<raising, increments, overlapped>>

\* POST /kyc always asks for version 1, and does not look for another profile.
Create(i) ==
    /\ Fresh(profiles, i)
    /\ profiles' = PutItem(profiles, i, 1)
    /\ UNCHANGED <<raising, increments, overlapped>>

\* The profiles get_by_user shows with the greatest version.
Latest ==
    {i \in Indexed(profiles) : \A j \in Indexed(profiles) :
        Shown(profiles, j) <= Shown(profiles, i)}

IncrementVersion(h) ==
    \E i \in Latest :
        /\ raising[h] = None
        /\ raising' = [raising EXCEPT ![h] = [id |-> i, version |-> Shown(profiles, i) + 1]]
        /\ overlapped' = (overlapped \/ Lagging(profiles) # {} \/ \E k \in KycThreads : raising[k] # None)
        /\ UNCHANGED <<profiles, increments>>

\* Mutant: an update that adds one to whatever is there, on top of the new version.
UpdateProfileTwice(h) ==
    LET r == raising[h] IN
    /\ r # None /\ HasRoom(profiles, r.id) /\ increments < MaxIncrements
    /\ profiles' = UpdateItem(profiles, r.id, r.version + 1)
    /\ raising' = [raising EXCEPT ![h] = None]
    /\ increments' = increments + 1
    /\ UNCHANGED overlapped

UpdateProfile(h) ==
    LET r == raising[h] IN
    /\ r # None /\ HasRoom(profiles, r.id) /\ increments < MaxIncrements
    /\ profiles' = UpdateItem(profiles, r.id, r.version)
    /\ raising' = [raising EXCEPT ![h] = None]
    /\ increments' = increments + 1
    /\ UNCHANGED overlapped

IndexCatchesUp(i) ==
    /\ i \in Lagging(profiles)
    /\ profiles' = CatchUp(profiles, i)
    /\ UNCHANGED <<raising, increments, overlapped>>

Next ==
    \/ \E i \in ProfileIds : Create(i) \/ IndexCatchesUp(i)
    \/ \E h \in KycThreads : IncrementVersion(h) \/ UpdateProfile(h)

Spec == Init /\ [][Next]_vars

-----------------------------------------------------------------------------
(***************************************************************************)
(* Every version is accounted for: no profile is ever at a version beyond  *)
(* the increments acknowledged, and an increment goes missing only if two  *)
(* requests overlapped, or one began before the index showed what an       *)
(* earlier one had written.                                                *)
(***************************************************************************)
VersionsAccounted ==
    /\ \A i \in Present(profiles) : Held(profiles, i) <= increments + 1
    /\ ~overlapped /\ Present(profiles) # {} =>
          \E i \in Present(profiles) : Held(profiles, i) = increments + 1

=============================================================================
