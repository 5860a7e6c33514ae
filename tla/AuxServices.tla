----------------------------- MODULE AuxServices -----------------------------
(***************************************************************************)
(* The services over DynamoDB and the scripts that create its tables, and  *)
(* the requests of the Bitcoin service, side by side.  They share no state *)
(* and interleave freely; what each promises is stated of the whole.       *)
(***************************************************************************)
EXTENDS NodeRequests

CONSTANTS
    Rows, Threads,      \* ids of items, and threads of the pool
    Wallets, Emails,    \* of the users
    Symbols,            \* of the tokens
    Statuses,           \* user statuses a request may ask for
    Durations,          \* max_duration_ms a client may ask for
    Lifetime, Inactivity,
    NoTable, OldTables, \* what a deployment may start from
    None, Gone, Orphan,
    MaxLag, ShortLag,   \* bounds on the delay of the indices; ShortLag of the larger tables
    MaxTime, MaxCount, MaxRecords, MaxFails

VARIABLES
    now, sessions, serving, answer, touched, granted,
    profiles, raising, increments, kycOverlapped,
    counters, counting, written, counted, deleted,
    users, handling, records, overlapped,
    schema, script, next, failures, completed

Sessions == INSTANCE AuxSessions WITH
    SessionIds <- Rows, SessionThreads <- Threads, MaxLag <- ShortLag
Kyc == INSTANCE AuxKyc WITH
    ProfileIds <- Rows, KycThreads <- Threads, MaxIncrements <- MaxCount, overlapped <- kycOverlapped
Limits == INSTANCE RateLimits WITH
    CounterIds <- Rows, LimitThreads <- Threads, MaxRequests <- MaxCount
Users == INSTANCE AuxUsers WITH
    UserRows <- Rows, UserThreads <- Threads, MaxLag <- ShortLag
Deploy == INSTANCE SchemaDeploy WITH
    MaxFailures <- MaxFails

\* The constants of every service satisfy what its module says of them.
ASSUME AuxAssumption ==
    /\ Sessions!SessionAssumption /\ Sessions!TableAssumption
    /\ Kyc!KycAssumption /\ Kyc!TableAssumption
    /\ Limits!RateAssumption /\ Limits!TableAssumption
    /\ Users!UserAssumption /\ Users!TableAssumption
    /\ Deploy!DeployAssumption /\ NodeAssumption

sessionVars == <<now, sessions, serving, answer, touched, granted>>
kycVars == <<profiles, raising, increments, kycOverlapped>>
limitVars == <<counters, counting, written, counted, deleted>>
userVars == <<users, handling, records, overlapped>>
deployVars == <<schema, script, next, failures, completed>>
auxVars == <<sessionVars, kycVars, limitVars, userVars, deployVars, vars>>

AuxInit == Sessions!Init /\ Kyc!Init /\ Limits!Init /\ Users!Init /\ Deploy!Init /\ Init

\* A step of one service leaves the others as they are.
SessionStep == Sessions!Next /\ UNCHANGED <<kycVars, limitVars, userVars, deployVars, vars>>
KycStep == Kyc!Next /\ UNCHANGED <<sessionVars, limitVars, userVars, deployVars, vars>>
LimitStep == Limits!Next /\ UNCHANGED <<sessionVars, kycVars, userVars, deployVars, vars>>
UserStep == Users!Next /\ UNCHANGED <<sessionVars, kycVars, limitVars, deployVars, vars>>
DeployStep == Deploy!Next /\ UNCHANGED <<sessionVars, kycVars, limitVars, userVars, vars>>
NodeStep == Next /\ UNCHANGED <<sessionVars, kycVars, limitVars, userVars, deployVars>>

AuxNext == SessionStep \/ KycStep \/ LimitStep \/ UserStep \/ DeployStep \/ NodeStep

AuxSpec == AuxInit /\ [][AuxNext]_auxVars

-----------------------------------------------------------------------------
\* The variables of every service keep their types.
AuxTypeOK ==
    /\ Sessions!TypeOK /\ Kyc!TypeOK /\ Limits!TypeOK /\ Users!TypeOK /\ Deploy!TypeOK
    /\ TypeOK

\* AuxSessions: "active" is answered only within the limits of a create or a refresh.
ActiveIsEarned == Sessions!ActiveIsEarned

\* AuxSessions: a deleted session does not come back.
LogoutIsFinal == Sessions!LogoutIsFinal

\* AuxKyc: no version is invented, and one is lost only to an overlapping request.
VersionsAccounted == Kyc!VersionsAccounted

\* RateLimits: an increment is lost only with the item a reset deleted.
LostOnlyByReset == Limits!LostOnlyByReset

\* RateLimits: no count is answered beyond the increments written.
NeverOverCounted == Limits!NeverOverCounted

\* AuxUsers: what was stored for an address stays listed for it.
RecordsReachable == Users!RecordsReachable

\* AuxUsers: a status change reaches the user it names.
RightUserUpdated == Users!RightUserUpdated

\* SchemaDeploy: after a clean deployment every index the services query exists.
EveryQueryHasIndex == Deploy!EveryQueryHasIndex

=============================================================================
