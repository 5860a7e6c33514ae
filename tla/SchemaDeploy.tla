---------------------------- MODULE SchemaDeploy ----------------------------
(***************************************************************************)
(* The scripts under queries/dynamodb that create the tables and add the   *)
(* missing indices to tables of an older deployment.  An operator runs     *)
(* them one at a time, in any order, and again after a failure; a table    *)
(* that exists is never touched by a creation, only an index is added.     *)
(* A table is the set of its indices.  Key schemas are left out: every     *)
(* table has the key "id".                                                 *)
(***************************************************************************)
EXTENDS Naturals, Sequences

CONSTANTS
    NoTable,    \* the table does not exist
    OldTables,  \* the sets of tables, without indices, that a deployment may start from
    MaxFailures \* bound on the tables one run fails to create

VARIABLES
    schema,     \* the indices of each table, or NoTable
    script,     \* the script being run, "" if none
    next,       \* the position of its loop
    failures,   \* the tables it has failed to create
    completed   \* the scripts that have run to their end without a failure

vars == <<schema, script, next, failures, completed>>

-----------------------------------------------------------------------------
LLM_HISTORY_TABLES ==
    <<[name |-> "llm_reorder_history",
       gsis |-> {"user_id_index", "implementation_id_index", "provider_index", "created_at_index"}],
      [name |-> "ai_diagnosis_history",
       gsis |-> {"user_id_index", "implementation_id_index", "created_at_index"}]>>

CoreTables ==
    <<[name |-> "sessions", gsis |-> {"session_id_index", "user_id_index", "expires_at_index"}],
      [name |-> "kyc_profiles", gsis |-> {"user_index", "version_index"}],
      [name |-> "app_metadata", gsis |-> {"user_meta_index"}],
      [name |-> "audit_logs", gsis |-> {"user_index", "action_index", "time_index"}],
      [name |-> "rate_limits", gsis |-> {"key_index"}],
      [name |-> "token_meta", gsis |-> {"symbol_index"}]>>

LaterTables ==
    <<[name |-> "users", gsis |-> {"user_id_index", "email_index"}],
      [name |-> "tokenization_templates",
       gsis |-> {"user_id_index", "name_index", "category_index", "status_index", "created_at_index"}],
      [name |-> "tokenization_audit_logs",
       gsis |-> {"user_id_index", "template_name_index", "action_index", "created_at_index"}],
      [name |-> "ohlcv_candles", gsis |-> {"symbol_interval_index", "symbol_time_index"}],
      [name |-> "positions", gsis |-> {"user_index", "pool_index"}]>>

tables == CoreTables \o LaterTables \o LLM_HISTORY_TABLES

gsi_specs == CoreTables

extra_gsi_specs ==
    <<[name |-> "ohlcv_candles", gsis |-> {"symbol_interval_index", "symbol_time_index"}],
      [name |-> "positions", gsis |-> {"user_index", "pool_index"}]>>

\* What the services query: query_index, and the query calls of the repositories.
Queried ==
    [sessions |-> {"session_id_index", "user_id_index"}, kyc_profiles |-> {"user_index"},
     app_metadata |-> {"user_meta_index"}, audit_logs |-> {"user_index", "action_index"},
     rate_limits |-> {"key_index"}, token_meta |-> {"symbol_index"},
     users |-> {"user_id_index", "email_index"},
     tokenization_templates |-> {"user_id_index", "name_index"},
     tokenization_audit_logs |-> {},
     ohlcv_candles |-> {"symbol_interval_index", "symbol_time_index"},
     positions |-> {"user_index", "pool_index"},
     llm_reorder_history |-> {"user_id_index", "implementation_id_index"},
     ai_diagnosis_history |-> {"user_id_index", "implementation_id_index"}]

TableNames == DOMAIN Queried

Loop ==
    [create |-> tables, create_llm |-> LLM_HISTORY_TABLES, add |-> gsi_specs, extra |-> extra_gsi_specs]

Scripts == DOMAIN Loop
Creates == {"create", "create_llm"}

\* The tables that deployments had before they had indices: the scripts add no others.
Upgraded ==
    {gsi_specs[k].name : k \in DOMAIN gsi_specs} \cup
    {extra_gsi_specs[k].name : k \in DOMAIN extra_gsi_specs}

\* What the constants satisfy.
DeployAssumption ==
    /\ MaxFailures \in Nat
    /\ \A old \in OldTables : old \subseteq Upgraded
    /\ \A k \in DOMAIN tables : \A gsis \in SUBSET tables[k].gsis : gsis # NoTable

TypeOK ==
    /\ \A t \in TableNames : schema[t] = NoTable \/ \E k \in 1..Len(tables) :
          tables[k].name = t /\ schema[t] \subseteq tables[k].gsis
    /\ script \in Scripts \cup {""}
    /\ next \in 1..Len(tables)+1
    /\ failures \in 0..MaxFailures
    /\ completed \subseteq Scripts

Init ==
    /\ \E old \in OldTables : schema = [t \in TableNames |-> IF t \in old THEN {} ELSE NoTable]
    /\ script = "" /\ next = 1 /\ failures = 0
    /\ completed = {}

-----------------------------------------------------------------------------
Start(s) ==
    /\ script = ""
    /\ script' = s /\ next' = 1 /\ failures' = 0
    /\ UNCHANGED <<schema, completed>>

Running(S) == script \in S /\ next <= Len(Loop[script])

Current == Loop[script][next]

Advance == next' = next + 1 /\ UNCHANGED <<script, completed>>

Created == [schema EXCEPT ![Current.name] = IF @ = NoTable THEN Current.gsis ELSE @]

\* create_table: a table that exists is left as it is, and counts as created.
CreateTable ==
    /\ Running(Creates)
    /\ schema' = Created
    /\ UNCHANGED failures
    /\ Advance

\* Any other error is reported, and the loop goes on; waiting for the new table may fail too.
CreateFails ==
    /\ Running(Creates)
    /\ schema' \in {schema, Created}
    /\ failures < MaxFailures /\ failures' = failures + 1
    /\ Advance

\* Mutant: a table that has an index already is taken to have them all.
MissingIfNone == IF schema[Current.name] = {} THEN Current.gsis ELSE {}

Missing == Current.gsis \ schema[Current.name]

\* One table of add_dynamodb_gsis or add_gsis_extra: each missing index is added.
AddIndices ==
    /\ Running(Scripts \ Creates)
    /\ schema[Current.name] # NoTable
    /\ schema' = [schema EXCEPT ![Current.name] = @ \cup Missing]
    /\ UNCHANGED failures
    /\ Advance

Stop == script' = "" /\ next' = 1 /\ failures' = 0

\* The script stops: describe_table on a missing table, an error, or the operator.
Aborts ==
    /\ script # ""
    /\ \/ UNCHANGED schema
       \/ /\ Running(Scripts \ Creates) /\ schema[Current.name] # NoTable
          /\ \E some \in SUBSET Missing \ {Missing} :
                schema' = [schema EXCEPT ![Current.name] = @ \cup some]
    /\ Stop
    /\ UNCHANGED completed

\* verify_llm_history_tables, at the end of create_llm_history_tables.
Verified ==
    script = "create_llm" =>
        \A k \in 1..Len(LLM_HISTORY_TABLES) :
            LET t == LLM_HISTORY_TABLES[k] IN schema[t.name] # NoTable /\ t.gsis \subseteq schema[t.name]

Finish ==
    /\ script # "" /\ next > Len(Loop[script])
    /\ completed' = IF failures = 0 /\ Verified THEN completed \cup {script} ELSE completed
    /\ Stop
    /\ UNCHANGED schema

Next ==
    \/ \E s \in Scripts : Start(s)
    \/ CreateTable \/ CreateFails
    \/ AddIndices
    \/ Aborts
    \/ Finish

Spec == Init /\ [][Next]_vars

-----------------------------------------------------------------------------
(***************************************************************************)
(* Once the tables have been created, and the indices added, without a     *)
(* reported failure - in any order, after any number of interrupted runs,  *)
(* over tables of an older deployment - every index the services query     *)
(* exists.                                                                 *)
(***************************************************************************)
EveryQueryHasIndex ==
    {"create", "add", "extra"} \subseteq completed =>
        \A t \in TableNames : schema[t] # NoTable /\ Queried[t] \subseteq schema[t]

=============================================================================
