----------------------------- MODULE MysqlSchema -----------------------------
(***************************************************************************)
(* webui/src/workspace/tabs/MysqlSchemaTab.tsx: the columns, the indexes   *)
(* and the DDL of one table, which other clients of MySQL alter meanwhile. *)
(* Columns and indexes come in one answer, made of two queries             *)
(* (handleMySQLTableMeta); the DDL comes with a request of its own         *)
(* (handleMySQLQuery).                                                     *)
(*                                                                         *)
(* A column list, an index list and a DDL text are the version of the      *)
(* table they were read from.  An answer shows what was read before it     *)
(* left; for an ALTER may follow it at once, the last query and the answer *)
(* are one step.                                                           *)
(***************************************************************************)
EXTENDS Naturals

CONSTANT MaxAlters   \* bound: what other clients do to the table

ASSUME MaxAltersAssumption == MaxAlters \in Nat

VARIABLES
  version, exists,     \* the table in MySQL; it may be dropped and created
  metaStage, gotColumns,   \* getTableMeta: "idle", "sent" or "columns" read
  schema, schemaErr,   \* what the tab shows
  subTab,              \* active
  ddlCalls,            \* refreshDDL: requests without an answer
  ddlSpins, ddl, ddlErr,
  authHint,
  schemaSince, ddlSince    \* history: the version at the last refresh of each

table == <<version, exists>>
metaVars == <<metaStage, gotColumns, schema, schemaErr, schemaSince>>
ddlVars == <<ddlCalls, ddlSpins, ddl, ddlErr, ddlSince>>
schemaVars == <<table, metaVars, ddlVars, subTab, authHint>>

SubTabs  == {"columns", "indexes", "ddl"}
Errors   == {"no", "auth", "other"}
NoText   == MaxAlters + 1   \* no version: the empty string, or meta null
NoSchema == [columns |-> NoText, indexes |-> NoText]

\* ALTER, DROP and CREATE TABLE.
AlterTable ==
  /\ version < MaxAlters
  /\ version' = version + 1
  /\ exists' \in {"yes", "no"}
  /\ UNCHANGED <<metaVars, ddlVars, subTab, authHint>>

(***************************************************************************)
(* Columns and indexes.                                                    *)
(***************************************************************************)
\* refresh up to its await; the button waits for the answer.  What is on
\* the screen stays.
RefreshSchema ==
  /\ metaStage = "idle"
  /\ metaStage' = "sent"
  /\ schemaErr' = "no"
  /\ authHint' = "no"
  /\ schemaSince' = version
  /\ UNCHANGED <<table, gotColumns, schema, ddlVars, subTab>>

ReadColumns ==
  /\ metaStage = "sent"
  /\ metaStage' = "columns"
  /\ gotColumns' = version
  /\ UNCHANGED <<table, schema, schemaErr, schemaSince, ddlVars, subTab, authHint>>

\* A mutant of AnswerSchema: the indexes are those of the answer before.
AnswerOldIndexes ==
  /\ metaStage = "columns"
  /\ metaStage' = "idle"
  /\ schema' = [columns |-> gotColumns,
                indexes |-> IF schema = NoSchema THEN version ELSE schema.indexes]
  /\ UNCHANGED <<table, gotColumns, schemaErr, schemaSince, ddlVars, subTab, authHint>>

\* The second query and the answer.  Of a table that is not there both
\* queries return nothing, and the tab shows two empty lists.
AnswerSchema ==
  /\ metaStage = "columns"
  /\ metaStage' = "idle"
  /\ schema' = [columns |-> gotColumns, indexes |-> version]
  /\ UNCHANGED <<table, gotColumns, schemaErr, schemaSince, ddlVars, subTab, authHint>>

Hint(e) == authHint' = IF e = "auth" THEN "yes" ELSE authHint

SchemaFails(e) ==
  /\ metaStage # "idle"
  /\ e = "auth" => metaStage = "sent"
  /\ metaStage' = "idle"
  /\ schema' = NoSchema
  /\ schemaErr' = e
  /\ Hint(e)
  /\ UNCHANGED <<table, gotColumns, schemaSince, ddlVars, subTab>>

(***************************************************************************)
(* The DDL.                                                                *)
(***************************************************************************)
\* refreshDDL up to its await.
LoadDDL ==
  /\ ddlCalls' = ddlCalls + 1
  /\ ddlSpins' = "yes"
  /\ ddlErr' = "no"
  /\ ddlSince' = version
  /\ UNCHANGED ddl

\* A mutant of LoadsDDL: the effect does not look whether a load is on its way.
LoadsDDLAgain(k) == k = "ddl" /\ ddl = NoText /\ ddlErr = "no"

\* The effect on [active]: the DDL is loaded when it is first shown.
LoadsDDL(k) == k = "ddl" /\ ddl = NoText /\ ddlSpins = "no" /\ ddlErr = "no"

\* A click on a sub-tab, or, but for the DDL, on a leaf of the tree.
ShowSubTab(k) ==
  /\ k # subTab
  /\ subTab' = k
  /\ IF LoadsDDL(k) THEN LoadDDL ELSE UNCHANGED ddlVars
  /\ UNCHANGED <<table, metaVars, authHint>>

ClickRefreshDDL ==
  /\ subTab = "ddl"
  /\ ddlSpins = "no"
  /\ LoadDDL
  /\ UNCHANGED <<table, metaVars, subTab, authHint>>

DDLSettled ==
  /\ ddlCalls > 0
  /\ ddlCalls' = ddlCalls - 1
  /\ ddlSpins' = "no"
  /\ UNCHANGED <<table, metaVars, ddlSince, subTab>>

AnswerDDL ==
  /\ DDLSettled
  /\ exists = "yes"
  /\ ddl' = version
  /\ UNCHANGED <<ddlErr, authHint>>

\* A mutant of DDLFails: the error is only logged.
DDLFailsSilently(e) ==
  /\ DDLSettled
  /\ ddl' = NoText
  /\ UNCHANGED ddlErr
  /\ Hint(e)

\* An error, or an answer without a row.
DDLFails(e) ==
  /\ DDLSettled
  /\ ddl' = NoText
  /\ ddlErr' = e
  /\ Hint(e)

\* A new component, which loads; nobody waits for the requests of the old one.
OpenSchemaTab(k) ==
  /\ subTab' = k
  /\ metaStage' = "sent" /\ gotColumns' = 0
  /\ schema' = NoSchema /\ schemaErr' = "no" /\ schemaSince' = version
  /\ ddlCalls' = 0 /\ ddlSpins' = "no"
  /\ ddl' = NoText /\ ddlErr' = "no" /\ ddlSince' = version
  /\ authHint' = "no"
  /\ UNCHANGED table

SchemaFresh ==
  /\ version = 0 /\ exists = "yes"
  /\ metaStage = "sent" /\ gotColumns = 0
  /\ schema = NoSchema /\ schemaErr = "no" /\ schemaSince = 0
  /\ ddlCalls = 0 /\ ddlSpins = "no"
  /\ ddl = NoText /\ ddlErr = "no" /\ ddlSince = 0
  /\ authHint = "no"

SchemaInit == SchemaFresh /\ subTab \in {"columns", "indexes"}

SchemaNext ==
  \/ AlterTable
  \/ RefreshSchema \/ ReadColumns \/ AnswerSchema
  \/ \E e \in Errors \ {"no"} : SchemaFails(e) \/ DDLFails(e)
  \/ \E k \in SubTabs : ShowSubTab(k)
  \/ ClickRefreshDDL \/ AnswerDDL
  \/ \E k \in {"columns", "indexes"} : OpenSchemaTab(k)

SchemaSpec == SchemaInit /\ [][SchemaNext]_schemaVars

(***************************************************************************)
(* Properties.                                                             *)
(***************************************************************************)
SchemaTypeOK ==
  /\ version \in 0..MaxAlters
  /\ exists \in {"yes", "no"}
  /\ metaStage \in {"idle", "sent", "columns"}
  /\ gotColumns \in 0..MaxAlters
  /\ schema \in [columns : 0..NoText, indexes : 0..NoText]
  /\ schemaErr \in Errors
  /\ subTab \in SubTabs
  /\ ddlCalls \in Nat
  /\ ddlSpins \in {"yes", "no"}
  /\ ddl \in 0..NoText
  /\ ddlErr \in Errors
  /\ authHint \in {"yes", "no"}
  /\ schemaSince \in 0..MaxAlters
  /\ ddlSince \in 0..MaxAlters

(***************************************************************************)
(* What a settled tab shows is at least as new as the Refresh it answers,  *)
(* and its indexes at least as new as its columns                          *)
(* (handlers_mysql_meta.go:49-58, MysqlSchemaTab.tsx:34-77).  The DDL may  *)
(* be older than both: its refresh is another button.                      *)
(***************************************************************************)
SchemaIsFresh ==
  /\ metaStage = "idle" /\ schema # NoSchema =>
       schemaSince <= schema.columns /\ schema.columns <= schema.indexes
  /\ ddlCalls = 0 /\ ddl # NoText => ddlSince <= ddl

(***************************************************************************)
(* The DDL sub-tab is never blank for good: in front, it shows a text, an  *)
(* error, or that it loads; and then exactly one request is on its way, in *)
(* whatever order the user turns to it and back, refreshes and is answered *)
(* (MysqlSchemaTab.tsx:54-89).                                             *)
(***************************************************************************)
DDLAccounted ==
  /\ subTab = "ddl" => ddl # NoText \/ ddlErr # "no" \/ ddlSpins = "yes"
  /\ ddlCalls = IF ddlSpins = "yes" THEN 1 ELSE 0

(***************************************************************************)
(* The inductive invariant: a refresh is not of the future, and the        *)
(* columns that were read are as new as the refresh they are read for.     *)
(***************************************************************************)
SchemaInv ==
  /\ SchemaTypeOK
  /\ schemaSince <= version
  /\ metaStage = "columns" => schemaSince <= gotColumns /\ gotColumns <= version
  /\ ddlSince <= version
  /\ SchemaIsFresh
  /\ DDLAccounted
=============================================================================
