------------------------------ MODULE TabPanels ------------------------------
(***************************************************************************)
(* The panel of a tab, by the tab's kind (renderTabContent,                *)
(* webui/src/workspace/Workspace.tsx): the keys of a Redis connection, one *)
(* Redis key, a MySQL query or table, or a table's schema.  Panels share   *)
(* nothing but the server, so one of them is mounted here and the          *)
(* variables of the others stay where they are.                            *)
(***************************************************************************)
EXTENDS RedisKeysTab, RedisKeyTab, MysqlQuery, MysqlSchema

VARIABLE kind   \* "redis_keys", "redis_key", "mysql" or "mysql_schema"

panelVars == <<kind, listVars, keyVars, queryVars, schemaVars>>

NoListPanel == ListInit /\ legacy = NoItem

NoKeyPanel == Fill("none", {})

NoQueryPanel ==
  /\ tab = "query" /\ text = <<>>
  /\ stage = "idle" /\ sent = <<>>
  /\ Unanswered

NoSchemaPanel == SchemaFresh /\ subTab = "columns"

Init ==
  \/ kind = "redis_keys" /\ ListInit /\ NoKeyPanel /\ NoQueryPanel /\ NoSchemaPanel
  \/ kind = "redis_key" /\ KeyInit /\ NoListPanel /\ NoQueryPanel /\ NoSchemaPanel
  \/ kind = "mysql" /\ QueryInit /\ NoListPanel /\ NoKeyPanel /\ NoSchemaPanel
  \/ kind = "mysql_schema" /\ SchemaInit /\ NoListPanel /\ NoKeyPanel /\ NoQueryPanel

Next ==
  /\ UNCHANGED kind
  /\ \/ kind = "redis_keys" /\ ListNext /\ UNCHANGED <<keyVars, queryVars, schemaVars>>
     \/ kind = "redis_key" /\ KeyNext /\ UNCHANGED <<listVars, queryVars, schemaVars>>
     \/ kind = "mysql" /\ QueryNext /\ UNCHANGED <<listVars, keyVars, schemaVars>>
     \/ kind = "mysql_schema" /\ SchemaNext /\ UNCHANGED <<listVars, keyVars, queryVars>>

\* A search settles: the server gives Redis ten seconds (redisReqTimeout).
Spec == Init /\ [][Next]_panelVars /\ WF_listVars(kind = "redis_keys" /\ Settle)

(***************************************************************************)
(* Properties.                                                             *)
(***************************************************************************)
PanelsTypeOK ==
  /\ kind \in {"redis_keys", "redis_key", "mysql", "mysql_schema"}
  /\ ListTypeOK /\ KeyTypeOK /\ QueryTypeOK /\ SchemaTypeOK
=============================================================================
