------------------------------ MODULE Workspace ------------------------------
(***************************************************************************)
(* webui/src/workspace: the tree of connections (TreePanel.tsx), the tabs  *)
(* it opens (Workspace.tsx, state.ts) and, of the schema tab, which of its *)
(* three sub-tabs is shown (MysqlSchemaTab.tsx).  The tree loads a node's  *)
(* children when it is first expanded; its handlers and the tabs' run to   *)
(* the end in one step but for those loads.                                *)
(*                                                                         *)
(* A node is its id, a sequence that starts with its kind; names have no   *)
(* colons in them.  A tab's id stands for the hash the code computes from  *)
(* kind and key: two resources never share one, and a query tab's nonce is *)
(* new.  Titles and the names of connections are left out.                 *)
(***************************************************************************)
EXTENDS Naturals, Sequences, SequencesExt

CONSTANTS
  MysqlConns, RedisConns,  \* ids of connections
  Dbs, Tables, Keys,       \* names the servers may answer with
  MaxTabs,                 \* bound: open tabs
  MaxQueries               \* bound: query tabs ever opened

ASSUME TabBoundsAssumption == MaxTabs \in Nat /\ MaxQueries \in Nat

VARIABLES
  treeStage,   \* "loading", "shown" or "error"
  nodes,       \* what is in the tree
  expanded,    \* nodes with children, or with the news that there are none
  loads,       \* nodes whose children are being loaded
  tabsState,   \* [tabs, activeId]
  ctxMenu,     \* the table whose menu is open, or NoTable
  queries,     \* query tabs opened so far
  wanted,      \* history: the tab, or its sub-tab, that the user last asked
               \* for, until a tab is closed
  turned       \* history: schema tabs whose sub-tab the user chose since they
               \* were last told what to show

treeVars == <<treeStage, nodes, expanded, loads>>
tabVars == <<tabsState, ctxMenu, queries, wanted, turned>>
workspaceVars == <<treeVars, tabVars>>

Leaves == {"columns", "indexes"}
NoTable == <<>>
Nobody == <<"nobody">>

Roots == {<<"mysql_conn", c>> : c \in MysqlConns} \cup {<<"redis_conn", r>> : r \in RedisConns}

\* What the server may answer below a node; Redis nodes ask nobody.
ChildrenOf(n) ==
  CASE n[1] = "mysql_conn" -> {<<"mysql_db", n[2], d>> : d \in Dbs}
    [] n[1] = "mysql_db" -> {<<"mysql_table", n[2], n[3], t>> : t \in Tables}
    [] n[1] = "mysql_table" /\ Len(n) = 4 -> {Append(n, leaf) : leaf \in Leaves}
    [] n[1] = "redis_conn" -> {<<"redis_keys_root", n[2]>>}
    [] OTHER -> {}

IsTable(n) == n[1] = "mysql_table" /\ Len(n) = 4
IsLeafNode(n) == n[1] = "mysql_table" /\ Len(n) = 5

Tab(id, leaf) == [id |-> id, leaf |-> leaf, active |-> leaf]

(***************************************************************************)
(* state.ts                                                                *)
(***************************************************************************)
Ids(s) == {s.tabs[i].id : i \in DOMAIN s.tabs}
Position(s, id) == CHOOSE i \in DOMAIN s.tabs : s.tabs[i].id = id

OpenOrFocusTab(s, tab) ==
  [tabs |-> IF tab.id \in Ids(s) THEN s.tabs ELSE Append(s.tabs, tab), activeId |-> tab.id]

\* A mutant of CloseTab: the tab at the place of the closed one is next.
CloseTabRight(s, id) ==
  LET at == Position(s, id)
      rest == RemoveAt(s.tabs, at)
  IN  [tabs |-> rest,
       activeId |-> IF s.activeId # id THEN s.activeId
                    ELSE IF at <= Len(rest) THEN rest[at].id ELSE rest[Len(rest)].id]

\* The tab on the left is next, or the one that takes the place.
CloseTab(s, id) ==
  IF id \notin Ids(s) THEN s
  ELSE LET at == Position(s, id)
           rest == RemoveAt(s.tabs, at)
       IN  [tabs |-> rest,
            activeId |-> IF s.activeId # id THEN s.activeId
                         ELSE IF at > 1 THEN rest[at - 1].id
                         ELSE IF rest # <<>> THEN rest[at].id ELSE Nobody]

\* A mutant of UpdateTab: the tab is told, and shows what it showed.
UpdateTabTells(s, id, leaf) ==
  [s EXCEPT !.tabs = [i \in DOMAIN s.tabs |->
     IF s.tabs[i].id = id THEN [s.tabs[i] EXCEPT !.leaf = leaf] ELSE s.tabs[i]]]

\* What a schema tab is told to show; being told something else than before
\* moves it there (the effect of MysqlSchemaTab.tsx:30-32).
UpdateTab(s, id, leaf) ==
  [s EXCEPT !.tabs = [i \in DOMAIN s.tabs |->
     IF s.tabs[i].id = id /\ s.tabs[i].leaf # leaf THEN Tab(id, leaf) ELSE s.tabs[i]]]

Told(s, id, leaf) ==
  \E i \in DOMAIN s.tabs : s.tabs[i].id = id /\ s.tabs[i].leaf = leaf

WelcomeTab == Tab(<<"welcome">>, "none")

(***************************************************************************)
(* The tree.                                                               *)
(***************************************************************************)
\* The connections the server answers with; the answer fills an empty tree.
TreeLoaded(S) ==
  /\ treeStage = "loading"
  /\ S \subseteq Roots
  /\ treeStage' = "shown"
  /\ nodes' = S
  /\ expanded' = {}
  /\ UNCHANGED <<loads, tabVars>>

TreeFails ==
  /\ treeStage = "loading"
  /\ treeStage' = "error"
  /\ nodes' = {}
  /\ expanded' = {}
  /\ UNCHANGED <<loads, tabVars>>

\* A mutant of Retry: the tree can be loaded again at any time.
RetryAnyTime ==
  /\ treeStage # "loading"
  /\ treeStage' = "loading"
  /\ UNCHANGED <<nodes, expanded, loads, tabVars>>

\* The button is shown with the error only.
Retry ==
  /\ treeStage = "error"
  /\ treeStage' = "loading"
  /\ UNCHANGED <<nodes, expanded, loads, tabVars>>

\* loadData, up to its await.  antd asks once for each node.
Expand(n) ==
  /\ n \in nodes \ (expanded \cup loads)
  /\ ChildrenOf(n) # {}
  /\ IF n[1] = "redis_conn"
       THEN /\ nodes' = nodes \cup ChildrenOf(n)
            /\ expanded' = expanded \cup {n}
            /\ UNCHANGED loads
       ELSE /\ loads' = loads \cup {n}
            /\ UNCHANGED <<nodes, expanded>>
  /\ UNCHANGED <<treeStage, tabVars>>

\* The databases or tables the server has; of a table, its columns and
\* indexes.
Answers(n) == IF IsTable(n) THEN {ChildrenOf(n)} ELSE SUBSET ChildrenOf(n)

\* Without children, the news of none or of an error stands in their place.
ChildrenLoaded(n, S) ==
  /\ n \in loads
  /\ S \in Answers(n) \cup {{}}
  /\ loads' = loads \ {n}
  /\ IF n \in nodes THEN nodes' = nodes \cup S /\ expanded' = expanded \cup {n}
                    ELSE UNCHANGED <<nodes, expanded>>
  /\ UNCHANGED <<treeStage, tabVars>>

(***************************************************************************)
(* Tabs.                                                                   *)
(***************************************************************************)
Show(s, id) ==
  /\ Len(s.tabs) <= MaxTabs
  /\ tabsState' = [s EXCEPT !.activeId = id]
  /\ wanted' = id
  /\ UNCHANGED turned

SelectLeaf(n) ==
  /\ n \in nodes /\ IsLeafNode(n)
  /\ LET id == <<"mysql_schema">> \o SubSeq(n, 2, 4)
         s  == UpdateTab(OpenOrFocusTab(tabsState, Tab(id, n[5])), id, n[5])
     IN  /\ Len(s.tabs) <= MaxTabs
         /\ tabsState' = s
         /\ wanted' = Append(id, n[5])
         /\ turned' = IF Told(tabsState, id, n[5]) THEN turned ELSE turned \ {id}
  /\ UNCHANGED <<treeVars, ctxMenu, queries>>

\* A table shows its data, "Keys" the list of keys, any other node itself.
TabOf(n) ==
  CASE IsTable(n) -> <<"mysql_data">> \o Tail(n)
    [] n[1] = "redis_keys_root" -> <<"redis_keys", n[2]>>
    [] OTHER -> n

SelectNode(n) ==
  /\ n \in nodes /\ ~IsLeafNode(n)
  /\ Show(OpenOrFocusTab(tabsState, Tab(TabOf(n), "none")), TabOf(n))
  /\ UNCHANGED <<treeVars, ctxMenu, queries>>

\* A click on a key in the keys tab that is in front.
OpenKey(k) ==
  /\ tabsState.activeId[1] = "redis_keys"
  /\ LET id == <<"redis", tabsState.activeId[2], k>>
     IN  Show(OpenOrFocusTab(tabsState, Tab(id, "none")), id)
  /\ UNCHANGED <<treeVars, ctxMenu, queries>>

RightClick(n) ==
  /\ n \in nodes /\ IsTable(n)
  /\ ctxMenu' = Tail(n)
  /\ UNCHANGED <<treeVars, tabsState, queries, wanted, turned>>

\* Anywhere else, or the item that copies the name.
CloseMenu ==
  /\ ctxMenu # NoTable
  /\ ctxMenu' = NoTable
  /\ UNCHANGED <<treeVars, tabsState, queries, wanted, turned>>

\* Each of the other items opens a query tab of its own.
OpenNewQueryTab ==
  /\ ctxMenu # NoTable
  /\ queries < MaxQueries
  /\ queries' = queries + 1
  /\ ctxMenu' = NoTable
  /\ LET id == <<"mysql_query">> \o ctxMenu \o <<queries>>
     IN  Show(OpenOrFocusTab(tabsState, Tab(id, "none")), id)
  /\ UNCHANGED treeVars

ClickTab(id) ==
  /\ id \in Ids(tabsState)
  /\ Show(tabsState, id)
  /\ UNCHANGED <<treeVars, ctxMenu, queries>>

\* A mutant of OnEdit: any tab has a cross.
OnEditAny(id) ==
  /\ id \in Ids(tabsState)
  /\ tabsState' = CloseTab(tabsState, id)
  /\ wanted' = Nobody
  /\ UNCHANGED <<treeVars, ctxMenu, queries, turned>>

\* The cross of a tab; the welcome tab has none.
OnEdit(id) ==
  /\ id \in Ids(tabsState) \ {WelcomeTab.id}
  /\ tabsState' = CloseTab(tabsState, id)
  /\ wanted' = Nobody
  /\ UNCHANGED <<treeVars, ctxMenu, queries, turned>>

\* The sub-tabs of the schema tab that is in front.
ClickSubTab(k) ==
  /\ tabsState.activeId[1] = "mysql_schema"
  /\ tabsState' = [tabsState EXCEPT
       !.tabs[Position(tabsState, tabsState.activeId)].active = k]
  /\ wanted' = Append(tabsState.activeId, k)
  /\ turned' = turned \cup {tabsState.activeId}
  /\ UNCHANGED <<treeVars, ctxMenu, queries>>

WorkspaceInit ==
  /\ treeStage = "loading"
  /\ nodes = {}
  /\ expanded = {}
  /\ loads = {}
  /\ tabsState = [tabs |-> <<WelcomeTab>>, activeId |-> WelcomeTab.id]
  /\ ctxMenu = NoTable
  /\ queries = 0
  /\ wanted = WelcomeTab.id
  /\ turned = {}

WorkspaceNext ==
  \/ \E S \in SUBSET Roots : TreeLoaded(S)
  \/ TreeFails \/ Retry
  \/ \E n \in nodes : Expand(n) \/ SelectLeaf(n) \/ SelectNode(n) \/ RightClick(n)
  \/ \E n \in loads : \E S \in Answers(n) \cup {{}} : ChildrenLoaded(n, S)
  \/ \E k \in Keys : OpenKey(k)
  \/ CloseMenu \/ OpenNewQueryTab
  \/ \E id \in Ids(tabsState) : ClickTab(id) \/ OnEdit(id)
  \/ \E k \in Leaves \cup {"ddl"} : ClickSubTab(k)

WorkspaceSpec == WorkspaceInit /\ [][WorkspaceNext]_workspaceVars

(***************************************************************************)
(* Properties.                                                             *)
(***************************************************************************)
Below(S) == UNION {ChildrenOf(n) : n \in S}

AllNodes == Roots \cup Below(Roots) \cup Below(Below(Roots)) \cup Below(Below(Below(Roots)))

(***************************************************************************)
(* Among the types: what is expanded or being loaded is in the tree, so    *)
(* that no answer comes for a node that is gone, and the menu that is open *)
(* is that of a table.                                                     *)
(***************************************************************************)
WorkspaceTypeOK ==
  /\ treeStage \in {"loading", "shown", "error"}
  /\ nodes \subseteq AllNodes
  /\ expanded \subseteq nodes
  /\ loads \subseteq nodes \ expanded
  /\ \A i \in DOMAIN tabsState.tabs :
       tabsState.tabs[i].leaf \in Leaves \cup {"none"}
  /\ ctxMenu # NoTable => <<"mysql_table">> \o ctxMenu \in nodes
  /\ queries \in 0..MaxQueries

(***************************************************************************)
(* Through any opening, focusing, updating and closing, the welcome tab is *)
(* first, no resource has two tabs, and the tab in front is one of those   *)
(* that are open (state.ts:26-48, Workspace.tsx:35-38, 275-281).           *)
(***************************************************************************)
TabsWellFormed ==
  /\ tabsState.tabs # <<>> /\ tabsState.tabs[1] = WelcomeTab
  /\ \A i, j \in DOMAIN tabsState.tabs :
       tabsState.tabs[i].id = tabsState.tabs[j].id => i = j
  /\ tabsState.activeId \in Ids(tabsState)

FrontTab == tabsState.tabs[Position(tabsState, tabsState.activeId)]

(***************************************************************************)
(* "Clicking the Columns leaf: switches to the Columns sub-tab by default" *)
(* (the specification of the schema tab, 2.2): what the user last asked    *)
(* for is what is shown, of a schema the sub-tab as well.  A tab that was  *)
(* told to show the columns is told nothing new by a second click on their *)
(* leaf, and the effect of MysqlSchemaTab.tsx:30-32 does not run: the      *)
(* sub-tab that the user turned to in between stays.                       *)
(***************************************************************************)
WantedIsShown ==
  wanted # Nobody => wanted \in {FrontTab.id, Append(FrontTab.id, FrontTab.active)}

(***************************************************************************)
(* What the user last asked for is in front, and what is in front is shown *)
(* as asked: a table's data, a key, a new query, and of a schema the       *)
(* sub-tab, new or open already (Workspace.tsx:99-111, 147-256,            *)
(* MysqlSchemaTab.tsx:30-32).  The exception is the click that tells a     *)
(* schema tab what it was told before the user turned its sub-tab.         *)
(***************************************************************************)
WantedInFront ==
  \/ WantedIsShown
  \/ FrontTab.id \in turned /\ wanted = Append(FrontTab.id, FrontTab.leaf)

(***************************************************************************)
(* "Closing the current tab: the left one first" (state.ts:45): the other  *)
(* tabs keep their order and their state, and the tab in front changes     *)
(* only when it is the one that is closed.                                 *)
(***************************************************************************)
CloseGoesLeft ==
  [][Len(tabsState'.tabs) < Len(tabsState.tabs) =>
       \E i \in 2..Len(tabsState.tabs) :
         /\ tabsState'.tabs = RemoveAt(tabsState.tabs, i)
         /\ tabsState'.activeId = IF tabsState.activeId = tabsState.tabs[i].id
                                    THEN tabsState.tabs[i - 1].id
                                    ELSE tabsState.activeId]_workspaceVars

(***************************************************************************)
(* A tab that a node of the tree opened can be found in the tree as long   *)
(* as it is open: the tree is loaded until it is there once, and nothing   *)
(* leaves it afterwards (TreePanel.tsx:68-128, 154-280, 296-328).          *)
(***************************************************************************)
TabsAreInTheTree ==
  \A i \in 2..Len(tabsState.tabs) :
    LET id == tabsState.tabs[i].id
    IN  \/ id \in nodes
        \/ \E n \in nodes : ~IsLeafNode(n) /\ id = TabOf(n)
        \/ id[1] \in {"mysql_query", "mysql_schema"}
             /\ <<"mysql_table">> \o SubSeq(id, 2, 4) \in nodes
        \/ id[1] = "redis" /\ <<"redis_keys_root", id[2]>> \in nodes
=============================================================================
