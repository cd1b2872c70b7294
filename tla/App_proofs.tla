------------------------------ MODULE App_proofs ------------------------------
(***************************************************************************)
(* Proofs about the page: the tree and the tabs of Workspace, for any      *)
(* connections, names and number of tabs, and the list in the drawer of    *)
(* ConnectionsPage, for any connections and any number of overlapping      *)
(* calls.                                                                  *)
(***************************************************************************)
EXTENDS App, SequenceTheorems, TLAPS

(***************************************************************************)
(* One of the drawer and the workspace is at work: each takes only steps   *)
(* of its own, or none.                                                    *)
(***************************************************************************)
LEMMA Parts == AppSpec => WorkspaceSpec /\ PageSpec
  <1>1. AppInit => WorkspaceInit /\ PageInit
    BY DEF AppInit, PageInit
  <1>2. [AppNext]_appVars => [WorkspaceNext]_workspaceVars /\ [PageNext]_pageVars
    BY DEF AppNext, appVars
  <1> QED
    BY <1>1, <1>2, PTL DEF AppSpec, WorkspaceSpec, PageSpec

(***************************************************************************)
(* The inductive invariant: the tabs and the names of nodes are sequences  *)
(* (of what, is of no interest here), and the tabs are well formed.        *)
(***************************************************************************)
IsSeq(s) == \E S : s \in Seq(S)

TabState(s) ==
  /\ s = [tabs |-> s.tabs, activeId |-> s.activeId]
  /\ IsSeq(s.tabs)
  /\ \A i \in DOMAIN s.tabs :
       s.tabs[i] = [id |-> s.tabs[i].id, leaf |-> s.tabs[i].leaf, active |-> s.tabs[i].active]

WellFormed(s) ==
  /\ s.tabs # <<>> /\ s.tabs[1] = WelcomeTab
  /\ \A i, j \in DOMAIN s.tabs : s.tabs[i].id = s.tabs[j].id => i = j
  /\ s.activeId \in Ids(s)

TabsInv ==
  /\ TabState(tabsState) /\ WellFormed(tabsState)
  /\ \A n \in nodes : IsSeq(n)

(***************************************************************************)
(* Sequences without one of their elements.                                *)
(***************************************************************************)
LEMMA RemoveAtFacts ==
  ASSUME NEW S, NEW s \in Seq(S), NEW at \in 1..Len(s)
  PROVE  /\ RemoveAt(s, at) \in Seq(S)
         /\ Len(RemoveAt(s, at)) = Len(s) - 1
         /\ \A i \in 1..(Len(s) - 1) :
              RemoveAt(s, at)[i] = IF i < at THEN s[i] ELSE s[i + 1]
  <1> DEFINE l == SubSeq(s, 1, at - 1)
             r == SubSeq(s, at + 1, Len(s))
  <1>1. /\ l \in Seq(S) /\ Len(l) = at - 1
        /\ \A i \in 1..(at - 1) : l[i] = s[i]
    OBVIOUS
  <1>2. /\ r \in Seq(S) /\ Len(r) = Len(s) - at
        /\ \A i \in 1..(Len(s) - at) : r[i] = s[at + i]
    OBVIOUS
  <1>3. RemoveAt(s, at) = l \o r
    BY DEF RemoveAt
  <1>4. at \in Nat /\ Len(s) \in Nat /\ at >= 1 /\ at <= Len(s)
    OBVIOUS
  <1> HIDE DEF l, r
  <1>5. /\ l \o r \in Seq(S) /\ Len(l \o r) = Len(l) + Len(r)
        /\ \A i \in 1..(Len(l) + Len(r)) :
             (l \o r)[i] = IF i <= Len(l) THEN l[i] ELSE r[i - Len(l)]
    BY <1>1, <1>2, ConcatProperties
  <1>6. ASSUME NEW i \in 1..(Len(s) - 1)
        PROVE  (l \o r)[i] = IF i < at THEN s[i] ELSE s[i + 1]
    <2>0. i \in Nat /\ (i < at \/ i >= at) /\ (i >= at => ~(i < at))
      BY <1>4
    <2>1. CASE i < at
      BY <1>1, <1>2, <1>4, <1>5, <2>1
    <2>2. CASE i >= at
      <3>1. PICK k \in 1..(Len(s) - at) : k = i - (at - 1) /\ at + k = i + 1
        BY <1>4, <2>2
      <3>2. (l \o r)[i] = r[k]
        BY <1>1, <1>2, <1>4, <1>5, <2>2, <3>1
      <3>3. r[k] = s[i + 1]
        BY <1>2, <3>1
      <3> QED
        BY <2>0, <2>2, <3>2, <3>3
    <2> QED
      BY <2>0, <2>1, <2>2
  <1> QED
    BY <1>1, <1>2, <1>3, <1>4, <1>5, <1>6

LEMMA PositionFacts ==
  ASSUME NEW s, NEW id \in Ids(s)
  PROVE  Position(s, id) \in DOMAIN s.tabs /\ s.tabs[Position(s, id)].id = id
  BY DEF Ids, Position

(***************************************************************************)
(* state.ts                                                                *)
(***************************************************************************)
LEMMA OpenKeeps ==
  ASSUME NEW s, TabState(s), WellFormed(s), NEW id, NEW leaf
  PROVE  /\ TabState(OpenOrFocusTab(s, Tab(id, leaf)))
         /\ WellFormed(OpenOrFocusTab(s, Tab(id, leaf)))
         /\ Len(OpenOrFocusTab(s, Tab(id, leaf)).tabs) >= Len(s.tabs)
         /\ OpenOrFocusTab(s, Tab(id, leaf)).activeId = id
  <1> DEFINE tab == Tab(id, leaf)
             o == OpenOrFocusTab(s, tab)
  <1>1. PICK S : s.tabs \in Seq(S)
    BY DEF TabState, IsSeq
  <1>2. tab.id = id /\ tab = [id |-> tab.id, leaf |-> tab.leaf, active |-> tab.active]
    BY DEF Tab
  <1>3. CASE id \in Ids(s)
    <2>1. o = [tabs |-> s.tabs, activeId |-> id]
      BY <1>2, <1>3 DEF OpenOrFocusTab
    <2> QED
      BY <1>1, <1>3, <2>1 DEF TabState, WellFormed, IsSeq, Ids
  <1>4. CASE id \notin Ids(s)
    <2>1. o.tabs = Append(s.tabs, tab) /\ o.activeId = id
          /\ o = [tabs |-> o.tabs, activeId |-> o.activeId]
      BY <1>2, <1>4 DEF OpenOrFocusTab
    <2> HIDE DEF o, tab
    <2>2. s.tabs \in Seq(S \cup {tab}) /\ tab \in S \cup {tab}
      BY <1>1
    <2>3. /\ o.tabs \in Seq(S \cup {tab})
          /\ Len(o.tabs) = Len(s.tabs) + 1
          /\ o.tabs[Len(s.tabs) + 1] = tab
          /\ \A i \in 1..Len(s.tabs) : o.tabs[i] = s.tabs[i]
      BY <2>1, <2>2
    <2>4. DOMAIN o.tabs = 1..(Len(s.tabs) + 1) /\ DOMAIN s.tabs = 1..Len(s.tabs) /\ Len(s.tabs) \in Nat
      BY <1>1, <2>3
    <2>5. TabState(o)
      BY <1>2, <2>1, <2>3, <2>4 DEF TabState, IsSeq
    <2>6. Len(s.tabs) >= 1
      BY <1>1 DEF WellFormed
    <2>7. o.tabs # <<>> /\ o.tabs[1] = WelcomeTab
      BY <2>3, <2>4, <2>6 DEF WellFormed
    <2>8. ASSUME NEW i \in DOMAIN o.tabs, NEW j \in DOMAIN o.tabs, o.tabs[i].id = o.tabs[j].id
          PROVE  i = j
      <3>1. \A k \in 1..Len(s.tabs) : o.tabs[k].id = s.tabs[k].id /\ s.tabs[k].id # id
        BY <1>4, <2>3, <2>4 DEF Ids
      <3>2. o.tabs[Len(s.tabs) + 1].id = id
        BY <1>2, <2>3
      <3>3. i \in 1..Len(s.tabs) \/ i = Len(s.tabs) + 1
        BY <2>4
      <3>4. j \in 1..Len(s.tabs) \/ j = Len(s.tabs) + 1
        BY <2>4
      <3>5. CASE i \in 1..Len(s.tabs) /\ j \in 1..Len(s.tabs)
        <4>1. s.tabs[i].id = s.tabs[j].id
          BY <2>8, <3>1, <3>5
        <4> QED
          BY <2>4, <3>5, <4>1 DEF WellFormed
      <3> QED
        BY <2>8, <3>1, <3>2, <3>3, <3>4, <3>5
    <2>9. o.activeId \in Ids(o)
      BY <1>2, <2>1, <2>3, <2>4 DEF Ids
    <2>10. WellFormed(o)
      BY <2>7, <2>8, <2>9 DEF WellFormed
    <2> QED
      BY <2>1, <2>3, <2>4, <2>5, <2>10 DEF o, tab
  <1> QED
    BY <1>3, <1>4

\* From s to t the sub-tab of a tab changes, and nothing else.
OnlySubTab(s, t, id) ==
  /\ t = [tabs |-> t.tabs, activeId |-> s.activeId]
  /\ IsSeq(t.tabs)
  /\ DOMAIN t.tabs = DOMAIN s.tabs
  /\ \A i \in DOMAIN s.tabs :
       \/ t.tabs[i] = s.tabs[i]
       \/ /\ s.tabs[i].id = id
          /\ t.tabs[i] = [id |-> id, leaf |-> t.tabs[i].leaf, active |-> t.tabs[i].active]

LEMMA SubTabsKeep ==
  ASSUME NEW s, TabState(s), WellFormed(s), NEW id, id # WelcomeTab.id,
         NEW t, OnlySubTab(s, t, id)
  PROVE  TabState(t) /\ WellFormed(t)
  <1> USE DEF OnlySubTab
  <1>1. PICK S : s.tabs \in Seq(S)
    BY DEF TabState, IsSeq
  <1>2. PICK T : t.tabs \in Seq(T)
    BY DEF IsSeq
  <1>3. ASSUME NEW i \in DOMAIN s.tabs
        PROVE  t.tabs[i].id = s.tabs[i].id
    <2>1. CASE t.tabs[i] = s.tabs[i]
      BY <2>1
    <2>2. CASE /\ s.tabs[i].id = id
               /\ t.tabs[i] = [id |-> id, leaf |-> t.tabs[i].leaf, active |-> t.tabs[i].active]
      <3> DEFINE x == t.tabs[i].leaf
                 y == t.tabs[i].active
      <3> HIDE DEF x, y
      <3>1. t.tabs[i] = [id |-> id, leaf |-> x, active |-> y]
        BY <2>2 DEF x, y
      <3> QED
        BY <2>2, <3>1
    <2> QED
      BY <2>1, <2>2
  <1>4. TabState(t)
    BY <1>3 DEF TabState
  <1>5. 1 \in DOMAIN s.tabs /\ t.tabs # <<>>
    BY <1>1, <1>2 DEF WellFormed
  <1>6. t.tabs[1] = WelcomeTab
    BY <1>5 DEF WellFormed
  <1>7. t.activeId = s.activeId /\ s.activeId \in Ids(s)
    BY DEF WellFormed
  <1>8. t.activeId \in Ids(t)
    BY <1>3, <1>7 DEF Ids
  <1>9. \A i, j \in DOMAIN t.tabs : t.tabs[i].id = t.tabs[j].id => i = j
    BY <1>3 DEF WellFormed
  <1> QED
    BY <1>4, <1>5, <1>6, <1>8, <1>9 DEF WellFormed

LEMMA UpdateKeeps ==
  ASSUME NEW s, TabState(s), WellFormed(s), NEW id, id # WelcomeTab.id, NEW leaf
  PROVE  /\ TabState(UpdateTab(s, id, leaf)) /\ WellFormed(UpdateTab(s, id, leaf))
         /\ Len(UpdateTab(s, id, leaf).tabs) = Len(s.tabs)
  <1> DEFINE t == UpdateTab(s, id, leaf)
  <1>1. PICK S : s.tabs \in Seq(S)
    BY DEF TabState, IsSeq
  <1>2. /\ t = [tabs |-> t.tabs, activeId |-> s.activeId]
        /\ t.tabs = [i \in DOMAIN s.tabs |->
                       IF s.tabs[i].id = id /\ s.tabs[i].leaf # leaf
                         THEN Tab(id, leaf)
                         ELSE s.tabs[i]]
    BY DEF UpdateTab, TabState
  <1> HIDE DEF t
  <1>3. DOMAIN t.tabs = DOMAIN s.tabs /\ DOMAIN s.tabs = 1..Len(s.tabs) /\ Len(s.tabs) \in Nat
    BY <1>1, <1>2
  <1>4. t.tabs \in Seq({t.tabs[i] : i \in DOMAIN s.tabs}) /\ Len(t.tabs) = Len(s.tabs)
    BY <1>2, <1>3
  <1>5. ASSUME NEW i \in DOMAIN s.tabs, t.tabs[i] # s.tabs[i]
        PROVE  /\ s.tabs[i].id = id
               /\ t.tabs[i] = [id |-> id, leaf |-> t.tabs[i].leaf, active |-> t.tabs[i].active]
    <2>1. s.tabs[i].id = id /\ t.tabs[i] = Tab(id, leaf)
      BY <1>2, <1>5
    <2> QED
      BY <2>1 DEF Tab
  <1>6. OnlySubTab(s, t, id)
    BY <1>2, <1>3, <1>4, <1>5 DEF OnlySubTab, IsSeq
  <1>7. TabState(t) /\ WellFormed(t)
    BY <1>6, SubTabsKeep
  <1> QED
    BY <1>4, <1>7 DEF t

(***************************************************************************)
(* Of a tab that is not the welcome tab the left neighbour exists.         *)
(***************************************************************************)
LEMMA CloseKeeps ==
  ASSUME NEW s, TabState(s), WellFormed(s), NEW id \in Ids(s), id # WelcomeTab.id
  PROVE  /\ TabState(CloseTab(s, id)) /\ WellFormed(CloseTab(s, id))
         /\ Position(s, id) \in 2..Len(s.tabs) /\ s.tabs[Position(s, id)].id = id
         /\ CloseTab(s, id).tabs = RemoveAt(s.tabs, Position(s, id))
         /\ CloseTab(s, id).activeId =
              IF s.activeId = id THEN s.tabs[Position(s, id) - 1].id ELSE s.activeId
  <1> DEFINE at == Position(s, id)
             rest == RemoveAt(s.tabs, at)
             t == CloseTab(s, id)
  <1>1. PICK S : s.tabs \in Seq(S)
    BY DEF TabState, IsSeq
  <1>2. at \in DOMAIN s.tabs /\ s.tabs[at].id = id
    BY PositionFacts
  <1>3. at # 1
    BY <1>2 DEF WellFormed
  <1> HIDE DEF at
  <1>4. at \in 2..Len(s.tabs) /\ DOMAIN s.tabs = 1..Len(s.tabs) /\ Len(s.tabs) \in Nat /\ at \in Nat
    BY <1>1, <1>2, <1>3
  <1>5. /\ rest \in Seq(S) /\ Len(rest) = Len(s.tabs) - 1
        /\ \A i \in 1..(Len(s.tabs) - 1) : rest[i] = IF i < at THEN s.tabs[i] ELSE s.tabs[i + 1]
    <2>1. at \in 1..Len(s.tabs)
      BY <1>4
    <2> QED
      BY <1>1, <2>1, RemoveAtFacts
  <1> HIDE DEF rest
  <1>6. /\ t = [tabs |-> t.tabs, activeId |-> t.activeId] /\ t.tabs = rest
        /\ t.activeId = IF s.activeId = id THEN rest[at - 1].id ELSE s.activeId
    BY <1>4 DEF CloseTab, at, rest
  <1> HIDE DEF t
  <1>7. at - 1 \in 1..(Len(s.tabs) - 1) /\ rest[at - 1] = s.tabs[at - 1]
    BY <1>4, <1>5
  <1>8. DOMAIN rest = 1..(Len(s.tabs) - 1)
    BY <1>5
  <1>9. \A i \in DOMAIN rest : \E j \in DOMAIN s.tabs : rest[i] = s.tabs[j]
    BY <1>4, <1>5, <1>8
  <1>10. TabState(t)
    BY <1>5, <1>6, <1>9 DEF TabState, IsSeq
  <1>11. rest # <<>> /\ rest[1] = WelcomeTab
    BY <1>4, <1>5, <1>7, <1>8 DEF WellFormed
  <1>12. ASSUME NEW i \in DOMAIN rest, NEW j \in DOMAIN rest, rest[i].id = rest[j].id
         PROVE  i = j
    <2>1. PICK k \in DOMAIN s.tabs : rest[i] = s.tabs[k] /\ k = IF i < at THEN i ELSE i + 1
      BY <1>4, <1>5, <1>8
    <2>2. PICK m \in DOMAIN s.tabs : rest[j] = s.tabs[m] /\ m = IF j < at THEN j ELSE j + 1
      BY <1>4, <1>5, <1>8
    <2>3. k = m
      BY <1>12, <2>1, <2>2 DEF WellFormed
    <2>4. i \in Nat /\ j \in Nat
      BY <1>8
    <2> QED
      BY <1>4, <2>1, <2>2, <2>3, <2>4
  <1>13. t.activeId \in Ids(t)
    <2>1. CASE s.activeId = id
      BY <1>6, <1>7, <1>8, <2>1 DEF Ids
    <2>2. CASE s.activeId # id
      <3>1. PICK j \in DOMAIN s.tabs : s.tabs[j].id = s.activeId
        BY DEF WellFormed, Ids
      <3>2. j # at
        BY <1>2, <2>2, <3>1
      <3>3. PICK i \in DOMAIN rest : rest[i] = s.tabs[j]
        <4>1. CASE j < at
          BY <1>4, <1>5, <1>8, <4>1
        <4>2. CASE j > at
          <5>1. j - 1 \in DOMAIN rest /\ (j - 1) + 1 = j /\ ~(j - 1 < at)
            BY <1>4, <1>8, <4>2
          <5> QED
            BY <1>5, <1>8, <5>1
        <4> QED
          BY <1>4, <3>2, <4>1, <4>2
      <3> QED
        BY <1>6, <2>2, <3>1, <3>3 DEF Ids
    <2> QED
      BY <2>1, <2>2
  <1>14. WellFormed(t)
    BY <1>6, <1>11, <1>12, <1>13 DEF WellFormed
  <1> QED
    BY <1>2, <1>4, <1>6, <1>7, <1>10, <1>14 DEF at, rest, t

(***************************************************************************)
(* The tree.  A node is a sequence, and so is a tab's id that is made of   *)
(* one; the id of a schema tab starts with its kind.                       *)
(***************************************************************************)
LEMMA ChildrenAreSeqs ==
  ASSUME NEW n, IsSeq(n), NEW c \in ChildrenOf(n)
  PROVE  IsSeq(c)
  <1>1. CASE n[1] = "mysql_conn"
    <2> PICK d \in Dbs : c = <<"mysql_db", n[2], d>>
      BY <1>1 DEF ChildrenOf
    <2>1. c \in Seq({"mysql_db", n[2], d})
      OBVIOUS
    <2> QED
      BY <2>1 DEF IsSeq
  <1>2. CASE n[1] = "mysql_db"
    <2> PICK t \in Tables : c = <<"mysql_table", n[2], n[3], t>>
      BY <1>2 DEF ChildrenOf
    <2>1. c \in Seq({"mysql_table", n[2], n[3], t})
      OBVIOUS
    <2> QED
      BY <2>1 DEF IsSeq
  <1>3. CASE n[1] = "mysql_table" /\ Len(n) = 4
    <2> PICK leaf \in Leaves : c = Append(n, leaf)
      BY <1>3 DEF ChildrenOf
    <2> PICK S : n \in Seq(S)
      BY DEF IsSeq
    <2>1. n \in Seq(S \cup {leaf}) /\ leaf \in S \cup {leaf}
      OBVIOUS
    <2>2. c \in Seq(S \cup {leaf})
      BY <2>1
    <2> QED
      BY <2>2 DEF IsSeq
  <1>4. CASE n[1] = "redis_conn"
    <2>1. c = <<"redis_keys_root", n[2]>>
      BY <1>4 DEF ChildrenOf
    <2>2. c \in Seq({"redis_keys_root", n[2]})
      BY <2>1
    <2> QED
      BY <2>2 DEF IsSeq
  <1> QED
    BY <1>1, <1>2, <1>3, <1>4 DEF ChildrenOf

LEMMA TreePreserves ==
  ASSUME TabsInv, UNCHANGED tabsState,
         \/ \E S \in SUBSET Roots : TreeLoaded(S)
         \/ TreeFails \/ Retry
         \/ \E n \in nodes : Expand(n)
         \/ \E n \in loads : \E S \in Answers(n) \cup {{}} : ChildrenLoaded(n, S)
  PROVE  TabsInv'
  <1>1. TabState(tabsState)' /\ WellFormed(tabsState)'
    BY DEF TabsInv, TabState, WellFormed, Ids
  <1>2. \A n \in nodes' : \/ n \in nodes \cup Roots
                          \/ \E m \in nodes : n \in ChildrenOf(m)
    BY DEF TreeLoaded, TreeFails, Retry, Expand, ChildrenLoaded, Answers
  <1>3. ASSUME NEW n \in Roots
        PROVE  IsSeq(n)
    <2>1. CASE \E c \in MysqlConns : n = <<"mysql_conn", c>>
      <3> PICK c \in MysqlConns : n = <<"mysql_conn", c>>
        BY <2>1
      <3>1. n \in Seq({"mysql_conn", c})
        OBVIOUS
      <3> QED
        BY <3>1 DEF IsSeq
    <2>2. CASE \E c \in RedisConns : n = <<"redis_conn", c>>
      <3> PICK c \in RedisConns : n = <<"redis_conn", c>>
        BY <2>2
      <3>1. n \in Seq({"redis_conn", c})
        OBVIOUS
      <3> QED
        BY <3>1 DEF IsSeq
    <2> QED
      BY <2>1, <2>2 DEF Roots
  <1>4. \A n \in nodes' : IsSeq(n)
    BY <1>2, <1>3, ChildrenAreSeqs DEF TabsInv
  <1> QED
    BY <1>1, <1>4 DEF TabsInv

(***************************************************************************)
(* What the user opens and brings up: no tab is lost.                      *)
(***************************************************************************)
NoneClosed == Len(tabsState'.tabs) >= Len(tabsState.tabs)

LEMMA ShowKeeps ==
  ASSUME NEW s, TabState(s), WellFormed(s), NEW id \in Ids(s), Show(s, id)
  PROVE  TabState(tabsState)' /\ WellFormed(tabsState)' /\ tabsState'.tabs = s.tabs
  <1>1. tabsState' = [tabs |-> s.tabs, activeId |-> id]
    BY DEF Show, TabState
  <1>2. tabsState'.tabs = s.tabs /\ tabsState'.activeId = id
    BY <1>1
  <1> QED
    BY <1>1, <1>2 DEF TabState, WellFormed, Ids

LEMMA OpenPreserves ==
  ASSUME TabsInv, UNCHANGED nodes, NEW id,
         Show(OpenOrFocusTab(tabsState, Tab(id, "none")), id)
  PROVE  TabsInv' /\ NoneClosed
  <1> DEFINE s == OpenOrFocusTab(tabsState, Tab(id, "none"))
  <1>1. /\ TabState(s) /\ WellFormed(s) /\ s.activeId = id
        /\ Len(s.tabs) >= Len(tabsState.tabs)
    BY OpenKeeps DEF TabsInv
  <1>2. Show(s, id)
    OBVIOUS
  <1> HIDE DEF s
  <1>3. id \in Ids(s)
    BY <1>1 DEF WellFormed
  <1>4. TabState(tabsState)' /\ WellFormed(tabsState)' /\ tabsState'.tabs = s.tabs
    BY <1>1, <1>2, <1>3, ShowKeeps
  <1> QED
    BY <1>1, <1>4 DEF TabsInv, NoneClosed

LEMMA SchemaTabIsNotWelcome ==
  ASSUME NEW n, IsSeq(n), IsLeafNode(n)
  PROVE  <<"mysql_schema">> \o SubSeq(n, 2, 4) # WelcomeTab.id
  <1> PICK S : n \in Seq(S)
    BY DEF IsSeq
  <1> DEFINE T == S \cup {"mysql_schema"}
             l == <<"mysql_schema">>
             r == SubSeq(n, 2, 4)
  <1>1. l \in Seq(T) /\ Len(l) = 1 /\ l[1] = "mysql_schema"
    OBVIOUS
  <1>2. n \in Seq(T) /\ Len(n) = 5
    BY DEF IsLeafNode
  <1>3. r \in Seq(T) /\ Len(r) = 3
    <2> HIDE DEF T
    <2>1. ASSUME NEW i \in 2..4
          PROVE  n[i] \in T
      <3>1. i \in 1..Len(n)
        BY <1>2
      <3> QED
        BY <1>2, <3>1, ElementOfSeq
    <2> QED
      BY <2>1, SubSeqProperties
  <1> HIDE DEF T, l, r
  <1>4. (l \o r)[1] = "mysql_schema"
    BY <1>1, <1>3, ConcatProperties
  <1>5. WelcomeTab.id[1] = "welcome"
    BY DEF WelcomeTab, Tab
  <1> QED
    BY <1>4, <1>5 DEF l, r

LEMMA LeafPreserves ==
  ASSUME TabsInv, NEW n \in nodes, SelectLeaf(n)
  PROVE  TabsInv' /\ NoneClosed
  <1> DEFINE id == <<"mysql_schema">> \o SubSeq(n, 2, 4)
             s == OpenOrFocusTab(tabsState, Tab(id, n[5]))
             t == UpdateTab(s, id, n[5])
  <1>1. IsSeq(n) /\ IsLeafNode(n) /\ tabsState' = t /\ UNCHANGED nodes
    BY DEF SelectLeaf, TabsInv, treeVars
  <1>2. id # WelcomeTab.id
    BY <1>1, SchemaTabIsNotWelcome
  <1> HIDE DEF id
  <1>3. /\ TabState(s) /\ WellFormed(s)
        /\ Len(s.tabs) >= Len(tabsState.tabs)
    BY OpenKeeps DEF TabsInv
  <1> HIDE DEF s
  <1>4. TabState(t) /\ WellFormed(t) /\ Len(t.tabs) = Len(s.tabs)
    BY <1>2, <1>3, UpdateKeeps
  <1> HIDE DEF t
  <1> QED
    BY <1>1, <1>3, <1>4 DEF TabsInv, NoneClosed

LEMMA SubTabPreserves ==
  ASSUME TabsInv, NEW k, ClickSubTab(k)
  PROVE  TabsInv' /\ NoneClosed
  <1> DEFINE p == Position(tabsState, tabsState.activeId)
             id == tabsState.activeId
  <1>1. TabState(tabsState) /\ WellFormed(tabsState)
    BY DEF TabsInv
  <1>2. p \in DOMAIN tabsState.tabs /\ tabsState.tabs[p].id = id
    BY <1>1, PositionFacts DEF WellFormed
  <1>3. id # WelcomeTab.id
    BY DEF ClickSubTab, WelcomeTab, Tab
  <1>4. UNCHANGED nodes /\ tabsState' = [tabsState EXCEPT !.tabs[p].active = k]
    BY DEF ClickSubTab, treeVars
  <1> HIDE DEF p
  <1>5. /\ tabsState' = [tabs |-> tabsState'.tabs, activeId |-> id]
        /\ tabsState'.tabs = [tabsState.tabs EXCEPT ![p] = [@ EXCEPT !.active = k]]
    BY <1>1, <1>4 DEF TabState
  <1>6. PICK S : tabsState.tabs \in Seq(S)
    BY <1>1 DEF TabState, IsSeq
  <1>7. /\ DOMAIN tabsState'.tabs = DOMAIN tabsState.tabs
        /\ tabsState'.tabs \in Seq(S \cup {tabsState'.tabs[p]})
        /\ Len(tabsState'.tabs) = Len(tabsState.tabs)
    BY <1>2, <1>5, <1>6
  <1>8. tabsState'.tabs[p] = [id |-> id, leaf |-> tabsState.tabs[p].leaf, active |-> k]
    BY <1>1, <1>2, <1>5 DEF TabState
  <1>9. \A i \in DOMAIN tabsState.tabs : i # p => tabsState'.tabs[i] = tabsState.tabs[i]
    BY <1>5
  <1>10. OnlySubTab(tabsState, tabsState', id)
    BY <1>2, <1>5, <1>7, <1>8, <1>9 DEF OnlySubTab, IsSeq
  <1> QED
    BY <1>1, <1>3, <1>4, <1>6, <1>7, <1>10, SubTabsKeep DEF TabsInv, NoneClosed

(***************************************************************************)
(* Every step keeps the invariant; the only one that closes a tab is       *)
(* OnEdit, and what it closes is not the first.                            *)
(***************************************************************************)
ClosesLeft ==
  Len(tabsState'.tabs) < Len(tabsState.tabs) =>
    \E i \in 2..Len(tabsState.tabs) :
      /\ tabsState'.tabs = RemoveAt(tabsState.tabs, i)
      /\ tabsState'.activeId = IF tabsState.activeId = tabsState.tabs[i].id
                                 THEN tabsState.tabs[i - 1].id
                                 ELSE tabsState.activeId

LEMMA NoneClosedIsEnough ==
  ASSUME TabsInv, TabsInv', NoneClosed
  PROVE  ClosesLeft
  <1>1. PICK S : tabsState.tabs \in Seq(S)
    BY DEF TabsInv, TabState, IsSeq
  <1>2. PICK T : tabsState'.tabs \in Seq(T)
    BY DEF TabsInv, TabState, IsSeq
  <1>3. Len(tabsState.tabs) \in Nat /\ Len(tabsState'.tabs) \in Nat
    BY <1>1, <1>2
  <1> QED
    BY <1>3 DEF NoneClosed, ClosesLeft

LEMMA UnchangedTabs ==
  ASSUME TabsInv, UNCHANGED <<tabsState, nodes>>
  PROVE  TabsInv' /\ ClosesLeft
  <1>1. TabsInv'
    BY DEF TabsInv, TabState, WellFormed, Ids
  <1>2. PICK S : tabsState.tabs \in Seq(S)
    BY DEF TabsInv, TabState, IsSeq
  <1>3. Len(tabsState.tabs) \in Nat /\ tabsState' = tabsState
    BY <1>2
  <1>4. NoneClosed
    BY <1>3 DEF NoneClosed
  <1> QED
    BY <1>1, <1>4, NoneClosedIsEnough

LEMMA ClickPreserves ==
  ASSUME TabsInv, NEW id \in Ids(tabsState), ClickTab(id)
  PROVE  TabsInv' /\ ClosesLeft
  <1>1. UNCHANGED nodes /\ Show(tabsState, id)
    BY DEF ClickTab, treeVars
  <1>2. TabState(tabsState)' /\ WellFormed(tabsState)' /\ tabsState'.tabs = tabsState.tabs
    BY <1>1, ShowKeeps DEF TabsInv
  <1>3. TabsInv'
    BY <1>1, <1>2 DEF TabsInv
  <1>4. PICK S : tabsState.tabs \in Seq(S)
    BY DEF TabsInv, TabState, IsSeq
  <1>5. Len(tabsState.tabs) \in Nat
    BY <1>4
  <1>6. NoneClosed
    BY <1>2, <1>5 DEF NoneClosed
  <1> QED
    BY <1>3, <1>6, NoneClosedIsEnough

LEMMA ClosePreserves ==
  ASSUME TabsInv, NEW id \in Ids(tabsState), OnEdit(id)
  PROVE  TabsInv' /\ ClosesLeft
  <1> DEFINE at == Position(tabsState, id)
  <1>1. id # WelcomeTab.id /\ UNCHANGED nodes /\ tabsState' = CloseTab(tabsState, id)
    BY DEF OnEdit, treeVars
  <1>2. /\ TabState(tabsState)' /\ WellFormed(tabsState)'
        /\ at \in 2..Len(tabsState.tabs) /\ tabsState.tabs[at].id = id
        /\ tabsState'.tabs = RemoveAt(tabsState.tabs, at)
        /\ tabsState'.activeId = IF tabsState.activeId = id THEN tabsState.tabs[at - 1].id
                                                          ELSE tabsState.activeId
    <2>1. /\ TabState(CloseTab(tabsState, id)) /\ WellFormed(CloseTab(tabsState, id))
          /\ at \in 2..Len(tabsState.tabs) /\ tabsState.tabs[at].id = id
          /\ CloseTab(tabsState, id).tabs = RemoveAt(tabsState.tabs, at)
          /\ CloseTab(tabsState, id).activeId =
               IF tabsState.activeId = id THEN tabsState.tabs[at - 1].id ELSE tabsState.activeId
      BY <1>1, CloseKeeps DEF TabsInv
    <2> HIDE DEF at
    <2> QED
      BY <1>1, <2>1 DEF TabState, WellFormed, Ids
  <1> HIDE DEF at
  <1>3. TabsInv'
    BY <1>1, <1>2 DEF TabsInv
  <1>4. ClosesLeft
    BY <1>2 DEF ClosesLeft
  <1> QED
    BY <1>3, <1>4

LEMMA StepKeepsTabs ==
  TabsInv /\ [WorkspaceNext]_workspaceVars => TabsInv' /\ [ClosesLeft]_workspaceVars
  <1> SUFFICES ASSUME TabsInv, [WorkspaceNext]_workspaceVars
               PROVE  TabsInv' /\ ClosesLeft
    OBVIOUS
  <1>1. CASE \/ \E S \in SUBSET Roots : TreeLoaded(S)
             \/ TreeFails \/ Retry
             \/ \E n \in nodes : Expand(n)
             \/ \E n \in loads : \E S \in Answers(n) \cup {{}} : ChildrenLoaded(n, S)
    <2>1. UNCHANGED tabsState
      BY <1>1 DEF TreeLoaded, TreeFails, Retry, Expand, ChildrenLoaded, tabVars
    <2>2. TabsInv'
      BY <1>1, <2>1, TreePreserves
    <2>3. PICK S : tabsState.tabs \in Seq(S)
      BY DEF TabsInv, TabState, IsSeq
    <2>4. Len(tabsState.tabs) \in Nat
      BY <2>3
    <2>5. NoneClosed
      BY <2>1, <2>4 DEF NoneClosed
    <2> QED
      BY <2>2, <2>5, NoneClosedIsEnough
  <1>2. ASSUME NEW n \in nodes, SelectLeaf(n)
        PROVE  TabsInv' /\ ClosesLeft
    BY <1>2, LeafPreserves, NoneClosedIsEnough
  <1>3. ASSUME NEW n \in nodes, SelectNode(n)
        PROVE  TabsInv' /\ ClosesLeft
    BY <1>3, OpenPreserves, NoneClosedIsEnough DEF SelectNode, treeVars
  <1>4. ASSUME NEW n \in nodes, RightClick(n)
        PROVE  TabsInv' /\ ClosesLeft
    BY <1>4, UnchangedTabs DEF RightClick, treeVars
  <1>5. ASSUME NEW k \in Keys, OpenKey(k)
        PROVE  TabsInv' /\ ClosesLeft
    BY <1>5, OpenPreserves, NoneClosedIsEnough DEF OpenKey, treeVars
  <1>6. CASE CloseMenu
    BY <1>6, UnchangedTabs DEF CloseMenu, treeVars
  <1>7. CASE OpenNewQueryTab
    BY <1>7, OpenPreserves, NoneClosedIsEnough DEF OpenNewQueryTab, treeVars
  <1>8. ASSUME NEW id \in Ids(tabsState), ClickTab(id)
        PROVE  TabsInv' /\ ClosesLeft
    BY <1>8, ClickPreserves
  <1>9. ASSUME NEW id \in Ids(tabsState), OnEdit(id)
        PROVE  TabsInv' /\ ClosesLeft
    BY <1>9, ClosePreserves
  <1>10. ASSUME NEW k, ClickSubTab(k)
         PROVE  TabsInv' /\ ClosesLeft
    BY <1>10, SubTabPreserves, NoneClosedIsEnough
  <1>11. CASE UNCHANGED workspaceVars
    BY <1>11, UnchangedTabs DEF workspaceVars, treeVars, tabVars
  <1> QED
    BY <1>1, <1>2, <1>3, <1>4, <1>5, <1>6, <1>7, <1>8, <1>9, <1>10, <1>11 DEF WorkspaceNext

LEMMA InitTabsInv == WorkspaceInit => TabsInv
  <1> SUFFICES ASSUME WorkspaceInit
               PROVE  TabsInv
    OBVIOUS
  <1>1. /\ tabsState.tabs = <<WelcomeTab>> /\ tabsState.activeId = WelcomeTab.id
        /\ tabsState = [tabs |-> tabsState.tabs, activeId |-> tabsState.activeId]
        /\ nodes = {}
    BY DEF WorkspaceInit
  <1>2. WelcomeTab = [id |-> WelcomeTab.id, leaf |-> WelcomeTab.leaf, active |-> WelcomeTab.active]
    BY DEF WelcomeTab, Tab
  <1> HIDE DEF WelcomeTab
  <1>3. <<WelcomeTab>> \in Seq({WelcomeTab}) /\ DOMAIN <<WelcomeTab>> = {1}
        /\ <<WelcomeTab>>[1] = WelcomeTab /\ <<WelcomeTab>> # <<>>
    OBVIOUS
  <1>4. /\ tabsState.tabs \in Seq({WelcomeTab}) /\ DOMAIN tabsState.tabs = {1}
        /\ tabsState.tabs[1] = WelcomeTab /\ tabsState.tabs # <<>>
    BY <1>1, <1>3
  <1>5. \A i \in DOMAIN tabsState.tabs : i = 1 /\ tabsState.tabs[i] = WelcomeTab
    BY <1>4
  <1>6. TabState(tabsState)
    <2>1. IsSeq(tabsState.tabs)
      BY <1>4 DEF IsSeq
    <2> QED
      BY <1>1, <1>2, <1>5, <2>1 DEF TabState
  <1>7. WellFormed(tabsState)
    BY <1>1, <1>4, <1>5 DEF WellFormed, Ids
  <1> QED
    BY <1>1, <1>6, <1>7 DEF TabsInv

LEMMA TabsInductive == WorkspaceSpec => []TabsInv
  <1>1. TabsInv /\ [WorkspaceNext]_workspaceVars => TabsInv'
    BY StepKeepsTabs
  <1> QED
    BY <1>1, InitTabsInv, PTL DEF WorkspaceSpec

(***************************************************************************)
(* However tabs are opened, focused, updated and closed, the welcome tab   *)
(* is first, no resource has two tabs, and one of the tabs is in front     *)
(* (state.ts:26-55, Workspace.tsx:35-38, 275-281).                         *)
(***************************************************************************)
THEOREM TabsStayWellFormed == AppSpec => []TabsWellFormed
  <1>1. TabsInv => TabsWellFormed
    BY DEF TabsInv, WellFormed, TabsWellFormed
  <1> QED
    BY <1>1, Parts, TabsInductive, PTL

(***************************************************************************)
(* A step that makes the row of tabs shorter takes one tab out of it, and  *)
(* brings up its neighbour on the left if it was in front (state.ts:40-48).*)
(***************************************************************************)
THEOREM LeftOneFirst == AppSpec => CloseGoesLeft
  <1>1. TabsInv /\ [WorkspaceNext]_workspaceVars => [ClosesLeft]_workspaceVars
    BY StepKeepsTabs
  <1>2. WorkspaceSpec => [][ClosesLeft]_workspaceVars
    BY <1>1, TabsInductive, PTL DEF WorkspaceSpec
  <1>3. WorkspaceSpec => CloseGoesLeft
    BY <1>2 DEF CloseGoesLeft, ClosesLeft
  <1> QED
    BY <1>3, Parts

(***************************************************************************)
(* Nodes and ids are short sequences.                                      *)
(***************************************************************************)
Three(b, c, d) == <<b, c, d>>
Four(a, b, c, d) == <<a, b, c, d>>
Five(a, b, c, d, x) == <<a, b, c, d, x>>
Names(n) == SubSeq(n, 2, 4)

LEMMA FourNames ==
  ASSUME NEW a, NEW b, NEW c, NEW d
  PROVE  /\ <<a>> \o Three(b, c, d) = Four(a, b, c, d)
         /\ Tail(Four(a, b, c, d)) = Three(b, c, d)
         /\ Names(Four(a, b, c, d)) = Three(b, c, d)
  <1> DEFINE T == {a, b, c, d}
             s == <<a>> \o <<b, c, d>>
             t == SubSeq(<<a, b, c, d>>, 2, 4)
  <1>0. /\ <<a>> \in Seq(T) /\ <<b, c, d>> \in Seq(T) /\ <<a, b, c, d>> \in Seq(T)
    OBVIOUS
  <1> HIDE DEF T
  <1>1. s = <<a, b, c, d>>
    <2>1. s \in Seq(T) /\ Len(s) = 4 /\ s[1] = a /\ s[2] = b /\ s[3] = c /\ s[4] = d
      BY <1>0
    <2> HIDE DEF s
    <2>2. \A i \in 1..4 : s[i] = <<a, b, c, d>>[i]
      BY <2>1
    <2> QED
      BY <1>0, <2>1, <2>2, SeqEqual
  <1>2. t = <<b, c, d>>
    <2>1. t \in Seq(T) /\ Len(t) = 3 /\ t[1] = b /\ t[2] = c /\ t[3] = d
      BY <1>0
    <2> HIDE DEF t
    <2>2. \A i \in 1..3 : t[i] = <<b, c, d>>[i]
      BY <2>1
    <2> QED
      BY <1>0, <2>1, <2>2, SeqEqual
  <1> QED
    BY <1>1, <1>2 DEF Three, Four, Names

LEMMA FiveNames ==
  ASSUME NEW a, NEW b, NEW c, NEW d, NEW x
  PROVE  /\ Append(Four(a, b, c, d), x) = Five(a, b, c, d, x)
         /\ Four(a, b, c, d) \o <<x>> = Five(a, b, c, d, x)
  <1> DEFINE T == {a, b, c, d, x}
             s == Append(<<a, b, c, d>>, x)
             t == <<a, b, c, d>> \o <<x>>
  <1>0. /\ <<a, b, c, d>> \in Seq(T) /\ <<a, b, c, d, x>> \in Seq(T)
        /\ <<x>> \in Seq(T) /\ x \in T
    OBVIOUS
  <1> HIDE DEF T
  <1>1. s = <<a, b, c, d, x>>
    <2>1. s \in Seq(T) /\ Len(s) = 5 /\ s[1] = a /\ s[2] = b /\ s[3] = c /\ s[4] = d /\ s[5] = x
      BY <1>0
    <2> HIDE DEF s
    <2>2. \A i \in 1..5 : s[i] = <<a, b, c, d, x>>[i]
      BY <2>1
    <2> QED
      BY <1>0, <2>1, <2>2, SeqEqual
  <1>2. t = <<a, b, c, d, x>>
    <2>1. t \in Seq(T) /\ Len(t) = 5 /\ t[1] = a /\ t[2] = b /\ t[3] = c /\ t[4] = d /\ t[5] = x
      BY <1>0
    <2> HIDE DEF t
    <2>2. \A i \in 1..5 : t[i] = <<a, b, c, d, x>>[i]
      BY <2>1
    <2> QED
      BY <1>0, <2>1, <2>2, SeqEqual
  <1>3. Four(a, b, c, d) = <<a, b, c, d>> /\ Five(a, b, c, d, x) = <<a, b, c, d, x>>
    BY DEF Four, Five
  <1> QED
    BY <1>1, <1>2, <1>3

LEMMA NamesOf ==
  /\ \A a, b, c, d : Names(Four(a, b, c, d)) = Three(b, c, d)
  /\ \A a, b, c, d, x : Names(Five(a, b, c, d, x)) = Three(b, c, d)
  <1>1. \A a, b, c, d : Names(Four(a, b, c, d)) = Three(b, c, d)
    BY FourNames
  <1>2. ASSUME NEW a, NEW b, NEW c, NEW d, NEW x
        PROVE  Names(Five(a, b, c, d, x)) = Three(b, c, d)
    <2> DEFINE T == {a, b, c, d, x}
               u == SubSeq(<<a, b, c, d, x>>, 2, 4)
    <2>1. <<a, b, c, d, x>> \in Seq(T) /\ <<b, c, d>> \in Seq(T)
      OBVIOUS
    <2> HIDE DEF T
    <2>2. u \in Seq(T) /\ Len(u) = 3 /\ u[1] = b /\ u[2] = c /\ u[3] = d
      BY <2>1
    <2> HIDE DEF u
    <2>3. \A i \in 1..3 : u[i] = <<b, c, d>>[i]
      BY <2>2
    <2>4. u = <<b, c, d>>
      BY <2>1, <2>2, <2>3, SeqEqual
    <2> QED
      BY <2>4 DEF Three, Five, Names, u
  <1> QED
    BY <1>1, <1>2

(***************************************************************************)
(* The tree: its inductive invariant.  Nothing is in it before it is       *)
(* shown, which is why loading it takes nothing away; the columns and the  *)
(* indexes of a table are below that table; and the menu is that of a      *)
(* table in the tree.                                                      *)
(***************************************************************************)
IsNode(n) ==
  \/ \E c : n = <<"mysql_conn", c>>
  \/ \E c, d : n = <<"mysql_db", c, d>>
  \/ \E c, d, t : n = <<"mysql_table", c, d, t>>
  \/ \E c, d, t : \E leaf \in Leaves : n = <<"mysql_table", c, d, t, leaf>>
  \/ \E r : n = <<"redis_conn", r>>
  \/ \E r : n = <<"redis_keys_root", r>>

TreeInv ==
  /\ treeStage \in {"loading", "shown", "error"}
  /\ treeStage # "shown" => nodes = {} /\ loads = {}
  /\ nodes \subseteq AllNodes
  /\ expanded \subseteq nodes
  /\ loads \subseteq nodes \ expanded
  /\ \A c, d, t : \A leaf \in Leaves :
       <<"mysql_table", c, d, t, leaf>> \in nodes => <<"mysql_table", c, d, t>> \in nodes
  /\ ctxMenu # NoTable =>
       \E c, d, t : ctxMenu = <<c, d, t>> /\ <<"mysql_table", c, d, t>> \in nodes
  /\ queries \in 0..MaxQueries

(***************************************************************************)
(* What is below a node, and that it is below nothing but a node of the    *)
(* kind the code asks for it.                                              *)
(***************************************************************************)
LEMMA ChildrenOfEach ==
  /\ \A c : ChildrenOf(<<"mysql_conn", c>>) = {<<"mysql_db", c, d>> : d \in Dbs}
  /\ \A c, d : ChildrenOf(<<"mysql_db", c, d>>) = {<<"mysql_table", c, d, t>> : t \in Tables}
  /\ \A c, d, t : ChildrenOf(<<"mysql_table", c, d, t>>)
                    = {<<"mysql_table", c, d, t, leaf>> : leaf \in Leaves}
  /\ \A c, d, t, leaf : ChildrenOf(<<"mysql_table", c, d, t, leaf>>) = {}
  /\ \A r : ChildrenOf(<<"redis_conn", r>>) = {<<"redis_keys_root", r>>}
  /\ \A r : ChildrenOf(<<"redis_keys_root", r>>) = {}
  <1>1. ASSUME NEW c PROVE ChildrenOf(<<"mysql_conn", c>>) = {<<"mysql_db", c, d>> : d \in Dbs}
    BY DEF ChildrenOf
  <1>2. ASSUME NEW c, NEW d
        PROVE  ChildrenOf(<<"mysql_db", c, d>>) = {<<"mysql_table", c, d, t>> : t \in Tables}
    BY DEF ChildrenOf
  <1>3. ASSUME NEW c, NEW d, NEW t
        PROVE  ChildrenOf(<<"mysql_table", c, d, t>>)
                 = {<<"mysql_table", c, d, t, leaf>> : leaf \in Leaves}
    <2> DEFINE n == <<"mysql_table", c, d, t>>
    <2>1. n[1] = "mysql_table" /\ Len(n) = 4
      OBVIOUS
    <2> HIDE DEF n
    <2>2. ChildrenOf(n) = {Append(n, leaf) : leaf \in Leaves}
      BY <2>1 DEF ChildrenOf
    <2>3. ASSUME NEW leaf
          PROVE  Append(n, leaf) = <<"mysql_table", c, d, t, leaf>>
      <3>1. Append(Four("mysql_table", c, d, t), leaf) = Five("mysql_table", c, d, t, leaf)
        BY FourNames, FiveNames
      <3> QED
        BY <3>1 DEF n, Four, Five
    <2> QED
      BY <2>2, <2>3 DEF n
  <1>4. ASSUME NEW c, NEW d, NEW t, NEW leaf
        PROVE  ChildrenOf(<<"mysql_table", c, d, t, leaf>>) = {}
    <2> DEFINE n == <<"mysql_table", c, d, t, leaf>>
    <2>1. n[1] = "mysql_table" /\ Len(n) = 5
      OBVIOUS
    <2> HIDE DEF n
    <2>2. ChildrenOf(n) = {}
      BY <2>1 DEF ChildrenOf
    <2> QED
      BY <2>2 DEF n
  <1>5. ASSUME NEW r PROVE ChildrenOf(<<"redis_conn", r>>) = {<<"redis_keys_root", r>>}
    BY DEF ChildrenOf
  <1>6. ASSUME NEW r PROVE ChildrenOf(<<"redis_keys_root", r>>) = {}
    BY DEF ChildrenOf
  <1> QED
    BY <1>1, <1>2, <1>3, <1>4, <1>5, <1>6

LEMMA NodesAndChildren ==
  /\ \A n \in AllNodes : IsNode(n) /\ ChildrenOf(n) \subseteq AllNodes
  /\ Roots \subseteq AllNodes
  <1> DEFINE B == Below(Roots)
             C == Below(B)
             D == Below(C)
  <1>1. \A n \in Roots : (\E c : n = <<"mysql_conn", c>>) \/ (\E r : n = <<"redis_conn", r>>)
    BY DEF Roots
  <1>2. \A n \in B : (\E c, d : n = <<"mysql_db", c, d>>) \/ (\E r : n = <<"redis_keys_root", r>>)
    BY <1>1, ChildrenOfEach DEF Below
  <1>3. \A n \in C : \E c, d, t : n = <<"mysql_table", c, d, t>>
    <2> HIDE DEF B
    <2> QED
      BY <1>2, ChildrenOfEach DEF Below
  <1>4. \A n \in D : \E c, d, t : \E leaf \in Leaves : n = <<"mysql_table", c, d, t, leaf>>
    <2> HIDE DEF C
    <2> QED
      BY <1>3, ChildrenOfEach DEF Below
  <1>5. AllNodes = Roots \cup B \cup C \cup D
    BY DEF AllNodes
  <1>6. /\ \A n \in Roots : ChildrenOf(n) \subseteq B
        /\ \A n \in B : ChildrenOf(n) \subseteq C
        /\ \A n \in C : ChildrenOf(n) \subseteq D
    BY DEF Below
  <1>7. \A n \in D : ChildrenOf(n) = {}
    BY <1>4, ChildrenOfEach
  <1> HIDE DEF B, C, D
  <1>8. ASSUME NEW n \in AllNodes
        PROVE  IsNode(n)
    BY <1>1, <1>2, <1>3, <1>4, <1>5 DEF IsNode
  <1>9. ASSUME NEW n \in AllNodes
        PROVE  ChildrenOf(n) \subseteq AllNodes
    BY <1>5, <1>6, <1>7
  <1> QED
    BY <1>5, <1>8, <1>9

\* The columns and indexes of a table are below the table and nothing else.
LEMMA LeafIsBelowTable ==
  ASSUME NEW n, IsNode(n), NEW c, NEW d, NEW t, NEW leaf \in Leaves,
         <<"mysql_table", c, d, t, leaf>> \in ChildrenOf(n)
  PROVE  n = <<"mysql_table", c, d, t>>
  <1> DEFINE x == <<"mysql_table", c, d, t, leaf>>
  <1>0. /\ x[1] = "mysql_table" /\ x[2] = c /\ x[3] = d /\ x[4] = t
        /\ x \in Seq({"mysql_table", c, d, t, leaf}) /\ Len(x) = 5
    OBVIOUS
  <1> HIDE DEF x
  <1>1. ASSUME NEW e, n = <<"mysql_conn", e>> PROVE FALSE
    <2>1. PICK y \in Dbs : x = <<"mysql_db", e, y>>
      BY <1>1, ChildrenOfEach DEF x
    <2> QED
      BY <1>0, <2>1
  <1>2. ASSUME NEW e, NEW f, n = <<"mysql_db", e, f>> PROVE FALSE
    <2>1. PICK y \in Tables : x = <<"mysql_table", e, f, y>>
      BY <1>2, ChildrenOfEach DEF x
    <2>2. Len(<<"mysql_table", e, f, y>>) = 4
      OBVIOUS
    <2> QED
      BY <1>0, <2>1, <2>2
  <1>3. ASSUME NEW e, NEW f, NEW g, n = <<"mysql_table", e, f, g>> PROVE n = <<"mysql_table", c, d, t>>
    <2>1. PICK y \in Leaves : x = <<"mysql_table", e, f, g, y>>
      BY <1>3, ChildrenOfEach DEF x
    <2>2. e = c /\ f = d /\ g = t
      BY <1>0, <2>1
    <2> QED
      BY <1>3, <2>2
  <1>4. ASSUME NEW e, NEW f, NEW g, NEW y, n = <<"mysql_table", e, f, g, y>> PROVE FALSE
    BY <1>4, ChildrenOfEach
  <1>5. ASSUME NEW r, n = <<"redis_conn", r>> PROVE FALSE
    <2>1. x = <<"redis_keys_root", r>>
      BY <1>5, ChildrenOfEach DEF x
    <2> QED
      BY <1>0, <2>1
  <1>6. ASSUME NEW r, n = <<"redis_keys_root", r>> PROVE FALSE
    BY <1>6, ChildrenOfEach
  <1> QED
    BY <1>1, <1>2, <1>3, <1>4, <1>5, <1>6 DEF IsNode

(***************************************************************************)
(* Loading the tree and what is below its nodes: nothing leaves it.        *)
(***************************************************************************)
LEMMA LoadingKeepsTree ==
  ASSUME TreeInv, (\E S \in SUBSET Roots : TreeLoaded(S)) \/ TreeFails \/ Retry
  PROVE  TreeInv' /\ nodes \subseteq nodes'
  <1> USE DEF TreeInv
  <1>1. ASSUME NEW S \in SUBSET Roots, TreeLoaded(S)
        PROVE  TreeInv' /\ nodes \subseteq nodes'
    <2>1. /\ treeStage' = "shown" /\ nodes' = S /\ expanded' = {} /\ loads' = loads
          /\ UNCHANGED <<ctxMenu, queries>> /\ nodes = {} /\ loads = {}
      BY <1>1 DEF TreeLoaded, tabVars
    <2>2. S \subseteq AllNodes
      BY NodesAndChildren
    <2>3. \A c, d, t : \A leaf \in Leaves : <<"mysql_table", c, d, t, leaf>> \notin S
      BY DEF Roots
    <2>4. ctxMenu = NoTable
      BY <2>1
    <2> QED
      BY <2>1, <2>2, <2>3, <2>4
  <1>2. CASE TreeFails
    BY <1>2 DEF TreeFails, tabVars
  <1>3. CASE Retry
    BY <1>3 DEF Retry, tabVars
  <1> QED
    BY <1>1, <1>2, <1>3

LEMMA GrowingKeepsTree ==
  ASSUME TreeInv, treeStage = "shown", NEW n \in nodes, NEW S \in SUBSET ChildrenOf(n),
         nodes' = nodes \cup S, expanded' = expanded \cup {n},
         loads' = loads \ {n}, UNCHANGED <<treeStage, ctxMenu, queries>>
  PROVE  TreeInv' /\ nodes \subseteq nodes'
  <1> USE DEF TreeInv
  <1>1. n \in AllNodes /\ IsNode(n) /\ ChildrenOf(n) \subseteq AllNodes
    BY NodesAndChildren
  <1>2. nodes' \subseteq AllNodes
    BY <1>1
  <1>3. expanded' \subseteq nodes' /\ loads' \subseteq nodes' \ expanded'
    OBVIOUS
  <1>4. ASSUME NEW c, NEW d, NEW t, NEW leaf \in Leaves,
               <<"mysql_table", c, d, t, leaf>> \in nodes'
        PROVE  <<"mysql_table", c, d, t>> \in nodes'
    <2> DEFINE x == <<"mysql_table", c, d, t, leaf>>
               y == <<"mysql_table", c, d, t>>
    <2>1. x \in nodes => y \in nodes
      OBVIOUS
    <2>2. x \in ChildrenOf(n) => n = y
      BY <1>1, LeafIsBelowTable
    <2>3. x \in nodes'
      BY <1>4
    <2> HIDE DEF x, y
    <2>4. y \in nodes'
      BY <2>1, <2>2, <2>3
    <2> QED
      BY <2>4 DEF y
  <1>5. ctxMenu' # NoTable =>
          \E c, d, t : ctxMenu' = <<c, d, t>> /\ <<"mysql_table", c, d, t>> \in nodes'
    <2> SUFFICES ASSUME ctxMenu # NoTable
                 PROVE  \E c, d, t : ctxMenu' = <<c, d, t>> /\ <<"mysql_table", c, d, t>> \in nodes'
      OBVIOUS
    <2>1. PICK c, d, t : ctxMenu = <<c, d, t>> /\ <<"mysql_table", c, d, t>> \in nodes
      OBVIOUS
    <2>2. ctxMenu' = <<c, d, t>> /\ <<"mysql_table", c, d, t>> \in nodes'
      BY <2>1
    <2> QED
      BY <2>2
  <1> QED
    BY <1>2, <1>3, <1>4, <1>5

LEMMA ExpandingKeepsTree ==
  ASSUME TreeInv,
         \/ \E n \in nodes : Expand(n)
         \/ \E n \in loads : \E S \in Answers(n) \cup {{}} : ChildrenLoaded(n, S)
  PROVE  TreeInv' /\ nodes \subseteq nodes'
  <1>1. ASSUME NEW n \in nodes, Expand(n), n[1] = "redis_conn"
        PROVE  TreeInv' /\ nodes \subseteq nodes'
    <2>1. /\ nodes' = nodes \cup ChildrenOf(n) /\ expanded' = expanded \cup {n}
          /\ UNCHANGED <<loads, treeStage, ctxMenu, queries>> /\ n \notin loads
      BY <1>1 DEF Expand, tabVars
    <2>2. loads' = loads \ {n} /\ treeStage = "shown"
      BY <2>1 DEF TreeInv
    <2> QED
      BY <2>1, <2>2, GrowingKeepsTree
  <1>2. ASSUME NEW n \in nodes, Expand(n), n[1] # "redis_conn"
        PROVE  TreeInv' /\ nodes \subseteq nodes'
    <2>1. /\ loads' = loads \cup {n} /\ n \in nodes \ expanded
          /\ UNCHANGED <<nodes, expanded, treeStage, ctxMenu, queries>>
      BY <1>2 DEF Expand, tabVars
    <2>2. loads' \subseteq nodes' \ expanded'
      BY <2>1 DEF TreeInv
    <2>3. treeStage' = "shown"
      BY <2>1 DEF TreeInv
    <2> QED
      BY <2>1, <2>2, <2>3 DEF TreeInv
  <1>3. ASSUME NEW n \in loads, NEW S \in Answers(n) \cup {{}}, ChildrenLoaded(n, S)
        PROVE  TreeInv' /\ nodes \subseteq nodes'
    <2>1. S \in SUBSET ChildrenOf(n)
      BY DEF Answers
    <2>2. n \in nodes /\ treeStage = "shown"
      BY DEF TreeInv
    <2>3. /\ nodes' = nodes \cup S /\ expanded' = expanded \cup {n}
          /\ loads' = loads \ {n} /\ UNCHANGED <<treeStage, ctxMenu, queries>>
      BY <1>3, <2>2 DEF ChildrenLoaded, tabVars
    <2> QED
      BY <2>1, <2>2, <2>3, GrowingKeepsTree
  <1> QED
    BY <1>1, <1>2, <1>3

(***************************************************************************)
(* The menu.                                                               *)
(***************************************************************************)
LEMMA MenuKeepsTree ==
  ASSUME TreeInv, (\E n \in nodes : RightClick(n)) \/ CloseMenu \/ OpenNewQueryTab
  PROVE  TreeInv' /\ nodes \subseteq nodes'
  <1> USE DEF TreeInv
  <1>1. ASSUME NEW n \in nodes, RightClick(n)
        PROVE  TreeInv' /\ nodes \subseteq nodes'
    <2>1. UNCHANGED <<treeVars, queries>> /\ ctxMenu' = Tail(n) /\ IsTable(n)
      BY <1>1 DEF RightClick
    <2>2. IsNode(n)
      BY NodesAndChildren
    <2>3. PICK c, d, t : n = <<"mysql_table", c, d, t>>
      <3>1. \A c, d : <<"mysql_db", c, d>>[1] = "mysql_db"
        OBVIOUS
      <3>2. \A c, d, t, leaf : Len(<<"mysql_table", c, d, t, leaf>>) = 5
        OBVIOUS
      <3> QED
        BY <2>1, <2>2, <3>1, <3>2 DEF IsNode, IsTable
    <2>4. ctxMenu' = <<c, d, t>> /\ <<"mysql_table", c, d, t>> \in nodes
      BY <2>1, <2>3, FourNames, FiveNames DEF Three, Four
    <2> QED
      BY <2>1, <2>4 DEF treeVars
  <1>2. CASE CloseMenu
    BY <1>2 DEF CloseMenu, treeVars
  <1>3. CASE OpenNewQueryTab
    BY <1>3, TabBoundsAssumption DEF OpenNewQueryTab, treeVars
  <1> QED
    BY <1>1, <1>2, <1>3

LEMMA StepKeepsTree ==
  TreeInv /\ [WorkspaceNext]_workspaceVars => TreeInv' /\ nodes \subseteq nodes'
  <1> SUFFICES ASSUME TreeInv, [WorkspaceNext]_workspaceVars
               PROVE  TreeInv' /\ nodes \subseteq nodes'
    OBVIOUS
  <1>1. CASE UNCHANGED <<treeVars, ctxMenu, queries>>
    BY <1>1 DEF TreeInv, treeVars
  <1>2. ASSUME NEW n \in nodes, SelectLeaf(n) \/ SelectNode(n)
        PROVE  UNCHANGED <<treeVars, ctxMenu, queries>>
    BY <1>2 DEF SelectLeaf, SelectNode
  <1>3. ASSUME NEW k, OpenKey(k) \/ ClickSubTab(k) \/ ClickTab(k) \/ OnEdit(k)
        PROVE  UNCHANGED <<treeVars, ctxMenu, queries>>
    BY <1>3 DEF OpenKey, ClickSubTab, ClickTab, OnEdit
  <1>4. CASE UNCHANGED workspaceVars
    BY <1>1, <1>4 DEF workspaceVars, treeVars, tabVars
  <1> QED
    BY <1>1, <1>2, <1>3, <1>4, LoadingKeepsTree, ExpandingKeepsTree, MenuKeepsTree
    DEF WorkspaceNext

(***************************************************************************)
(* The tabs: what is known of the id and the leaf of each, with the tree N.*)
(***************************************************************************)
InTree(N, id) ==
  \/ id \in N
  \/ \E n \in N : ~IsLeafNode(n) /\ id = TabOf(n)
  \/ id[1] \in {"mysql_query", "mysql_schema"} /\ <<"mysql_table">> \o SubSeq(id, 2, 4) \in N
  \/ id[1] = "redis" /\ <<"redis_keys_root", id[2]>> \in N

Known(N, id, leaf) ==
  /\ leaf \in Leaves \cup {"none"}
  /\ leaf # "none" => Len(id) = 4
  /\ id = WelcomeTab.id \/ InTree(N, id)

KnownInv ==
  \A i \in DOMAIN tabsState.tabs : Known(nodes, tabsState.tabs[i].id, tabsState.tabs[i].leaf)

\* What is wanted is this tab, and it shows what it is wanted for.
ShowsWanted(tab) ==
  \/ wanted \in {tab.id, Append(tab.id, tab.active)}
  \/ tab.id \in turned /\ wanted = Append(tab.id, tab.leaf)

\* A schema tab shows what it was told, or its sub-tab was turned.
TurnedInv ==
  \A i \in DOMAIN tabsState.tabs :
    tabsState.tabs[i].active # tabsState.tabs[i].leaf => tabsState.tabs[i].id \in turned

FrontInv ==
  /\ TurnedInv
  /\ wanted # Nobody =>
       \A i \in DOMAIN tabsState.tabs :
         tabsState.tabs[i].id = tabsState.activeId => ShowsWanted(tabsState.tabs[i])

LEMMA KnownGrows ==
  ASSUME NEW N, NEW M, N \subseteq M, NEW id, NEW leaf, Known(N, id, leaf)
  PROVE  Known(M, id, leaf)
  BY DEF Known, InTree

LEMMA WelcomeIsKnown == \A N : Known(N, WelcomeTab.id, "none")
  BY DEF Known

\* From s to t no tab is new but that of id, which shows leaf.
SameTab(x, y) == x.id = y.id /\ x.leaf = y.leaf /\ x.active = y.active

NoNewTab(s, t, id, leaf) ==
  \A i \in DOMAIN t.tabs :
    \/ t.tabs[i].id = id /\ t.tabs[i].leaf = leaf /\ t.tabs[i].active = leaf
    \/ \E j \in DOMAIN s.tabs : SameTab(t.tabs[i], s.tabs[j])

LEMMA NoNewTabKnown ==
  ASSUME KnownInv, nodes \subseteq nodes', NEW id, NEW leaf, Known(nodes, id, leaf),
         NoNewTab(tabsState, tabsState', id, leaf)
  PROVE  KnownInv'
  <1> SUFFICES ASSUME NEW i \in DOMAIN tabsState'.tabs
               PROVE  Known(nodes', tabsState'.tabs[i].id, tabsState'.tabs[i].leaf)
    BY DEF KnownInv, Known, InTree
  <1>1. CASE tabsState'.tabs[i].id = id /\ tabsState'.tabs[i].leaf = leaf
    BY <1>1, KnownGrows
  <1>2. ASSUME NEW j \in DOMAIN tabsState.tabs,
               tabsState'.tabs[i].id = tabsState.tabs[j].id,
               tabsState'.tabs[i].leaf = tabsState.tabs[j].leaf
        PROVE  Known(nodes', tabsState'.tabs[i].id, tabsState'.tabs[i].leaf)
    <2>1. Known(nodes, tabsState.tabs[j].id, tabsState.tabs[j].leaf)
      BY DEF KnownInv
    <2> QED
      BY <1>2, <2>1, KnownGrows
  <1> QED
    BY <1>1, <1>2 DEF NoNewTab, SameTab

LEMMA NoNewTabTurned ==
  ASSUME TurnedInv, turned \subseteq turned', NEW id, NEW leaf,
         NoNewTab(tabsState, tabsState', id, leaf)
  PROVE  TurnedInv'
  BY DEF TurnedInv, NoNewTab, SameTab

LEMMA OpenAddsOne ==
  ASSUME NEW s, TabState(s), NEW id, NEW leaf
  PROVE  NoNewTab(s, OpenOrFocusTab(s, Tab(id, leaf)), id, leaf)
  <1> DEFINE tab == Tab(id, leaf)
             o == OpenOrFocusTab(s, tab)
  <1>1. PICK S : s.tabs \in Seq(S)
    BY DEF TabState, IsSeq
  <1>2. tab.id = id /\ tab.leaf = leaf /\ tab.active = leaf
    BY DEF Tab
  <1>3. o.tabs = IF id \in Ids(s) THEN s.tabs ELSE Append(s.tabs, tab)
    BY <1>2 DEF OpenOrFocusTab
  <1> HIDE DEF o, tab
  <1>4. CASE o.tabs = s.tabs
    BY <1>4 DEF NoNewTab, SameTab, o, tab
  <1>5. CASE o.tabs = Append(s.tabs, tab)
    <2>1. s.tabs \in Seq(S \cup {tab}) /\ tab \in S \cup {tab}
      BY <1>1
    <2>2. /\ DOMAIN o.tabs = 1..(Len(s.tabs) + 1) /\ DOMAIN s.tabs = 1..Len(s.tabs)
          /\ Len(s.tabs) \in Nat
          /\ o.tabs[Len(s.tabs) + 1] = tab
          /\ \A i \in 1..Len(s.tabs) : o.tabs[i] = s.tabs[i]
      BY <1>5, <2>1
    <2>3. \A i \in DOMAIN o.tabs : i \in 1..Len(s.tabs) \/ i = Len(s.tabs) + 1
      BY <2>2
    <2>4. NoNewTab(s, o, id, leaf)
      BY <1>2, <2>2, <2>3 DEF NoNewTab, SameTab
    <2> QED
      BY <2>4 DEF o, tab
  <1> QED
    BY <1>3, <1>4, <1>5

(***************************************************************************)
(* The tabs of nodes, keys and queries that are opened or brought up.      *)
(***************************************************************************)
LEMMA ShowKeepsKnown ==
  ASSUME TabsInv, KnownInv, FrontInv, nodes \subseteq nodes', NEW id, Known(nodes, id, "none"),
         Show(OpenOrFocusTab(tabsState, Tab(id, "none")), id)
  PROVE  KnownInv' /\ FrontInv'
  <1> DEFINE s == OpenOrFocusTab(tabsState, Tab(id, "none"))
  <1>1. NoNewTab(tabsState, s, id, "none")
    BY OpenAddsOne DEF TabsInv
  <1>2. s = [tabs |-> s.tabs, activeId |-> s.activeId]
    BY DEF OpenOrFocusTab
  <1>3. Show(s, id)
    OBVIOUS
  <1> HIDE DEF s
  <1>4. tabsState' = [tabs |-> s.tabs, activeId |-> id] /\ wanted' = id /\ turned' = turned
    BY <1>2, <1>3 DEF Show
  <1>5. tabsState'.tabs = s.tabs /\ tabsState'.activeId = wanted'
    BY <1>4
  <1>6. NoNewTab(tabsState, tabsState', id, "none")
    BY <1>1, <1>5 DEF NoNewTab
  <1>7. KnownInv'
    BY <1>6, NoNewTabKnown
  <1>8. TurnedInv'
    BY <1>4, <1>6, NoNewTabTurned DEF FrontInv
  <1> QED
    BY <1>5, <1>7, <1>8 DEF FrontInv, ShowsWanted

LEMMA NodeOpens ==
  ASSUME TreeInv, TabsInv, KnownInv, FrontInv, NEW n \in nodes, SelectNode(n)
  PROVE  KnownInv' /\ FrontInv'
  <1>1. InTree(nodes, TabOf(n))
    BY DEF SelectNode, InTree
  <1>2. Known(nodes, TabOf(n), "none")
    BY <1>1 DEF Known
  <1>3. nodes \subseteq nodes' /\ Show(OpenOrFocusTab(tabsState, Tab(TabOf(n), "none")), TabOf(n))
    BY DEF SelectNode, treeVars
  <1> QED
    BY <1>2, <1>3, ShowKeepsKnown

\* In front of the keys of a connection is the tab that its node opened.
LEMMA KeysTabHasRoot ==
  ASSUME TreeInv, TabsInv, KnownInv, tabsState.activeId[1] = "redis_keys"
  PROVE  <<"redis_keys_root", tabsState.activeId[2]>> \in nodes
  <1> DEFINE id == tabsState.activeId
  <1>1. PICK i \in DOMAIN tabsState.tabs : tabsState.tabs[i].id = id
    BY DEF TabsInv, WellFormed, Ids
  <1>2. Known(nodes, id, tabsState.tabs[i].leaf)
    BY <1>1 DEF KnownInv
  <1>3. id # WelcomeTab.id /\ id[1] = "redis_keys"
    BY DEF WelcomeTab, Tab
  <1> HIDE DEF id
  <1>4. \A n \in nodes : IsNode(n)
    BY NodesAndChildren DEF TreeInv
  <1>5. ASSUME id \in nodes PROVE FALSE
    BY <1>3, <1>4, <1>5 DEF IsNode
  <1>6. ASSUME NEW n \in nodes, id = TabOf(n)
        PROVE  <<"redis_keys_root", id[2]>> \in nodes
    <2>1. ASSUME NEW c, NEW d, NEW t, n = <<"mysql_table", c, d, t>> PROVE FALSE
      <3>1. IsTable(n) /\ Tail(n) = <<c, d, t>>
        BY <2>1, FourNames, FiveNames DEF IsTable, Three, Four
      <3>2. <<"mysql_data">> \o Three(c, d, t) = Four("mysql_data", c, d, t)
        BY FourNames, FiveNames
      <3>3. TabOf(n) = <<"mysql_data">> \o Tail(n)
        BY <3>1 DEF TabOf, IsTable
      <3>4. TabOf(n) = <<"mysql_data", c, d, t>>
        BY <3>1, <3>2, <3>3 DEF Three, Four
      <3> QED
        BY <1>3, <1>6, <3>4
    <2>2. ASSUME ~\E c, d, t : n = <<"mysql_table", c, d, t>>,
                 ~\E r : n = <<"redis_keys_root", r>>
          PROVE  FALSE
      <3>1. n[1] # "redis_keys_root" /\ ~IsTable(n)
        <4>1. \A c, d, t, leaf : Len(<<"mysql_table", c, d, t, leaf>>) = 5
          OBVIOUS
        <4> QED
          BY <1>4, <2>2, <4>1 DEF IsNode, IsTable
      <3>2. TabOf(n) = n
        BY <3>1 DEF TabOf, IsTable
      <3> QED
        BY <1>5, <1>6, <3>2
    <2>3. PICK r : n = <<"redis_keys_root", r>>
      BY <2>1, <2>2
    <2>4. TabOf(n) = <<"redis_keys", r>>
      BY <2>3 DEF TabOf, IsTable
    <2>5. id[2] = r
      BY <1>6, <2>4
    <2> QED
      BY <2>3, <2>5
  <1> QED
    BY <1>2, <1>3, <1>5, <1>6 DEF Known, InTree, id

LEMMA KeyOpens ==
  ASSUME TreeInv, TabsInv, KnownInv, FrontInv, NEW k, OpenKey(k)
  PROVE  KnownInv' /\ FrontInv'
  <1> DEFINE id == <<"redis", tabsState.activeId[2], k>>
  <1>1. id[1] = "redis" /\ id[2] = tabsState.activeId[2]
    OBVIOUS
  <1>2. <<"redis_keys_root", tabsState.activeId[2]>> \in nodes
    BY KeysTabHasRoot DEF OpenKey
  <1>3. nodes \subseteq nodes' /\ Show(OpenOrFocusTab(tabsState, Tab(id, "none")), id)
    BY DEF OpenKey, treeVars
  <1> HIDE DEF id
  <1>4. Known(nodes, id, "none")
    BY <1>1, <1>2 DEF Known, InTree
  <1> QED
    BY <1>3, <1>4, ShowKeepsKnown

LEMMA QueryOpens ==
  ASSUME TreeInv, TabsInv, KnownInv, FrontInv, OpenNewQueryTab
  PROVE  KnownInv' /\ FrontInv'
  <1> DEFINE id == <<"mysql_query">> \o ctxMenu \o <<queries>>
  <1>1. PICK c, d, t : ctxMenu = <<c, d, t>> /\ <<"mysql_table", c, d, t>> \in nodes
    BY DEF OpenNewQueryTab, TreeInv
  <1>2. id = <<"mysql_query", c, d, t, queries>>
    <2>1. <<"mysql_query">> \o ctxMenu = Four("mysql_query", c, d, t)
      BY <1>1, FourNames, FiveNames DEF Three
    <2>2. Four("mysql_query", c, d, t) \o <<queries>> = Five("mysql_query", c, d, t, queries)
      BY FourNames, FiveNames
    <2> QED
      BY <2>1, <2>2 DEF Five
  <1>3. nodes \subseteq nodes' /\ Show(OpenOrFocusTab(tabsState, Tab(id, "none")), id)
    BY DEF OpenNewQueryTab, treeVars
  <1> HIDE DEF id
  <1>4. id[1] = "mysql_query" /\ <<"mysql_table">> \o SubSeq(id, 2, 4) \in nodes
    <2>1. SubSeq(id, 2, 4) = Three(c, d, t)
      <3>1. Names(Five("mysql_query", c, d, t, queries)) = Three(c, d, t)
        BY NamesOf
      <3> QED
        BY <1>2, <3>1 DEF Five, Names
    <2>2. <<"mysql_table">> \o Three(c, d, t) = Four("mysql_table", c, d, t)
      BY FourNames, FiveNames
    <2> QED
      BY <1>1, <1>2, <2>1, <2>2 DEF Four
  <1>5. Known(nodes, id, "none")
    BY <1>4 DEF Known, InTree
  <1> QED
    BY <1>3, <1>5, ShowKeepsKnown

(***************************************************************************)
(* The columns or the indexes of a table: its schema tab, new or not, is   *)
(* told which.                                                             *)
(***************************************************************************)
LEMMA UpdateTells ==
  ASSUME NEW s, TabState(s), NEW id, NEW leaf
  PROVE  /\ NoNewTab(s, UpdateTab(s, id, leaf), id, leaf)
         /\ UpdateTab(s, id, leaf).activeId = s.activeId
         /\ \A i \in DOMAIN UpdateTab(s, id, leaf).tabs :
              UpdateTab(s, id, leaf).tabs[i].id = id => UpdateTab(s, id, leaf).tabs[i].leaf = leaf
  <1> DEFINE t == UpdateTab(s, id, leaf)
  <1>1. /\ t.activeId = s.activeId
        /\ t.tabs = [i \in DOMAIN s.tabs |->
                       IF s.tabs[i].id = id /\ s.tabs[i].leaf # leaf
                         THEN Tab(id, leaf)
                         ELSE s.tabs[i]]
    BY DEF UpdateTab, TabState
  <1> HIDE DEF t
  <1>2. Tab(id, leaf).id = id /\ Tab(id, leaf).leaf = leaf /\ Tab(id, leaf).active = leaf
    BY DEF Tab
  <1>3. DOMAIN t.tabs = DOMAIN s.tabs
    BY <1>1
  <1>4. ASSUME NEW i \in DOMAIN s.tabs
        PROVE  \/ t.tabs[i].id = id /\ t.tabs[i].leaf = leaf /\ t.tabs[i].active = leaf
               \/ ~(s.tabs[i].id = id /\ s.tabs[i].leaf # leaf) /\ t.tabs[i] = s.tabs[i]
    BY <1>1, <1>2
  <1>5. NoNewTab(s, t, id, leaf)
    BY <1>3, <1>4 DEF NoNewTab, SameTab
  <1>6. \A i \in DOMAIN t.tabs : t.tabs[i].id = id => t.tabs[i].leaf = leaf
    BY <1>3, <1>4
  <1> QED
    BY <1>1, <1>5, <1>6 DEF t

LEMMA LeafOpens ==
  ASSUME TreeInv, TabsInv, KnownInv, FrontInv, NEW n \in nodes, SelectLeaf(n)
  PROVE  KnownInv' /\ FrontInv'
  <1> DEFINE id == <<"mysql_schema">> \o SubSeq(n, 2, 4)
             s == OpenOrFocusTab(tabsState, Tab(id, n[5]))
             t == UpdateTab(s, id, n[5])
  <1>1. PICK c, d, tb : \E leaf \in Leaves : n = <<"mysql_table", c, d, tb, leaf>>
    <2>1. IsNode(n) /\ n[1] = "mysql_table" /\ Len(n) = 5
      BY NodesAndChildren DEF TreeInv, SelectLeaf, IsLeafNode
    <2>2. \A x, y, z : Len(<<"mysql_table", x, y, z>>) = 4
      OBVIOUS
    <2> QED
      BY <2>1, <2>2 DEF IsNode
  <1>2. PICK leaf \in Leaves : n = <<"mysql_table", c, d, tb, leaf>>
    BY <1>1
  <1>3. n[5] = leaf
    BY <1>2
  <1>4. id = <<"mysql_schema", c, d, tb>>
    <2>1. /\ Names(Five("mysql_table", c, d, tb, leaf)) = Three(c, d, tb)
          /\ <<"mysql_schema">> \o Three(c, d, tb) = Four("mysql_schema", c, d, tb)
      BY NamesOf, FourNames
    <2>2. SubSeq(n, 2, 4) = Three(c, d, tb)
      BY <1>2, <2>1 DEF Five, Names
    <2> QED
      BY <2>1, <2>2 DEF Four
  <1>5. /\ tabsState' = t /\ wanted' = Append(id, leaf) /\ nodes \subseteq nodes'
        /\ turned' = IF Told(tabsState, id, leaf) THEN turned ELSE turned \ {id}
    BY <1>3 DEF SelectLeaf, treeVars
  <1> HIDE DEF id
  <1>6. Known(nodes, id, leaf)
    <2>1. SubSeq(id, 2, 4) = Three(c, d, tb)
      <3>1. Names(Four("mysql_schema", c, d, tb)) = Three(c, d, tb)
        BY NamesOf
      <3> QED
        BY <1>4, <3>1 DEF Four, Names
    <2>2. <<"mysql_table">> \o Three(c, d, tb) = Four("mysql_table", c, d, tb)
      BY FourNames, FiveNames
    <2>3. <<"mysql_table">> \o SubSeq(id, 2, 4) \in nodes
      BY <1>2, <2>1, <2>2 DEF Four, TreeInv
    <2>4. id[1] = "mysql_schema" /\ Len(id) = 4
      BY <1>4
    <2> QED
      BY <2>3, <2>4 DEF Known, InTree
  <1>7. NoNewTab(tabsState, s, id, leaf) /\ TabState(s) /\ s.activeId = id
    BY <1>3, OpenAddsOne, OpenKeeps DEF TabsInv
  <1> HIDE DEF s
  <1>8. /\ NoNewTab(s, t, id, leaf) /\ t.activeId = id
        /\ \A i \in DOMAIN t.tabs : t.tabs[i].id = id => t.tabs[i].leaf = leaf
    BY <1>3, <1>7, UpdateTells
  <1> HIDE DEF t
  <1>9. NoNewTab(tabsState, tabsState', id, leaf)
    BY <1>5, <1>7, <1>8 DEF NoNewTab, SameTab
  <1>10. KnownInv'
    BY <1>5, <1>6, <1>9, NoNewTabKnown
  <1>11. ASSUME NEW i \in DOMAIN tabsState'.tabs
         PROVE  LET tab == tabsState'.tabs[i]
                IN  /\ tab.active # tab.leaf => tab.id \in turned'
                    /\ tab.id = id => tab.leaf = leaf
    <2> DEFINE tab == tabsState'.tabs[i]
    <2>1. tab.id = id => tab.leaf = leaf
      BY <1>5, <1>8
    <2>2. ASSUME NEW j \in DOMAIN tabsState.tabs, SameTab(tab, tabsState.tabs[j]),
                 tab.active # tab.leaf
          PROVE  tab.id \in turned'
      <3>1. tab.id \in turned
        BY <2>2 DEF SameTab, FrontInv, TurnedInv
      <3>2. tab.id = id => Told(tabsState, id, leaf)
        BY <2>1, <2>2 DEF SameTab, Told
      <3> HIDE DEF tab
      <3> QED
        BY <1>5, <3>1, <3>2
    <2>3. \/ tab.active = tab.leaf
          \/ \E j \in DOMAIN tabsState.tabs : SameTab(tab, tabsState.tabs[j])
      BY <1>9 DEF NoNewTab
    <2> HIDE DEF tab
    <2>4. tab.active # tab.leaf => tab.id \in turned'
      BY <2>2, <2>3
    <2> QED
      BY <2>1, <2>4 DEF tab
  <1>12. TurnedInv'
    BY <1>11 DEF TurnedInv
  <1>13. ASSUME NEW i \in DOMAIN tabsState'.tabs, tabsState'.tabs[i].id = id
         PROVE  ShowsWanted(tabsState.tabs[i])'
    BY <1>5, <1>11, <1>13 DEF ShowsWanted
  <1>14. FrontInv'
    BY <1>5, <1>8, <1>12, <1>13 DEF FrontInv
  <1> QED
    BY <1>10, <1>14

(***************************************************************************)
(* Tabs that are clicked, closed, or change their sub-tab.                 *)
(***************************************************************************)
LEMMA ClickKeepsKnown ==
  ASSUME TabsInv, KnownInv, FrontInv, NEW id \in Ids(tabsState), ClickTab(id)
  PROVE  KnownInv' /\ FrontInv'
  <1>1. tabsState' = [tabs |-> tabsState.tabs, activeId |-> id] /\ wanted' = id
        /\ turned' = turned
    BY DEF ClickTab, Show, TabsInv, TabState
  <1>2. tabsState'.tabs = tabsState.tabs /\ tabsState'.activeId = wanted'
    BY <1>1
  <1>3. nodes \subseteq nodes'
    BY DEF ClickTab, treeVars
  <1>4. NoNewTab(tabsState, tabsState', WelcomeTab.id, "none")
    BY <1>2 DEF NoNewTab, SameTab
  <1>5. KnownInv'
    BY <1>3, <1>4, WelcomeIsKnown, NoNewTabKnown
  <1>6. TurnedInv'
    BY <1>1, <1>4, NoNewTabTurned DEF FrontInv
  <1> QED
    BY <1>2, <1>5, <1>6 DEF FrontInv, ShowsWanted

LEMMA CloseKeepsKnown ==
  ASSUME TabsInv, KnownInv, FrontInv, NEW id \in Ids(tabsState), OnEdit(id)
  PROVE  KnownInv' /\ FrontInv'
  <1> DEFINE at == Position(tabsState, id)
  <1>1. id # WelcomeTab.id /\ tabsState' = CloseTab(tabsState, id) /\ wanted' = Nobody
        /\ nodes \subseteq nodes' /\ turned' = turned
    BY DEF OnEdit, treeVars
  <1>2. at \in 2..Len(tabsState.tabs) /\ tabsState'.tabs = RemoveAt(tabsState.tabs, at)
    BY <1>1, CloseKeeps DEF TabsInv
  <1> HIDE DEF at
  <1>3. PICK S : tabsState.tabs \in Seq(S)
    BY DEF TabsInv, TabState, IsSeq
  <1>4. at \in 1..Len(tabsState.tabs) /\ Len(tabsState.tabs) \in Nat
        /\ DOMAIN tabsState.tabs = 1..Len(tabsState.tabs)
    BY <1>2, <1>3
  <1>5. /\ tabsState'.tabs \in Seq(S) /\ Len(tabsState'.tabs) = Len(tabsState.tabs) - 1
        /\ \A i \in 1..(Len(tabsState.tabs) - 1) :
             tabsState'.tabs[i] = IF i < at THEN tabsState.tabs[i] ELSE tabsState.tabs[i + 1]
    BY <1>2, <1>3, <1>4, RemoveAtFacts
  <1>6. \A i \in DOMAIN tabsState'.tabs : \E j \in DOMAIN tabsState.tabs :
          tabsState'.tabs[i] = tabsState.tabs[j]
    <2>1. DOMAIN tabsState'.tabs = 1..(Len(tabsState.tabs) - 1)
      BY <1>4, <1>5
    <2>2. \A i \in 1..(Len(tabsState.tabs) - 1) :
            i \in 1..Len(tabsState.tabs) /\ i + 1 \in 1..Len(tabsState.tabs)
      BY <1>4
    <2> QED
      BY <1>4, <1>5, <2>1, <2>2
  <1>7. NoNewTab(tabsState, tabsState', WelcomeTab.id, "none")
    BY <1>6 DEF NoNewTab, SameTab
  <1>8. KnownInv'
    BY <1>1, <1>7, WelcomeIsKnown, NoNewTabKnown
  <1>9. TurnedInv'
    BY <1>1, <1>7, NoNewTabTurned DEF FrontInv
  <1> QED
    BY <1>1, <1>8, <1>9 DEF FrontInv

LEMMA SubTabKeepsKnown ==
  ASSUME TabsInv, KnownInv, FrontInv, NEW k, ClickSubTab(k)
  PROVE  KnownInv' /\ FrontInv'
  <1> DEFINE id == tabsState.activeId
             p == Position(tabsState, id)
  <1>1. /\ tabsState' = [tabsState EXCEPT !.tabs[p].active = k]
        /\ wanted' = Append(id, k) /\ turned' = turned \cup {id} /\ nodes \subseteq nodes'
    BY DEF ClickSubTab, treeVars
  <1>2. p \in DOMAIN tabsState.tabs /\ tabsState.tabs[p].id = id
    BY PositionFacts DEF TabsInv, WellFormed
  <1> HIDE DEF p
  <1>3. /\ tabsState'.activeId = id
        /\ tabsState'.tabs = [tabsState.tabs EXCEPT ![p] = [@ EXCEPT !.active = k]]
    BY <1>1 DEF TabsInv, TabState
  <1>4. DOMAIN tabsState'.tabs = DOMAIN tabsState.tabs
    BY <1>3
  <1>5. ASSUME NEW i \in DOMAIN tabsState.tabs
        PROVE  /\ tabsState'.tabs[i].id = tabsState.tabs[i].id
               /\ tabsState'.tabs[i].leaf = tabsState.tabs[i].leaf
               /\ tabsState'.tabs[i].active = IF i = p THEN k ELSE tabsState.tabs[i].active
               /\ tabsState.tabs[i].id = id <=> i = p
    <2>1. tabsState.tabs[i] = [id |-> tabsState.tabs[i].id, leaf |-> tabsState.tabs[i].leaf,
                               active |-> tabsState.tabs[i].active]
      BY DEF TabsInv, TabState
    <2>2. tabsState.tabs[i].id = id <=> i = p
      BY <1>2 DEF TabsInv, WellFormed
    <2> QED
      BY <1>3, <2>1, <2>2
  <1>6. ASSUME NEW i \in DOMAIN tabsState.tabs
        PROVE  Known(nodes', tabsState'.tabs[i].id, tabsState'.tabs[i].leaf)
    BY <1>1, <1>5, KnownGrows DEF KnownInv
  <1>7. KnownInv'
    BY <1>4, <1>6 DEF KnownInv, Known, InTree
  <1>8. TurnedInv'
    BY <1>1, <1>4, <1>5 DEF FrontInv, TurnedInv
  <1>9. FrontInv'
    BY <1>1, <1>3, <1>4, <1>5, <1>8 DEF FrontInv, ShowsWanted
  <1> QED
    BY <1>7, <1>9

(***************************************************************************)
(* Every step keeps the invariant of the tree and the tabs.                *)
(***************************************************************************)
WorkspaceInv == TabsInv /\ TreeInv /\ KnownInv /\ FrontInv

LEMMA StepKeepsKnown ==
  WorkspaceInv /\ [WorkspaceNext]_workspaceVars => KnownInv' /\ FrontInv'
  <1> SUFFICES ASSUME WorkspaceInv, [WorkspaceNext]_workspaceVars
               PROVE  KnownInv' /\ FrontInv'
    OBVIOUS
  <1> USE DEF WorkspaceInv
  <1>1. CASE UNCHANGED <<tabsState, wanted, turned>>
    <2>1. nodes \subseteq nodes'
      BY StepKeepsTree
    <2>2. NoNewTab(tabsState, tabsState', WelcomeTab.id, "none")
      BY <1>1 DEF NoNewTab, SameTab
    <2>3. KnownInv'
      BY <2>1, <2>2, WelcomeIsKnown, NoNewTabKnown
    <2> QED
      BY <1>1, <2>3 DEF FrontInv, TurnedInv, ShowsWanted
  <1>2. CASE \/ \E S \in SUBSET Roots : TreeLoaded(S)
             \/ TreeFails \/ Retry
             \/ \E n \in nodes : Expand(n)
             \/ \E n \in loads : \E S \in Answers(n) \cup {{}} : ChildrenLoaded(n, S)
    BY <1>1, <1>2 DEF TreeLoaded, TreeFails, Retry, Expand, ChildrenLoaded, tabVars
  <1>3. ASSUME NEW n \in nodes, SelectLeaf(n)
        PROVE  KnownInv' /\ FrontInv'
    BY <1>3, LeafOpens
  <1>4. ASSUME NEW n \in nodes, SelectNode(n)
        PROVE  KnownInv' /\ FrontInv'
    BY <1>4, NodeOpens
  <1>5. CASE (\E n \in nodes : RightClick(n)) \/ CloseMenu
    BY <1>1, <1>5 DEF RightClick, CloseMenu
  <1>6. ASSUME NEW k \in Keys, OpenKey(k)
        PROVE  KnownInv' /\ FrontInv'
    BY <1>6, KeyOpens
  <1>7. CASE OpenNewQueryTab
    BY <1>7, QueryOpens
  <1>8. ASSUME NEW id \in Ids(tabsState), ClickTab(id) \/ OnEdit(id)
        PROVE  KnownInv' /\ FrontInv'
    BY <1>8, ClickKeepsKnown, CloseKeepsKnown
  <1>9. ASSUME NEW k, ClickSubTab(k)
        PROVE  KnownInv' /\ FrontInv'
    BY <1>9, SubTabKeepsKnown
  <1>10. CASE UNCHANGED workspaceVars
    BY <1>1, <1>10 DEF workspaceVars, tabVars
  <1> QED
    BY <1>2, <1>3, <1>4, <1>5, <1>6, <1>7, <1>8, <1>9, <1>10 DEF WorkspaceNext

LEMMA InitWorkspaceInv == WorkspaceInit => WorkspaceInv
  <1> SUFFICES ASSUME WorkspaceInit
               PROVE  WorkspaceInv
    OBVIOUS
  <1>1. TreeInv
    BY TabBoundsAssumption DEF WorkspaceInit, TreeInv
  <1>2. /\ tabsState.tabs = <<WelcomeTab>> /\ tabsState.activeId = WelcomeTab.id
        /\ wanted = WelcomeTab.id
    BY DEF WorkspaceInit
  <1>3. WelcomeTab.leaf = "none" /\ WelcomeTab.active = "none"
    BY DEF WelcomeTab, Tab
  <1> HIDE DEF WelcomeTab
  <1>4. \A i \in DOMAIN tabsState.tabs : tabsState.tabs[i] = WelcomeTab
    BY <1>2
  <1>5. KnownInv
    BY <1>3, <1>4, WelcomeIsKnown DEF KnownInv
  <1>6. FrontInv
    BY <1>2, <1>3, <1>4 DEF FrontInv, TurnedInv, ShowsWanted
  <1> QED
    BY <1>1, <1>5, <1>6, InitTabsInv DEF WorkspaceInv

LEMMA WorkspaceInductive == WorkspaceSpec => []WorkspaceInv
  <1>1. WorkspaceInv /\ [WorkspaceNext]_workspaceVars => WorkspaceInv'
    BY StepKeepsTabs, StepKeepsTree, StepKeepsKnown DEF WorkspaceInv
  <1> QED
    BY <1>1, InitWorkspaceInv, PTL DEF WorkspaceSpec

(***************************************************************************)
(* What is expanded or being loaded is in the tree, so that no answer      *)
(* comes for a node that is gone, and the open menu is that of a table in  *)
(* the tree (TreePanel.tsx:68-128, 154-280, 330-420).                      *)
(***************************************************************************)
THEOREM NothingHangsLoose == AppSpec => []WorkspaceTypeOK
  <1>1. ASSUME WorkspaceInv PROVE WorkspaceTypeOK
    <2>1. \A i \in DOMAIN tabsState.tabs : tabsState.tabs[i].leaf \in Leaves \cup {"none"}
      BY <1>1 DEF WorkspaceInv, KnownInv, Known
    <2>2. ASSUME ctxMenu # NoTable
          PROVE  <<"mysql_table">> \o ctxMenu \in nodes
      <3>1. PICK c, d, t : ctxMenu = <<c, d, t>> /\ <<"mysql_table", c, d, t>> \in nodes
        BY <1>1, <2>2 DEF WorkspaceInv, TreeInv
      <3>2. <<"mysql_table">> \o Three(c, d, t) = Four("mysql_table", c, d, t)
        BY FourNames, FiveNames
      <3> QED
        BY <3>1, <3>2 DEF Three, Four
    <2> QED
      BY <1>1, <2>1, <2>2 DEF WorkspaceInv, TreeInv, WorkspaceTypeOK
  <1> QED
    BY <1>1, Parts, WorkspaceInductive, PTL

(***************************************************************************)
(* What the user last asked for is in front and shown, whether it was open *)
(* already or not, until a tab is closed; but for the click that tells a   *)
(* schema tab what it was told before its sub-tab was turned               *)
(* (Workspace.tsx:99-111, 147-256, MysqlSchemaTab.tsx:30-32).              *)
(***************************************************************************)
THEOREM LastWantedIsInFront == AppSpec => []WantedInFront
  <1>1. ASSUME WorkspaceInv PROVE WantedInFront
    <2> DEFINE p == Position(tabsState, tabsState.activeId)
    <2>1. p \in DOMAIN tabsState.tabs /\ tabsState.tabs[p].id = tabsState.activeId
      BY <1>1, PositionFacts DEF WorkspaceInv, TabsInv, WellFormed
    <2> HIDE DEF p
    <2>2. wanted # Nobody => ShowsWanted(tabsState.tabs[p])
      BY <1>1, <2>1 DEF WorkspaceInv, FrontInv
    <2> QED
      BY <2>2 DEF WantedInFront, WantedIsShown, FrontTab, ShowsWanted, p
  <1> QED
    BY <1>1, Parts, WorkspaceInductive, PTL

(***************************************************************************)
(* A tab that a node of the tree opened can be found in the tree as long   *)
(* as it is open, and so can the table of a query or the connection of a   *)
(* key (TreePanel.tsx:68-128, 154-280, 296-328).                           *)
(***************************************************************************)
THEOREM TabsHaveNodes == AppSpec => []TabsAreInTheTree
  <1>1. ASSUME WorkspaceInv PROVE TabsAreInTheTree
    <2>1. PICK S : tabsState.tabs \in Seq(S)
      BY <1>1 DEF WorkspaceInv, TabsInv, TabState, IsSeq
    <2>2. 1 \in DOMAIN tabsState.tabs /\ tabsState.tabs[1] = WelcomeTab
      BY <1>1, <2>1 DEF WorkspaceInv, TabsInv, WellFormed
    <2>3. ASSUME NEW i \in 2..Len(tabsState.tabs)
          PROVE  InTree(nodes, tabsState.tabs[i].id)
      <3>1. i \in DOMAIN tabsState.tabs /\ i # 1
        BY <2>1
      <3>2. tabsState.tabs[i].id # WelcomeTab.id
        BY <1>1, <2>2, <3>1 DEF WorkspaceInv, TabsInv, WellFormed
      <3> QED
        BY <1>1, <3>1, <3>2 DEF WorkspaceInv, KnownInv, Known
    <2> QED
      BY <2>3 DEF InTree, TabsAreInTheTree
  <1> QED
    BY <1>1, Parts, WorkspaceInductive, PTL

(***************************************************************************)
(* ConnectionsPage: the inductive invariant PageInv, and what it says of   *)
(* the list, the edit dialog and the spinners.                             *)
(***************************************************************************)
USE DEF shownList, dialogs, Loading

LEMMA InitPageInv == PageInit => PageInv
  <1> SUFFICES ASSUME NEW S \in SUBSET ConnIds, PageInitWith(S) PROVE PageInv
    BY DEF PageInit
  <1> USE DEF PageInitWith
  <1>1. PageTypeOK
    BY PageBoundsAssumption DEF PageTypeOK, CallTypes, Lists, NoList, Free, Call
  <1>2. EditsWhatIsShown /\ SpinnersHaveCalls /\ ReloadInv
    BY DEF EditsWhatIsShown, SpinnersHaveCalls, ReloadInv
  <1> QED
    BY <1>1, <1>2 DEF PageInv

(***************************************************************************)
(* Calls: what a new one, the next stage of one and the end of one leave   *)
(* as they were.                                                           *)
(***************************************************************************)
LEMMA StartAdds ==
  ASSUME PageTypeOK, NEW what \in {"refresh", "create", "edit", "delete"},
         NEW id \in ConnIds \cup {NoConn}, NEW stage \in {"sent", "getting"},
         Start(Call(what, id, stage))
  PROVE  /\ calls' \in [Calls -> CallTypes]
         /\ \E s \in Calls : /\ calls[s] = Free
                             /\ calls'[s] = Call(what, id, stage)
                             /\ \A t \in Calls : t # s => calls'[t] = calls[t]
  <1>1. Call(what, id, stage) \in CallTypes
    BY PageBoundsAssumption DEF Call, CallTypes, Lists, NoList
  <1>2. PICK s \in Calls : calls[s] = Free /\ calls' = [calls EXCEPT ![s] = Call(what, id, stage)]
    BY DEF Start
  <1> QED
    BY <1>1, <1>2 DEF PageTypeOK

LEMMA MoveKeeps ==
  ASSUME PageTypeOK, NEW s \in Calls,
         NEW stage \in {"sent", "done", "refused", "getting", "got"}, MoveTo(s, stage)
  PROVE  /\ calls' \in [Calls -> CallTypes]
         /\ \A t \in Calls : t # s => calls'[t] = calls[t]
         /\ calls'[s].stage = stage
         /\ calls'[s].what = calls[s].what
         /\ calls'[s].id = calls[s].id
         /\ calls'[s].for = calls[s].for
  BY DEF PageTypeOK, MoveTo, CallTypes

LEMMA FinishFrees ==
  ASSUME PageTypeOK, NEW s \in Calls, Finish(s)
  PROVE  /\ calls' \in [Calls -> CallTypes]
         /\ \A t \in Calls : t # s => calls'[t] = calls[t]
         /\ calls'[s] = Free
  BY PageBoundsAssumption DEF PageTypeOK, Finish, Free, Call, CallTypes, Lists, NoList

LEMMA FreeIsIdle == /\ Free.stage = "free" /\ Free.what = "none"
  BY DEF Free, Call

(***************************************************************************)
(* The user.                                                               *)
(***************************************************************************)
\* Nothing but the reload is in flight when blind is taken back.
LEMMA ReloadPreserves ==
  ASSUME PageInv, OpenDrawer \/ ClickRefreshList
  PROVE  PageInv'
  <1> USE DEF PageInv
  <1>1. Start(Call("refresh", NoConn, "getting"))
    BY DEF OpenDrawer, ClickRefreshList
  <1>2. PICK s \in Calls : /\ calls[s] = Free
                           /\ calls'[s] = Call("refresh", NoConn, "getting")
                           /\ \A t \in Calls : t # s => calls'[t] = calls[t]
    BY <1>1, StartAdds
  <1>3. calls'[s].stage = "getting" /\ calls[s].stage = "free" /\ calls[s].what = "none"
    BY <1>2, FreeIsIdle DEF Call
  <1>4. PageTypeOK'
    BY <1>1, StartAdds DEF PageTypeOK, OpenDrawer, ClickRefreshList
  <1>5. EditsWhatIsShown' /\ (drawer' = "closed" => editOpen' = "no")
    BY DEF EditsWhatIsShown, OpenDrawer, ClickRefreshList, NoDialog
  <1>6. SpinnersHaveCalls'
    BY <1>2, <1>3 DEF SpinnersHaveCalls, Spinning, OpenDrawer, ClickRefreshList
  <1>7. ReloadInv'
    <2> SUFFICES ASSUME blind' = "no" PROVE ReloadInv'
      BY DEF ReloadInv
    <2>1. InFlight = {}
      BY DEF OpenDrawer, ClickRefreshList
    <2>2. \A t \in Calls : t # s => calls'[t].stage = "free"
      BY <1>2, <2>1, FreeIsIdle DEF InFlight
    <2> QED
      BY <1>3, <2>2 DEF ReloadInv
  <1> QED
    BY <1>4, <1>5, <1>6, <1>7

LEMMA CloseDrawerPreserves == PageInv /\ CloseDrawer => PageInv'
  <1> SUFFICES ASSUME PageInv, CloseDrawer PROVE PageInv'
    OBVIOUS
  <1> USE DEF PageInv, CloseDrawer
  <1>1. Free \in CallTypes /\ NoList \in Lists
    BY PageBoundsAssumption DEF Free, Call, CallTypes, Lists, NoList
  <1>2. \A s \in Calls : [calls[s] EXCEPT !.for = "nobody"] \in CallTypes
    BY DEF PageTypeOK, CallTypes
  <1>3. PageTypeOK'
    BY <1>1, <1>2 DEF PageTypeOK
  <1>4. EditsWhatIsShown' /\ SpinnersHaveCalls' /\ ReloadInv'
    BY DEF EditsWhatIsShown, SpinnersHaveCalls, ReloadInv
  <1> QED
    BY <1>3, <1>4

LEMMA DialogPreserves ==
  ASSUME PageInv,
         \/ OpenCreate \/ CancelCreate \/ CancelEdit
         \/ \E c \in ConnIds : OpenEdit(c)
  PROVE  PageInv'
  <1> USE DEF PageInv, OpenCreate, CancelCreate, CancelEdit, OpenEdit
  <1>1. PageTypeOK'
    BY DEF PageTypeOK
  <1>2. EditsWhatIsShown' /\ (drawer' = "closed" => editOpen' = "no")
    BY NoConnAssumption DEF EditsWhatIsShown
  <1>3. SpinnersHaveCalls'
    BY DEF SpinnersHaveCalls, Spinning
  <1>4. ReloadInv'
    BY DEF ReloadInv, Unheard
  <1> QED
    BY <1>1, <1>2, <1>3, <1>4

\* A call that is sent is no reload yet.
LEMMA SendPreserves ==
  ASSUME PageInv, SubmitCreate \/ SubmitEdit \/ \E c \in ConnIds : ConfirmDelete(c)
  PROVE  PageInv'
  <1> USE DEF PageInv
  <1>1. PICK what \in {"create", "edit", "delete"}, id \in ConnIds \cup {NoConn} :
          /\ Start(Call(what, id, "sent"))
          /\ what \in {"create", "edit"} => deletingId' = deletingId /\ submitting' = "yes"
          /\ what = "delete" => deletingId' = id /\ submitting' = submitting
    BY DEF SubmitCreate, SubmitEdit, Submit, ConfirmDelete, PageTypeOK
  <1>2. UNCHANGED <<server, given, drawer, shownList, createOpen, editOpen, editing, formOf, blind>>
    BY DEF SubmitCreate, SubmitEdit, Submit, ConfirmDelete
  <1>3. PICK s \in Calls : /\ calls[s] = Free
                           /\ calls'[s] = Call(what, id, "sent")
                           /\ \A t \in Calls : t # s => calls'[t] = calls[t]
    BY <1>1, StartAdds
  <1>4. /\ calls'[s].stage = "sent" /\ calls'[s].what = what
        /\ calls'[s].id = id /\ calls'[s].for = "page"
        /\ calls[s].stage = "free" /\ calls[s].what = "none"
    BY <1>3, FreeIsIdle DEF Call
  <1>5. PageTypeOK'
    BY <1>1, <1>2, StartAdds DEF PageTypeOK
  <1>6. EditsWhatIsShown' /\ (drawer' = "closed" => editOpen' = "no")
    BY <1>2 DEF EditsWhatIsShown
  <1>7. SpinnersHaveCalls'
    BY <1>1, <1>2, <1>3, <1>4 DEF SpinnersHaveCalls, Spinning
  <1>8. ReloadInv'
    BY <1>2, <1>3, <1>4 DEF ReloadInv, Unheard
  <1> QED
    BY <1>5, <1>6, <1>7, <1>8

(***************************************************************************)
(* The server.                                                             *)
(***************************************************************************)
LEMMA EffectTyped ==
  ASSUME PageTypeOK, NEW s \in Calls, Effect(calls[s])
  PROVE  server' \in Lists /\ given' \in SUBSET ConnIds
  <1> USE PageBoundsAssumption DEF PageTypeOK, Lists
  <1>1. CASE \E c \in ConnIds \ given :
               given' = given \cup {c} /\ server' = [server EXCEPT ![c] = 1]
    BY <1>1
  <1>2. CASE /\ calls[s].what = "edit" /\ server[calls[s].id] \in 1..(MaxVersion - 1)
             /\ server' = [server EXCEPT ![calls[s].id] = @ + 1]
             /\ UNCHANGED given
    <2>1. \A c \in ConnIds : server[c] \in 0..MaxVersion
      OBVIOUS
    <2>2. server[calls[s].id] + 1 \in 0..MaxVersion
      BY <1>2
    <2> QED
      BY <1>2, <2>1, <2>2
  <1>3. CASE /\ calls[s].what = "delete" /\ server[calls[s].id] # 0
             /\ server' = [server EXCEPT ![calls[s].id] = 0]
             /\ UNCHANGED given
    <2>1. 0 \in 0..MaxVersion
      OBVIOUS
    <2>2. server' \in [ConnIds -> 0..MaxVersion]
      BY <1>3, <2>1
    <2> QED
      BY <1>3, <2>2
  <1> QED
    BY <1>1, <1>2, <1>3 DEF Effect

\* A change the page has to hear of, or is blind to.
LEMMA ApplyPreserves ==
  ASSUME PageInv, NEW s \in Calls, Apply(s)
  PROVE  PageInv'
  <1> USE DEF PageInv, Apply
  <1>1. \A t \in Calls : t # s => calls'[t] = calls[t]
    BY MoveKeeps, FinishFrees
  <1>2. /\ calls[s].stage = "sent"
        /\ \/ /\ calls[s].for = "page" /\ blind' = blind
              /\ calls'[s].stage = "done" /\ calls'[s].for = "page"
              /\ calls'[s].what = calls[s].what /\ calls'[s].id = calls[s].id
           \/ calls[s].for = "nobody" /\ blind' = "yes"
    BY MoveKeeps DEF PageTypeOK, CallTypes
  <1>3. PageTypeOK'
    <2>1. calls' \in [Calls -> CallTypes]
      BY MoveKeeps, FinishFrees
    <2> QED
      BY <2>1, EffectTyped DEF PageTypeOK
  <1>4. EditsWhatIsShown' /\ (drawer' = "closed" => editOpen' = "no")
    BY DEF EditsWhatIsShown
  <1>5. SpinnersHaveCalls'
    BY <1>1, <1>2 DEF SpinnersHaveCalls, Spinning
  <1>6. ReloadInv'
    BY <1>1, <1>2 DEF ReloadInv, Unheard
  <1> QED
    BY <1>3, <1>4, <1>5, <1>6

LEMMA RefusePreserves ==
  ASSUME PageInv, NEW s \in Calls, Refuse(s) \/ LoseAnswer(s)
  PROVE  PageInv'
  <1> USE DEF PageInv, Refuse, LoseAnswer
  <1>1. \A t \in Calls : t # s => calls'[t] = calls[t]
    BY MoveKeeps, FinishFrees
  <1>2. \/ /\ calls'[s].stage = "refused" /\ calls'[s].for = calls[s].for
           /\ calls'[s].what = calls[s].what /\ calls'[s].id = calls[s].id
           /\ calls[s].stage = "done" => blind' = "yes"
           /\ calls[s].stage \in {"sent", "done"}
        \/ /\ calls[s].for # "page" /\ calls'[s] = Free
           /\ calls[s].stage = "sent"
    BY MoveKeeps, FinishFrees
  <1>3. calls' \in [Calls -> CallTypes]
    BY MoveKeeps, FinishFrees
  <1>4. PageTypeOK'
    BY <1>3 DEF PageTypeOK
  <1>5. EditsWhatIsShown' /\ (drawer' = "closed" => editOpen' = "no")
    BY DEF EditsWhatIsShown
  <1>6. SpinnersHaveCalls'
    BY <1>1, <1>2 DEF SpinnersHaveCalls, Spinning
  <1>7. ReloadInv'
    BY <1>1, <1>2, FreeIsIdle DEF ReloadInv, Unheard, PageTypeOK
  <1> QED
    BY <1>4, <1>5, <1>6, <1>7

\* The list that is read is the server's.
LEMMA ListReadPreserves ==
  ASSUME PageInv, NEW s \in Calls, ListRead(s)
  PROVE  PageInv'
  <1> USE DEF PageInv, ListRead
  <1>1. /\ calls' \in [Calls -> CallTypes]
        /\ \A t \in Calls : t # s => calls'[t] = calls[t]
        /\ calls'[s].stage = "got" /\ calls'[s].list = server
        /\ calls'[s].what = calls[s].what /\ calls'[s].id = calls[s].id
        /\ calls'[s].for = calls[s].for
    BY DEF PageTypeOK, CallTypes
  <1>2. PageTypeOK'
    BY <1>1 DEF PageTypeOK
  <1>3. EditsWhatIsShown' /\ (drawer' = "closed" => editOpen' = "no")
    BY DEF EditsWhatIsShown
  <1>4. SpinnersHaveCalls'
    BY <1>1 DEF SpinnersHaveCalls, Spinning
  <1>5. ReloadInv'
    BY <1>1 DEF ReloadInv, Unheard
  <1> QED
    BY <1>2, <1>3, <1>4, <1>5

(***************************************************************************)
(* The page after an await.                                                *)
(***************************************************************************)
\* The change is heard of, and its reload starts; another one that is under
\* way makes the page blind.
LEMMA SucceedsPreserves ==
  ASSUME PageInv, NEW s \in Calls, Succeeds(s)
  PROVE  PageInv'
  <1> USE DEF PageInv, Succeeds
  <1>1. /\ calls' \in [Calls -> CallTypes]
        /\ \A t \in Calls : t # s => calls'[t] = calls[t]
        /\ calls'[s].stage = "getting"
        /\ calls'[s].what = calls[s].what /\ calls'[s].id = calls[s].id
        /\ calls'[s].for = calls[s].for
    BY MoveKeeps
  <1>2. PageTypeOK'
    BY <1>1 DEF PageTypeOK, CloseDialog
  <1>3. EditsWhatIsShown' /\ (drawer' = "closed" => editOpen' = "no")
    BY DEF EditsWhatIsShown, CloseDialog
  <1>4. SpinnersHaveCalls'
    BY <1>1 DEF SpinnersHaveCalls, Spinning
  <1>5. ReloadInv'
    BY <1>1 DEF ReloadInv, Unheard
  <1> QED
    BY <1>2, <1>3, <1>4, <1>5

\* The spinner of the call that ends, if it had one, stops.
LEMMA SettledSpins ==
  ASSUME PageInv, NEW s \in Calls, Finish(s), StopSpinner(calls[s].what)
  PROVE  /\ submitting' = "yes" => \E id \in ConnIds \cup {NoConn} : Spinning({"create", "edit"}, id)'
         /\ deletingId' # NoConn => Spinning({"delete"}, deletingId)'
         /\ {submitting', deletingId'} \subseteq {"yes", "no"} \cup ConnIds \cup {NoConn}
  <1>1. \A t \in Calls : t # s => calls'[t] = calls[t]
    BY FinishFrees DEF PageInv
  <1>2. submitting' = "yes" => submitting = "yes" /\ calls[s].what \notin {"create", "edit"}
    BY DEF StopSpinner
  <1>3. deletingId' # NoConn => deletingId' = deletingId /\ calls[s].what # "delete"
    BY DEF StopSpinner
  <1> QED
    BY <1>1, <1>2, <1>3 DEF PageInv, PageTypeOK, SpinnersHaveCalls, Spinning, StopSpinner

LEMMA SettlePreserves ==
  ASSUME PageInv, NEW s \in Calls, IsRefused(s) \/ ShowList(s) \/ ListFails(s)
  PROVE  PageInv'
  <1> USE DEF PageInv, IsRefused, ShowList, ListFails
  <1>1. /\ calls' \in [Calls -> CallTypes]
        /\ \A t \in Calls : t # s => calls'[t] = calls[t]
        /\ calls'[s].stage = "free"
    BY FinishFrees, FreeIsIdle
  <1>2. PageTypeOK'
    <2>1. list' \in Lists
      BY DEF PageTypeOK, CallTypes
    <2>2. submitting' \in {"yes", "no"} /\ deletingId' \in ConnIds \cup {NoConn}
      BY DEF PageTypeOK, StopSpinner
    <2> QED
      BY <1>1, <2>1, <2>2 DEF PageTypeOK
  <1>3. EditsWhatIsShown' /\ (drawer' = "closed" => editOpen' = "no")
    BY DEF EditsWhatIsShown
  <1>4. SpinnersHaveCalls'
    <2>1. loading' = "yes" => \E t \in Calls : Loading(t)'
      BY <1>1 DEF SpinnersHaveCalls
    <2> QED
      BY <2>1, SettledSpins DEF SpinnersHaveCalls
  <1>5. ReloadInv'
    BY <1>1 DEF ReloadInv, Unheard
  <1> QED
    BY <1>2, <1>3, <1>4, <1>5

LEMMA PageInvInductive == PageInv /\ [PageNext]_pageVars => PageInv'
  <1> SUFFICES ASSUME PageInv, [PageNext]_pageVars PROVE PageInv'
    OBVIOUS
  <1>1. CASE UNCHANGED pageVars
    BY <1>1 DEF pageVars, PageInv, PageTypeOK, EditsWhatIsShown, SpinnersHaveCalls,
                Spinning, ReloadInv, Unheard
  <1>2. CASE \E s \in Calls : Settle(s)
    BY <1>2, ApplyPreserves, RefusePreserves, ListReadPreserves, SucceedsPreserves,
       SettlePreserves
    DEF Settle
  <1> QED
    BY <1>1, <1>2, ReloadPreserves, CloseDrawerPreserves, DialogPreserves, SendPreserves
    DEF PageNext

LEMMA PageInductive == PageSpec => []PageInv
  BY InitPageInv, PageInvInductive, PTL DEF PageSpec

(***************************************************************************)
(* With nothing in flight and no error, the list on the page is the        *)
(* server's, unless reloads overlapped, an answer was lost, or a closed    *)
(* drawer left a change behind (Connections.tsx:98-112, 213-300).          *)
(***************************************************************************)
THEOREM ListReloaded == AppSpec => []ListIsCurrent
  <1>1. InFlight = {} => \A s \in Calls : calls[s].stage = "free"
    BY FreeIsIdle DEF InFlight
  <1>2. PageInv => ListIsCurrent
    BY <1>1 DEF PageInv, ReloadInv, Unheard, ListIsCurrent
  <1> QED
    BY <1>2, Parts, PageInductive, PTL

(***************************************************************************)
(* OK in the edit dialog sends to the connection whose values the form     *)
(* shows, whatever answers close dialogs meanwhile                         *)
(* (Connections.tsx:163-190, 255-300, 402-405).                            *)
(***************************************************************************)
THEOREM FormMatchesEdit == AppSpec => []EditsWhatIsShown
  <1>1. PageInv => EditsWhatIsShown
    BY DEF PageInv
  <1> QED
    BY <1>1, Parts, PageInductive, PTL

(***************************************************************************)
(* No spinner stays on after the last of the calls it is for               *)
(* (Connections.tsx:98-112, 213-300, useConnections.ts:47-58).             *)
(***************************************************************************)
THEOREM SpinnersStop == AppSpec => []SpinnersHaveCalls
  <1>1. PageInv => SpinnersHaveCalls
    BY DEF PageInv
  <1> QED
    BY <1>1, Parts, PageInductive, PTL
===============================================================================
