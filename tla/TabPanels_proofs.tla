--------------------------- MODULE TabPanels_proofs ---------------------------
(***************************************************************************)
(* Proofs about the panels of the tabs: RedisKeyTab, for any elements and  *)
(* buckets, any types other clients use and any number of their writes;    *)
(* MysqlSchema, for any number of changes of the table and any clicks;     *)
(* MysqlQuery, for any texts, any result and any limits; RedisKeysTab, for *)
(* any patterns and pages and any number of requests on their way; and     *)
(* SqlGuard, for any text.                                                 *)
(***************************************************************************)
EXTENDS TabPanels, RecentPatterns_proofs

(***************************************************************************)
(* RedisKeyTab: the inductive invariant KeyInv, and what it says of the    *)
(* value on the screen.                                                    *)
(***************************************************************************)
USE DEF redis, request, inputs, display, ShownTypes, ScanTypes, Cursors, Ranges, AllAskedFor

LEMMA ZeroIsACursor == 0 \in Cursors
  BY BucketsAssumption

\* The tab that is opened on a key, and the panel that is not there.
LEMMA InitKeyInv ==
  ASSUME KeyInit \/ NoKeyPanel
  PROVE  KeyInv
  <1> SUFFICES ASSUME NEW t \in KeyTypes \cup {"none"}, NEW E \in SUBSET Elems,
                      t = "none" => E = {}, Fill(t, E)
               PROVE  KeyInv
    BY KeyTypesAssumption DEF KeyInit, NoKeyPanel, Values
  <1> USE DEF Fill
  <1>1. KeyTypeOK
    BY ZeroIsACursor, MaxWritesAssumption DEF KeyTypeOK, NoData, Held, Values
  <1>2. ShownWasThere
    BY DEF ShownWasThere, NoData
  <1>3. LiveInv
    BY KeyTypesAssumption DEF LiveInv, Held
  <1>4. RequestInv /\ PagesInv
    BY DEF RequestInv, PagesInv
  <1> QED
    BY <1>1, <1>2, <1>3, <1>4 DEF KeyInv

(***************************************************************************)
(* Other clients.  What is seen only grows, and what is kept only shrinks; *)
(* it is empty once the key is another one.                                *)
(***************************************************************************)
LEMMA WritePreserves ==
  ASSUME KeyInv, NEW t \in KeyTypes \cup {"none"}, NEW E \in SUBSET Elems,
         t = "none" => E = {},
         Writing(t, E),
         kept' \subseteq kept \cap E,
         kept' # {} => t = type
  PROVE  KeyInv'
  <1> USE DEF KeyInv, Writing
  <1>1. KeyTypeOK'
    BY MaxWritesAssumption DEF KeyTypeOK, Held
  <1>2. \A u \in ShownTypes : seen[u] \subseteq seen'[u]
    BY DEF KeyTypeOK
  <1>3. ShownWasThere'
    BY <1>2 DEF ShownWasThere
  <1>4. LiveInv'
    BY <1>2 DEF LiveInv, Held
  <1>5. (kept # {} => (phase # "idle" => RequestInv) /\ PagesInv)'
    BY DEF RequestInv, PagesInv, KeptIn
  <1> QED
    BY <1>1, <1>3, <1>4, <1>5

LEMMA ClientsPreserve ==
  ASSUME KeyInv,
         \/ \E E \in SUBSET Elems : ChangeKey(E)
         \/ \E t \in KeyTypes : \E E \in Values(t) : ReplaceKey(t, E)
         \/ RemoveKey
  PROVE  KeyInv'
  <1>1. CASE \E E \in SUBSET Elems : ChangeKey(E)
    BY <1>1, WritePreserves DEF KeyInv, KeyTypeOK, LiveInv, ChangeKey, Values
  <1>2. CASE \E t \in KeyTypes : \E E \in Values(t) : ReplaceKey(t, E)
    <2> PICK t \in KeyTypes : \E E \in Values(t) : ReplaceKey(t, E)
      BY <1>2
    <2> PICK E \in Values(t) : ReplaceKey(t, E)
      OBVIOUS
    <2>1. t # "none" /\ E \in SUBSET Elems
      BY KeyTypesAssumption DEF Values
    <2> QED
      BY <2>1, WritePreserves DEF ReplaceKey
  <1>3. CASE RemoveKey
    BY <1>3, WritePreserves DEF RemoveKey
  <1> QED
    BY <1>1, <1>2, <1>3

(***************************************************************************)
(* A load starts from nothing shown, and More from the cursor.             *)
(***************************************************************************)
LEMMA LoadPreserves ==
  ASSUME KeyInv, ClickRefresh \/ ReopenTab
  PROVE  KeyInv'
  <1> USE DEF KeyInv, ClickRefresh, ReopenTab, LoadFirst, Ask
  <1>1. KeyTypeOK'
    BY ZeroIsACursor DEF KeyTypeOK, NoData, Held
  <1>2. ShownWasThere'
    BY DEF ShownWasThere, NoData
  <1>3. LiveInv'
    BY DEF LiveInv, Held
  <1>4. RequestInv' /\ PagesInv'
    BY DEF RequestInv, PagesInv
  <1> QED
    BY <1>1, <1>2, <1>3, <1>4

\* With the range the list is no longer told to be whole.
LEMMA EditPreserves ==
  ASSUME KeyInv, NEW g \in Ranges, EditRange(g)
  PROVE  KeyInv'
  <1> USE DEF KeyInv, EditRange
  <1>1. KeyTypeOK' /\ ShownWasThere' /\ LiveInv'
    BY DEF KeyTypeOK, ShownWasThere, LiveInv
  <1>2. ASSUME kept # {} PROVE (phase # "idle" => RequestInv') /\ PagesInv'
    BY <1>2 DEF RequestInv, PagesInv, KeptIn
  <1> QED
    BY <1>1, <1>2

LEMMA MorePreserves == KeyInv /\ LoadMore => KeyInv'
  <1> SUFFICES ASSUME KeyInv, LoadMore PROVE KeyInv'
    OBVIOUS
  <1> USE DEF KeyInv, LoadMore, Ask
  <1>1. KeyTypeOK' /\ ShownWasThere' /\ LiveInv'
    BY DEF KeyTypeOK, ShownWasThere, LiveInv
  <1>2. ASSUME kept # {} PROVE RequestInv' /\ PagesInv'
    BY <1>2 DEF RequestInv, PagesInv, KeptIn
  <1> QED
    BY <1>1, <1>2

(***************************************************************************)
(* The handler.                                                            *)
(***************************************************************************)
LEMMA MetaPreserves == KeyInv /\ KeyMeta => KeyInv'
  <1> SUFFICES ASSUME KeyInv, KeyMeta PROVE KeyInv'
    OBVIOUS
  <1> USE DEF KeyInv, KeyMeta
  <1>1. KeyTypeOK' /\ ShownWasThere' /\ LiveInv'
    BY DEF KeyTypeOK, ShownWasThere, LiveInv
  <1>2. ASSUME kept # {} PROVE (phase' # "idle" => RequestInv') /\ PagesInv'
    BY <1>2 DEF RequestInv, PagesInv, KeptIn
  <1> QED
    BY <1>1, <1>2

\* A read that is refused, or any other failure.
LEMMA FailurePreserves ==
  ASSUME KeyInv, phase # "idle", Refused,
         UNCHANGED <<redis, mode, from, askedRange, found, meta, data, cursor, inputs, seen, kept>>
  PROVE  KeyInv'
  <1> USE DEF KeyInv, Refused
  <1>1. KeyTypeOK' /\ ShownWasThere' /\ LiveInv'
    BY DEF KeyTypeOK, ShownWasThere, LiveInv
  <1>2. ASSUME kept # {} PROVE PagesInv'
    BY <1>2 DEF PagesInv, KeptIn
  <1> QED
    BY <1>1, <1>2

\* A page of what the key holds, that has all the buckets it claims.
LEMMA ReturnPreserves ==
  ASSUME KeyInv, phase = "read",
         NEW E \in SUBSET elems, NEW n \in Cursors, Returns(E, n),
         E # {} => found = type,
         found = type /\ (found = "list" => askedRange = "whole") => KeptIn(from, n) \subseteq E,
         found \notin ScanTypes => n = 0,
         UNCHANGED <<redis, mode, from, askedRange, found, meta, data, cursor, inputs, seen, kept>>
  PROVE  KeyInv'
  <1> USE DEF KeyInv, Returns
  <1>1. KeyTypeOK' /\ ShownWasThere'
    BY DEF KeyTypeOK, ShownWasThere
  <1>2. LiveInv'
    BY DEF LiveInv, KeyTypeOK
  <1>3. ASSUME kept # {} PROVE RequestInv' /\ PagesInv'
    BY <1>3 DEF RequestInv, PagesInv, KeptIn
  <1> QED
    BY <1>1, <1>2, <1>3

LEMMA ReadPreserves == KeyInv /\ ReadValue => KeyInv'
  <1> SUFFICES ASSUME KeyInv, ReadValue PROVE KeyInv'
    OBVIOUS
  <1> USE DEF KeyInv, ReadValue
  <1>1. CASE type = found /\ found \in ScanTypes /\ ScanPage
    <2>1. kept \subseteq elems /\ from \in Cursors /\ elems \subseteq Elems
      BY DEF LiveInv, KeyTypeOK
    <2>2. CASE Returns(elems, 0)
      BY <1>1, <2>1, <2>2, ZeroIsACursor, ReturnPreserves DEF KeptIn
    <2>3. CASE \E last \in from..(Buckets - 1) :
                 Returns({e \in elems : BucketOf[e] \in from..last}, Continue(last))
      <3> PICK last \in from..(Buckets - 1) :
                 Returns({e \in elems : BucketOf[e] \in from..last}, Continue(last))
        BY <2>3
      <3> DEFINE E == {e \in elems : BucketOf[e] \in from..last}
      <3>1. Continue(last) \in Cursors
        BY <2>1, BucketsAssumption DEF Continue
      <3>2. KeptIn(from, Continue(last)) \subseteq E
        <4> SUFFICES ASSUME NEW e \in KeptIn(from, Continue(last))
                     PROVE  BucketOf[e] \in from..last
          BY <2>1 DEF KeptIn
        <4>1. BucketOf[e] \in 0..(Buckets - 1) /\ from <= BucketOf[e]
          BY <2>1, BucketsAssumption DEF KeptIn
        <4>2. last = Buckets - 1 \/ BucketOf[e] < last + 1
          BY <2>1, BucketsAssumption DEF KeptIn, Continue
        <4> QED
          BY <2>1, <4>1, <4>2, BucketsAssumption
      <3>3. E \in SUBSET elems
        OBVIOUS
      <3> HIDE DEF E
      <3>4. Returns(E, Continue(last))
        BY DEF E
      <3> QED
        BY <1>1, <3>1, <3>2, <3>3, <3>4, ReturnPreserves
    <2> QED
      BY <1>1, <2>2, <2>3 DEF ScanPage
  <1>2. CASE type = found /\ found = "string" /\ Returns(elems, 0)
    BY <1>2, ZeroIsACursor, ReturnPreserves DEF KeptIn, LiveInv
  <1>5. CASE type = found /\ found = "list" /\ RangeRead
    <2>1. PICK E \in SUBSET elems : (askedRange = "whole" => E = elems) /\ Returns(E, 0)
      BY <1>5 DEF RangeRead
    <2>2. KeptIn(from, 0) \subseteq elems
      BY DEF KeptIn, LiveInv
    <2> QED
      BY <1>5, <2>1, <2>2, ZeroIsACursor, ReturnPreserves
  <1>3. CASE type = "none" /\ found # "string" /\ Returns({}, 0)
    BY <1>3, ZeroIsACursor, ReturnPreserves
    DEF KeptIn, LiveInv, KeyTypeOK
  <1>4. CASE Refused
    BY <1>4, FailurePreserves
  <1> QED
    BY <1>1, <1>2, <1>3, <1>4, <1>5

(***************************************************************************)
(* The tab after its await: with the pages below the cursor, a page up to  *)
(* the next one makes the pages below that.                                *)
(***************************************************************************)
LEMMA ShowPreserves == KeyInv /\ ShowPage => KeyInv'
  <1> SUFFICES ASSUME KeyInv, ShowPage PROVE KeyInv'
    OBVIOUS
  <1> USE DEF KeyInv, ShowPage
  <1>1. KeyTypeOK'
    <2>1. data' \in [ShownTypes -> SUBSET Elems] /\ cursor' \in Cursors
      BY ZeroIsACursor DEF KeyTypeOK, LiveInv, FirstPageShown, NextPageShown
    <2>2. listRange' \in Ranges /\ edited' \in {"yes", "no"}
      BY DEF KeyTypeOK, FirstPageShown, NextPageShown, RangeShown
    <2> QED
      BY <2>1, <2>2 DEF KeyTypeOK, LiveInv
  <1>2. ShownWasThere'
    BY DEF KeyTypeOK, LiveInv, ShownWasThere, FirstPageShown, NextPageShown
  <1>3. LiveInv'
    BY DEF LiveInv
  <1>4. ASSUME kept # {} PROVE PagesInv'
    <2>1. /\ (found = "list" => askedRange = "whole") => KeptIn(from, next) \subseteq page
          /\ found = type /\ from = cursor
          /\ found \in ShownTypes /\ (found \notin ScanTypes => next = 0)
      BY <1>4 DEF RequestInv, LiveInv
    <2>2. kept \subseteq Elems /\ from \in Nat /\ next \in Nat /\ data \in [ShownTypes -> SUBSET Elems]
      BY BucketsAssumption DEF KeyTypeOK, LiveInv
    <2>3. \A e \in kept : BucketOf[e] \in Nat
      BY <2>2, BucketsAssumption
    <2>4. CASE FirstPageShown
      <3>1. from = 0 /\ cursor = 0
        BY <1>4, <2>4 DEF RequestInv, FirstPageShown
      <3>2. data'[found] = page /\ meta' = type' /\ meta' = found /\ cursor' = next
        BY <2>1, <2>2, <2>4, <3>1 DEF FirstPageShown
      <3>3. AllAskedFor' => KeptIn(0, next) \subseteq data'[found]
        BY <2>1, <2>4, <3>1, <3>2 DEF FirstPageShown, RangeShown
      <3>4. next = 0 /\ AllAskedFor' => kept \subseteq data'[found]
        BY <2>3, <3>3 DEF KeptIn
      <3>5. found \in ScanTypes => AllAskedFor'
        BY <3>2
      <3> HIDE DEF AllAskedFor
      <3> QED
        BY <2>1, <3>2, <3>3, <3>4, <3>5 DEF PagesInv, KeptIn
    <2>5. CASE NextPageShown
      <3>1. cursor # 0 /\ meta = type /\ found \in ScanTypes /\ KeptIn(0, cursor) \subseteq data[found]
        BY <1>4, <2>1, <2>5 DEF RequestInv, PagesInv, NextPageShown
      <3>2. data'[found] = data[found] \cup page /\ meta' = type' /\ cursor' = next
        BY <2>1, <2>2, <2>5, <3>1 DEF NextPageShown
      <3>3. KeptIn(0, next) \subseteq KeptIn(0, from) \cup KeptIn(from, next)
        BY <2>2, <2>3 DEF KeptIn
      <3>4. KeptIn(0, next) \subseteq data'[found]
        BY <2>1, <3>1, <3>2, <3>3
      <3>5. next = 0 => kept \subseteq data'[found]
        BY <2>3, <3>4 DEF KeptIn
      <3> QED
        BY <2>1, <3>1, <3>2, <3>4, <3>5 DEF PagesInv, KeptIn
    <2> QED
      BY <2>4, <2>5
  <1> QED
    BY <1>1, <1>2, <1>3, <1>4

LEMMA KeyInvInductive == KeyInv /\ [KeyNext]_keyVars => KeyInv'
  <1> SUFFICES ASSUME KeyInv, [KeyNext]_keyVars PROVE KeyInv'
    OBVIOUS
  <1>1. CASE UNCHANGED keyVars
    BY <1>1 DEF keyVars, KeyInv, KeyTypeOK, ShownWasThere, LiveInv, RequestInv,
                PagesInv, KeptIn
  <1>2. CASE KeyFails
    BY <1>2, FailurePreserves DEF KeyFails
  <1> QED
    BY <1>1, <1>2, ClientsPreserve, LoadPreserves, EditPreserves, MorePreserves, MetaPreserves,
       ReadPreserves, ShowPreserves
    DEF KeyNext

HIDE DEF redis, request, inputs, display, ShownTypes, ScanTypes, Cursors, Ranges, AllAskedFor

(***************************************************************************)
(* MysqlSchema: what the tab shows is as new as its refresh, and the DDL   *)
(* sub-tab is never blank.                                                 *)
(***************************************************************************)
USE MaxAltersAssumption DEF SubTabs, Errors, NoText, NoSchema

LEMMA InitSchemaInv == SchemaInit \/ NoSchemaPanel => SchemaInv
  BY DEF SchemaInit, NoSchemaPanel, SchemaFresh, SchemaInv, SchemaTypeOK, SchemaIsFresh, DDLAccounted

LEMMA SchemaAlterPreserves == SchemaInv /\ AlterTable => SchemaInv'
  BY DEF AlterTable, metaVars, ddlVars, SchemaInv, SchemaTypeOK, SchemaIsFresh, DDLAccounted

(***************************************************************************)
(* Columns and indexes: the queries are answered in the order of time, and *)
(* nothing is settled between the first and the second.                    *)
(***************************************************************************)
LEMMA SchemaMetaPreserves ==
  ASSUME SchemaInv,
         \/ RefreshSchema \/ ReadColumns \/ AnswerSchema
         \/ \E e \in Errors \ {"no"} : SchemaFails(e)
  PROVE  SchemaInv'
  <1> USE DEF table, ddlVars, SchemaInv
  <1>1. SchemaTypeOK'
    BY DEF SchemaTypeOK, RefreshSchema, ReadColumns, AnswerSchema, SchemaFails, Hint
  <1>2. /\ schemaSince' <= version' /\ ddlSince' <= version'
        /\ metaStage' = "columns" => schemaSince' <= gotColumns' /\ gotColumns' <= version'
    BY DEF SchemaTypeOK, RefreshSchema, ReadColumns, AnswerSchema, SchemaFails
  <1>3. SchemaIsFresh'
    BY DEF SchemaTypeOK, SchemaIsFresh, RefreshSchema, ReadColumns, AnswerSchema, SchemaFails
  <1>4. DDLAccounted'
    BY DEF DDLAccounted, RefreshSchema, ReadColumns, AnswerSchema, SchemaFails
  <1> QED
    BY <1>1, <1>2, <1>3, <1>4

(***************************************************************************)
(* The DDL: a load begins only while none is on its way, and ends with a   *)
(* text or an error.                                                       *)
(***************************************************************************)
LEMMA DDLLoadPreserves ==
  ASSUME SchemaInv, NEW k \in SubTabs, ShowSubTab(k) \/ ClickRefreshDDL
  PROVE  SchemaInv'
  <1> USE DEF table, metaVars, ddlVars, SchemaInv, LoadDDL, LoadsDDL, ShowSubTab, ClickRefreshDDL
  <1>1. SchemaTypeOK'
    BY DEF SchemaTypeOK
  <1>2. /\ schemaSince' <= version' /\ ddlSince' <= version'
        /\ metaStage' = "columns" => schemaSince' <= gotColumns' /\ gotColumns' <= version'
    BY DEF SchemaTypeOK
  <1>3. SchemaIsFresh'
    BY DEF SchemaTypeOK, SchemaIsFresh, DDLAccounted
  <1>4. DDLAccounted'
    BY DEF DDLAccounted, SchemaTypeOK
  <1> QED
    BY <1>1, <1>2, <1>3, <1>4

LEMMA DDLSettlePreserves ==
  ASSUME SchemaInv, AnswerDDL \/ \E e \in Errors \ {"no"} : DDLFails(e)
  PROVE  SchemaInv'
  <1> USE DEF table, metaVars, SchemaInv, DDLSettled, AnswerDDL, DDLFails, Hint
  <1>1. SchemaTypeOK'
    BY DEF SchemaTypeOK
  <1>2. /\ schemaSince' <= version' /\ ddlSince' <= version'
        /\ metaStage' = "columns" => schemaSince' <= gotColumns' /\ gotColumns' <= version'
    OBVIOUS
  <1>3. SchemaIsFresh'
    BY DEF SchemaTypeOK, SchemaIsFresh
  <1>4. DDLAccounted'
    BY DEF DDLAccounted, SchemaTypeOK
  <1> QED
    BY <1>1, <1>2, <1>3, <1>4

LEMMA SchemaOpenPreserves ==
  ASSUME SchemaInv, NEW k \in {"columns", "indexes"}, OpenSchemaTab(k)
  PROVE  SchemaInv'
  BY DEF OpenSchemaTab, table, SchemaInv, SchemaTypeOK, SchemaIsFresh, DDLAccounted

LEMMA SchemaInductive == SchemaInv /\ [SchemaNext]_schemaVars => SchemaInv'
  <1> SUFFICES ASSUME SchemaInv, [SchemaNext]_schemaVars PROVE SchemaInv'
    OBVIOUS
  <1>1. CASE UNCHANGED schemaVars
    BY <1>1 DEF schemaVars, table, metaVars, ddlVars, SchemaInv, SchemaTypeOK,
                SchemaIsFresh, DDLAccounted
  <1>2. CASE SchemaNext
    BY <1>2, SchemaAlterPreserves, SchemaMetaPreserves, DDLLoadPreserves, DDLSettlePreserves, SchemaOpenPreserves
    DEF SchemaNext
  <1> QED
    BY <1>1, <1>2

HIDE MaxAltersAssumption DEF SubTabs, Errors, NoText, NoSchema

(***************************************************************************)
(* MysqlQuery: what the handler has gathered when it has read so many rows *)
(* of a result.                                                            *)
(***************************************************************************)
Gathering ==
  /\ stage \notin {"rows", "end"} => rows = 0 /\ truncated = FALSE /\ warnings = 0
  /\ stage \in {"rows", "end"} =>
       /\ \A i \in result.long : i <= result.total
       /\ truncated = TRUE <=> warnings > 0
  /\ stage = "rows" =>
       /\ rows <= result.total
       /\ truncated = TRUE <=> \E i \in result.long : i <= rows
       /\ result.breaks \notin 0..(rows - 1)
  /\ stage = "end" =>
       /\ rows = MaxRows /\ result.total > MaxRows /\ truncated = TRUE
       /\ result.breaks \notin 0..MaxRows

QueryInv ==
  /\ QueryTypeOK
  /\ text \in Seq(Chars)
  /\ Gathering
  /\ AnswerIsHonest
  /\ PageExists

(***************************************************************************)
(* RedisKeysTab: as long as nobody has rushed, one answer at most is       *)
(* awaited, of a search that started over or of the page after the last.   *)
(***************************************************************************)
InOrder ==
  /\ \A s, u \in Awaited : s = u
  /\ loading = "yes" <=> Awaited # {}
  /\ \A s \in Awaited :
       IF inFlight[s].mode = "reset"
         THEN keys = <<>> /\ listCursor = 0 /\ inFlight[s].cursor = 0
         ELSE listCursor # 0 /\ inFlight[s].cursor = listCursor
  /\ \A i \in DOMAIN keys : keys[i].cursor = i - 1
  /\ Len(keys) <= Pages /\ listCursor = Len(keys) % Pages

ListInv ==
  /\ RecentInv
  /\ open \in {"yes", "no"}
  /\ pattern \in Inputs
  /\ listCursor \in ListCursors
  /\ keys \in Seq([cursor : ListCursors, pattern : Patterns])
  /\ loading \in {"yes", "no"}
  /\ err \in {"yes", "no"}
  /\ inFlight \in [Slots -> Requests \cup {NoRequest}]
  /\ asked \in Patterns
  /\ rushed \in {"yes", "no"}
  /\ rushed = "no" => InOrder

PanelsInv ==
  /\ kind \in {"redis_keys", "redis_key", "mysql", "mysql_schema"}
  /\ ListInv /\ KeyInv /\ QueryInv /\ SchemaInv

(***************************************************************************)
(* MysqlQuery: the text that is sent, the rows and the pages.              *)
(***************************************************************************)
\* A set of numbers that is not empty has a least one.
LEMMA Least ==
  ASSUME NEW T, T \subseteq Nat, T # {}
  PROVE  \E x \in T : \A y \in T : x <= y
  <1>1. PICK x \in T : \A y \in T : <<y, x>> \notin OpToRel(<, Nat)
    BY WFMin, NatLessThanWellFounded
  <1>2. \A y \in T : ~(y < x)
    BY <1>1 DEF OpToRel
  <1>3. \A y \in T : x <= y
    BY <1>2
  <1> QED
    BY <1>3

\* A set of positions that is not empty has a first and a last one.
LEMMA Extremes ==
  ASSUME NEW n \in Nat, NEW T, T \subseteq 1..n, T # {}
  PROVE  Min(T) \in T /\ Max(T) \in T
  <1>1. Min(T) \in T
    <2>1. T \subseteq Nat
      OBVIOUS
    <2> QED
      BY <2>1, Least DEF Min
  <1>2. Max(T) \in T
    <2> DEFINE B == {i \in 0..n : n - i \in T}
    <2>1. B \subseteq Nat
      OBVIOUS
    <2>2. B # {}
      <3>1. PICK x \in T : TRUE
        OBVIOUS
      <3>2. n - x \in 0..n /\ n - (n - x) = x
        OBVIOUS
      <3>3. n - x \in B
        BY <3>2
      <3> QED
        BY <3>3
    <2>3. PICK b \in B : \A c \in B : b <= c
      <3> HIDE DEF B
      <3> QED
        BY <2>1, <2>2, Least
    <2>4. \A y \in T : n - b >= y
      <3> SUFFICES ASSUME NEW y \in T
                   PROVE  n - b >= y
        OBVIOUS
      <3>1. y \in 1..n /\ n - y \in 0..n /\ n - (n - y) = y
        OBVIOUS
      <3>2. b <= n - y
        BY <2>3, <3>1
      <3> QED
        BY <3>1, <3>2
    <2>5. n - b \in T
      OBVIOUS
    <2> QED
      BY <2>4, <2>5 DEF Max
  <1> QED
    BY <1>1, <1>2

LEMMA ResultFacts ==
  /\ NoResult \in Results
  /\ \A r \in Results : r.total \in Nat /\ r.long \subseteq 1..MaxRows
  <1>1. NoResult \in Results
    <2> DEFINE n == 0
               b == Never
               L == {}
    <2>1. n \in 0..(MaxRows + 1) /\ b \in 0..(MaxRows + 1) \cup {Never} /\ L \in SUBSET (1..MaxRows)
      BY LimitsAssumption
    <2> HIDE DEF n, b, L
    <2>2. [total |-> n, breaks |-> b, long |-> L] \in Results
      BY <2>1 DEF Results
    <2> QED
      BY <2>2 DEF NoResult, n, b, L
  <1>2. ASSUME NEW r \in Results
        PROVE  r.total \in Nat /\ r.long \subseteq 1..MaxRows
    <2>1. PICK n \in 0..(MaxRows + 1), b \in 0..(MaxRows + 1) \cup {Never},
               L \in SUBSET (1..MaxRows) :
                 r = [total |-> n, breaks |-> b, long |-> L]
      BY DEF Results
    <2> QED
      BY <2>1, LimitsAssumption
  <1> QED
    BY <1>1, <1>2

LEMMA TrimIsText ==
  ASSUME NEW sql \in Seq(Chars)
  PROVE  Trim(sql) \in Seq(Chars)
  <1> DEFINE ink == {i \in DOMAIN sql : sql[i] \notin Blanks}
  <1>1. Len(sql) \in Nat /\ DOMAIN sql = 1..Len(sql)
    OBVIOUS
  <1>2. CASE ink = {}
    BY <1>2 DEF Trim
  <1>3. CASE ink # {}
    <2>1. Min(ink) \in ink /\ Max(ink) \in ink
      BY <1>1, <1>3, Extremes
    <2>2. Min(ink) \in 1..Len(sql) /\ Max(ink) \in 1..Len(sql)
      BY <1>1, <2>1
    <2>3. SubSeq(sql, Min(ink), Max(ink)) \in Seq(Chars)
      <3> DEFINE a == Min(ink)
                 b == Max(ink)
      <3> HIDE DEF a, b
      <3>1. a \in 1..Len(sql) /\ b \in 1..Len(sql)
        BY <2>2 DEF a, b
      <3>2. SubSeq(sql, a, b) \in Seq(Chars)
        BY <1>1, <3>1
      <3> QED
        BY <3>2 DEF a, b
    <2> QED
      BY <1>3, <2>3 DEF Trim
  <1> QED
    BY <1>2, <1>3

LEMMA InitQueryInv ==
  ASSUME \/ QueryInit
         \/ NoQueryPanel
  PROVE  QueryInv
  <1> USE LimitsAssumption
  <1>1. <<>> \in Seq(Chars) /\ Select \in Seq(Chars)
    BY DEF Select, Chars, Letters
  <1>2. text \in Seq(Chars) /\ sent \in Seq(Chars) /\ tab \in {"query", "data"}
        /\ stage \in {"idle", "sent"} /\ Unanswered
    BY <1>1, TextsAssumption DEF QueryInit, NoQueryPanel
  <1>3. QueryTypeOK
    <2>1. NoResult \in Results
      BY ResultFacts
    <2>2. pageSize \in Sizes
      BY <1>2 DEF Unanswered
    <2>3. truncated \in BOOLEAN
      BY <1>2, Zenon DEF Unanswered
    <2>4. /\ rows \in 0..MaxRows /\ warnings \in 0..MaxWarnings /\ resp.rows \in 0..MaxRows
          /\ resp.truncated \in {"none", "yes", "no"} /\ pageNo \in 1..MaxRows
          /\ sqlErr \in {"yes", "no"} /\ result \in Results /\ sent \in Seq(Chars)
          /\ stage \in {"idle", "sent", "accepted", "rows", "end"}
      BY <1>2, <2>1 DEF Unanswered, NoResp
    <2> QED
      BY <1>2, <2>2, <2>3, <2>4, Zenon DEF QueryTypeOK
  <1>4. Gathering /\ AnswerIsHonest /\ PageExists
    BY <1>2 DEF Gathering, AnswerIsHonest, PageExists, Unanswered, NoResp
  <1> QED
    BY <1>2, <1>3, <1>4 DEF QueryInv

(***************************************************************************)
(* The tabs.                                                               *)
(***************************************************************************)
LEMMA RunPreserves ==
  ASSUME QueryInv, NEW typed \in LaterTexts, Run(typed) \/ Retype(typed)
  PROVE  QueryInv'
  <1> USE LimitsAssumption
  <1>1. text' \in Seq(Chars)
    BY TextsAssumption DEF QueryInv, Run, Retype
  <1>2. sent' \in Seq(Chars)
    BY TrimIsText DEF QueryInv, QueryTypeOK, Run, Retype
  <1>3. resp' \in {resp, NoResp}
    BY DEF Run, Retype
  <1>4. QueryTypeOK'
    BY <1>2, <1>3 DEF QueryInv, QueryTypeOK, NoResp, Run, Retype, gathered, pages
  <1>5. Gathering'
    BY DEF QueryInv, Gathering, Run, Retype, gathered
  <1>6. AnswerIsHonest'
    BY <1>3 DEF QueryInv, AnswerIsHonest
  <1>7. PageExists'
    BY <1>3 DEF QueryInv, PageExists, NoResp, Run, Retype, pages
  <1> QED
    BY <1>1, <1>4, <1>5, <1>6, <1>7 DEF QueryInv

\* The last page that has a row.
LEMMA PageHasRows ==
  ASSUME NEW n \in Nat, NEW size \in Nat \ {0}
  PROVE  /\ PagesOf(n, size) \in Nat
         /\ n > 0 => PagesOf(n, size) >= 1
         /\ \A p \in 1..PagesOf(n, size) : (p - 1) * size < n
  <1> DEFINE a == n + size - 1
             d == a \div size
  <1>1. a \in Nat /\ d \in Nat /\ size * d <= a /\ a < size * (d + 1)
    OBVIOUS
  <1>2. PagesOf(n, size) = d
    BY DEF PagesOf
  <1> HIDE DEF d
  <1>3. n > 0 => d >= 1
    <2> SUFFICES ASSUME n > 0, d = 0
                 PROVE  FALSE
      BY <1>1
    <2>1. a < size
      BY <1>1
    <2> QED
      BY <2>1
  <1>4. ASSUME NEW p \in 1..d
        PROVE  (p - 1) * size < n
    <2>1. p * size <= d * size
      BY <1>1
    <2>2. p * size <= a
      BY <1>1, <2>1
    <2>3. (p - 1) * size = p * size - size
      BY <1>1
    <2> QED
      BY <1>1, <2>2, <2>3
  <1> QED
    BY <1>1, <1>2, <1>3, <1>4

LEMMA PagesPreserve ==
  ASSUME QueryInv,
         (\E p \in 1..MaxRows : TurnPage(p)) \/ (\E s \in Sizes : ResizePage(s))
  PROVE  QueryInv'
  <1> USE LimitsAssumption
  <1>1. UNCHANGED <<editor, stage, sent, result, gathered, resp, sqlErr>>
    BY DEF TurnPage, ResizePage
  <1>2. /\ resp.rows \in Nat /\ pageSize \in Nat \ {0} /\ pageNo \in 1..MaxRows
        /\ resp.rows > 0 => (pageNo - 1) * pageSize < resp.rows
    BY DEF QueryInv, QueryTypeOK, PageExists
  <1>3. /\ pageNo' \in 1..MaxRows /\ pageSize' \in Sizes
        /\ resp.rows > 0 => (pageNo' - 1) * pageSize' < resp.rows
    <2>1. CASE \E p \in 1..MaxRows : TurnPage(p)
      BY <1>2, <2>1, PageHasRows DEF TurnPage, QueryInv, QueryTypeOK
    <2>2. CASE \E s \in Sizes : ResizePage(s)
      <3> PICK s \in Sizes : ResizePage(s)
        BY <2>2
      <3> DEFINE n == resp.rows
                 p == ShownPage(pageNo, n, pageSize)
      <3>1. pageNo' = ShownPage(p, n, s) /\ pageSize' = s
        BY DEF ResizePage
      <3>2. PagesOf(n, pageSize) \in Nat /\ (n > 0 => PagesOf(n, pageSize) >= 1)
            /\ PagesOf(n, s) \in Nat /\ (n > 0 => PagesOf(n, s) >= 1)
            /\ \A q \in 1..PagesOf(n, s) : (q - 1) * s < n
        BY <1>2, PageHasRows
      <3>3. p \in 1..MaxRows
        BY <1>2, <3>2 DEF ShownPage, AtMost
      <3> HIDE DEF p, n
      <3>4. ShownPage(p, n, s) \in 1..MaxRows /\ (n > 0 => ShownPage(p, n, s) \in 1..PagesOf(n, s))
        BY <1>2, <3>2, <3>3 DEF ShownPage, AtMost, n
      <3> QED
        BY <3>1, <3>2, <3>4 DEF n
    <2> QED
      BY <2>1, <2>2
  <1>4. QueryTypeOK'
    BY <1>1, <1>3 DEF QueryInv, QueryTypeOK, editor, gathered
  <1>5. Gathering' /\ AnswerIsHonest'
    BY <1>1 DEF QueryInv, Gathering, AnswerIsHonest, gathered
  <1>6. PageExists'
    BY <1>1, <1>3 DEF PageExists
  <1> QED
    BY <1>1, <1>4, <1>5, <1>6 DEF QueryInv, editor

(***************************************************************************)
(* The handler.                                                            *)
(***************************************************************************)
LEMMA FailsPreserves ==
  ASSUME QueryInv, Fails
  PROVE  QueryInv'
  <1> USE LimitsAssumption DEF Fails, Answered
  <1>1. NoResult \in Results
    BY ResultFacts
  <1>2. QueryTypeOK'
    <2>1. truncated' \in BOOLEAN
      BY Zenon
    <2>2. /\ rows' \in 0..MaxRows /\ warnings' \in 0..MaxWarnings /\ sent' \in Seq(Chars)
          /\ stage' \in {"idle", "sent", "accepted", "rows", "end"} /\ result' \in Results
          /\ sqlErr' \in {"yes", "no"}
      BY <1>1
    <2>3. UNCHANGED <<tab, resp, pageNo, pageSize>>
      BY DEF editor, pages
    <2> QED
      BY <2>1, <2>2, <2>3, Zenon DEF QueryInv, QueryTypeOK
  <1>3. Gathering' /\ AnswerIsHonest' /\ PageExists'
    BY DEF QueryInv, Gathering, AnswerIsHonest, PageExists, editor, pages
  <1> QED
    BY <1>2, <1>3 DEF QueryInv, editor

LEMMA CheckPreserves ==
  ASSUME QueryInv, CheckText
  PROVE  QueryInv'
  <1>1. CASE Fails
    BY <1>1, FailsPreserves
  <1>2. CASE ~Fails
    <2>1. /\ stage = "sent" /\ stage' = "accepted" /\ sent' = <<>>
          /\ UNCHANGED <<editor, result, gathered, resp, sqlErr, pages>>
      BY <1>2 DEF CheckText
    <2>2. QueryTypeOK'
      BY <2>1 DEF QueryInv, QueryTypeOK, editor, gathered, pages
    <2>3. Gathering' /\ AnswerIsHonest' /\ PageExists'
      BY <2>1 DEF QueryInv, Gathering, AnswerIsHonest, PageExists, gathered, pages
    <2> QED
      BY <2>1, <2>2, <2>3 DEF QueryInv, editor
  <1> QED
    BY <1>1, <1>2

LEMMA QueryPreserves ==
  ASSUME QueryInv, NEW r \in Results, Query(r)
  PROVE  QueryInv'
  <1> USE LimitsAssumption DEF Query
  <1>1. QueryTypeOK'
    BY DEF QueryInv, QueryTypeOK, editor, gathered, pages
  <1>2. r.total \in Nat /\ \A i \in r.long : i \in Nat /\ i >= 1
    BY ResultFacts
  <1>3. Gathering'
    BY <1>2 DEF QueryInv, Gathering, gathered
  <1>4. AnswerIsHonest' /\ PageExists'
    BY DEF QueryInv, AnswerIsHonest, PageExists, pages
  <1> QED
    BY <1>1, <1>3, <1>4 DEF QueryInv, editor

LEMMA RowsPreserve ==
  ASSUME QueryInv, StopAtLimit \/ AppendRow
  PROVE  QueryInv'
  <1> USE LimitsAssumption DEF HasNext, Warn, AtMost
  <1>0. /\ result.total \in Nat /\ rows \in 0..MaxRows /\ warnings \in 0..MaxWarnings
        /\ \A i \in result.long : i \in Nat /\ i >= 1
    BY ResultFacts DEF QueryInv, QueryTypeOK
  <1>1. UNCHANGED <<editor, sent, result, resp, sqlErr, pages>>
    BY DEF StopAtLimit, AppendRow
  <1>2. QueryTypeOK'
    <2>1. truncated' \in BOOLEAN
      BY Zenon DEF QueryInv, QueryTypeOK, StopAtLimit, AppendRow
    <2>2. /\ rows' \in 0..MaxRows /\ warnings' \in 0..MaxWarnings
          /\ stage' \in {"rows", "end"}
      BY <1>0 DEF StopAtLimit, AppendRow
    <2>3. UNCHANGED <<tab, sent, result, resp, sqlErr, pageNo, pageSize>>
      BY <1>1 DEF editor, pages
    <2>4. stage' \in {"idle", "sent", "accepted", "rows", "end"}
      BY <2>2
    <2> QED
      BY <2>1, <2>2, <2>3, <2>4, Zenon DEF QueryInv, QueryTypeOK
  <1>3. CASE StopAtLimit
    <2>1. /\ stage = "rows" /\ stage' = "end" /\ rows' = rows /\ truncated' = TRUE
          /\ rows = MaxRows /\ rows < result.total /\ rows # result.breaks
          /\ warnings' > 0 /\ result' = result
      BY <1>0, <1>3 DEF StopAtLimit
    <2>2. result.breaks \notin 0..MaxRows
      <3>1. result.breaks \notin 0..(MaxRows - 1)
        BY <2>1 DEF QueryInv, Gathering
      <3> QED
        BY <2>1, <3>1
    <2>3. Gathering'
      BY <2>1, <2>2 DEF QueryInv, Gathering
    <2> QED
      BY <1>1, <1>2, <2>3 DEF QueryInv, AnswerIsHonest, PageExists, editor, pages
  <1>4. CASE AppendRow
    <2>1. /\ stage = "rows" /\ stage' = "rows" /\ rows' = rows + 1 /\ result' = result
          /\ rows < result.total /\ rows # result.breaks
      BY <1>4 DEF AppendRow
    <2>2. result.breaks \notin 0..rows
      <3>1. result.breaks \notin 0..(rows - 1)
        BY <2>1 DEF QueryInv, Gathering
      <3> QED
        BY <1>0, <2>1, <3>1
    <2>3. result.breaks \notin 0..((rows + 1) - 1) /\ rows + 1 <= result.total
      BY <1>0, <2>1, <2>2
    <2>4. /\ truncated = TRUE <=> warnings > 0
          /\ truncated = TRUE <=> \E i \in result.long : i <= rows
          /\ \A i \in result.long : i <= result.total
      BY <2>1 DEF QueryInv, Gathering
    <2>5. CASE rows + 1 \in result.long
      <3>1. truncated' = TRUE /\ warnings' > 0
        BY <1>0, <1>4, <2>5 DEF AppendRow
      <3>2. \E i \in result.long : i <= rows + 1
        BY <1>0, <2>5
      <3>3. Gathering'
        BY <2>1, <2>3, <2>4, <3>1, <3>2 DEF Gathering
      <3> QED
        BY <1>1, <1>2, <3>3 DEF QueryInv, AnswerIsHonest, PageExists, editor, pages
    <2>6. CASE rows + 1 \notin result.long
      <3>1. truncated' = truncated /\ warnings' = warnings
        BY <1>4, <2>6 DEF AppendRow
      <3>2. (\E i \in result.long : i <= rows + 1) <=> (\E i \in result.long : i <= rows)
        BY <1>0, <2>6
      <3>3. Gathering'
        BY <2>1, <2>3, <2>4, <3>1, <3>2 DEF Gathering
      <3> QED
        BY <1>1, <1>2, <3>3 DEF QueryInv, AnswerIsHonest, PageExists, editor, pages
    <2> QED
      BY <2>5, <2>6
  <1> QED
    BY <1>3, <1>4

LEMMA AnswerPreserves ==
  ASSUME QueryInv, AnswerRows
  PROVE  QueryInv'
  <1> USE LimitsAssumption
  <1>0. /\ result.total \in Nat /\ rows \in 0..MaxRows /\ warnings \in 0..MaxWarnings
        /\ truncated \in BOOLEAN /\ result.long \subseteq 1..MaxRows
    BY ResultFacts DEF QueryInv, QueryTypeOK
  <1>1. /\ resp' = [rows |-> rows, truncated |-> IF truncated THEN "yes" ELSE "no",
                    warnings |-> warnings, of |-> result]
        /\ pageNo' = 1 /\ pageSize' = pageSize /\ Answered
        /\ UNCHANGED <<editor, sqlErr>>
    BY DEF AnswerRows
  <1>2. NoResult \in Results
    BY ResultFacts
  <1>3. QueryTypeOK'
    <2>1. truncated' \in BOOLEAN
      BY <1>1, Zenon DEF Answered
    <2>2. /\ rows' \in 0..MaxRows /\ warnings' \in 0..MaxWarnings /\ sent' \in Seq(Chars)
          /\ stage' \in {"idle", "sent", "accepted", "rows", "end"} /\ result' \in Results
          /\ pageNo' \in 1..MaxRows
      BY <1>1, <1>2 DEF Answered
    <2>3. resp'.rows \in 0..MaxRows /\ resp'.truncated \in {"none", "yes", "no"}
      BY <1>0, <1>1
    <2>4. UNCHANGED <<tab, sqlErr, pageSize>>
      BY <1>1 DEF editor
    <2> QED
      BY <2>1, <2>2, <2>3, <2>4, Zenon DEF QueryInv, QueryTypeOK
  <1>4. Gathering'
    BY <1>1 DEF Gathering, Answered
  <1>5. PageExists'
    <2>1. pageSize \in Nat
      BY DEF QueryInv, QueryTypeOK
    <2> QED
      BY <1>0, <1>1, <2>1 DEF PageExists
  <1>6. /\ rows = AtMost(result.total, MaxRows)
        /\ truncated = TRUE <=> result.total > MaxRows \/ result.long # {}
        /\ truncated = TRUE <=> warnings > 0
        /\ result.breaks \notin 0..AtMost(result.total, MaxRows)
    <2>1. CASE stage = "end"
      BY <1>0, <2>1 DEF QueryInv, Gathering, AtMost
    <2>2. CASE stage = "rows" /\ rows = result.total /\ rows # result.breaks
      <3>1. /\ \A i \in result.long : i <= result.total
            /\ truncated = TRUE <=> warnings > 0
            /\ truncated = TRUE <=> \E i \in result.long : i <= rows
            /\ result.breaks \notin 0..(rows - 1)
        BY <2>2 DEF QueryInv, Gathering
      <3>2. result.breaks \notin 0..rows
        BY <1>0, <2>2, <3>1
      <3>3. AtMost(result.total, MaxRows) = rows /\ ~(result.total > MaxRows)
        BY <1>0, <2>2 DEF AtMost
      <3> QED
        BY <2>2, <3>1, <3>2, <3>3
    <2> QED
      BY <2>1, <2>2 DEF AnswerRows
  <1>7. AnswerIsHonest'
    <2>1. (IF truncated THEN "yes" ELSE "no") = "yes" <=> truncated = TRUE
      BY <1>0
    <2> QED
      BY <1>0, <1>1, <1>6, <2>1 DEF AnswerIsHonest
  <1> QED
    BY <1>1, <1>3, <1>4, <1>5, <1>7 DEF QueryInv, editor

LEMMA QueryInductive == QueryInv /\ [QueryNext]_queryVars => QueryInv'
  <1> SUFFICES ASSUME QueryInv, [QueryNext]_queryVars
               PROVE  QueryInv'
    OBVIOUS
  <1>1. CASE UNCHANGED queryVars
    BY <1>1 DEF queryVars, editor, gathered, pages, QueryInv, QueryTypeOK, Gathering,
                AnswerIsHonest, PageExists
  <1>2. CASE RowsBreak \/ QueryFails
    BY <1>2, FailsPreserves DEF RowsBreak, QueryFails
  <1> QED
    BY <1>1, <1>2, RunPreserves, PagesPreserve, CheckPreserves, QueryPreserves, RowsPreserve,
       AnswerPreserves DEF QueryNext

(***************************************************************************)
(* RedisKeysTab: the requests and the pages.                               *)
(***************************************************************************)
LEMMA InitListInv ==
  ASSUME ListInit \/ NoListPanel
  PROVE  ListInv
  <1>1. /\ open = "no" /\ pattern = Star /\ listCursor = 0 /\ keys = <<>> /\ loading = "no"
        /\ err = "no" /\ asked = Star /\ rushed = "no" /\ shown = <<>> /\ stored = NoItem
        /\ full = 0 /\ inFlight = [s \in Slots |-> NoRequest]
        /\ legacy \in {NoItem} \cup {<<Item(p, "yes")>> : p \in Patterns}
    BY DEF ListInit, NoListPanel
  <1>2. RecentInv
    <2>1. ASSUME legacy # NoItem
          PROVE  RecentList(legacy) /\ Len(legacy) <= MaxItems
      <3>1. PICK p \in Patterns : legacy = <<Item(p, "yes")>>
        BY <1>1, <2>1
      <3> DEFINE x == Item(p, "yes")
      <3>2. x \in Items
        BY DEF Item, Items
      <3> HIDE DEF x
      <3>3. <<x>> \in Seq(Items) /\ Len(<<x>>) = 1 /\ DOMAIN <<x>> = 1..1
        BY <3>2
      <3>4. \A i, j \in 1..1 : i = j
        OBVIOUS
      <3>5. RecentList(<<x>>) /\ Len(<<x>>) <= MaxItems
        BY <3>3, <3>4, MaxItemsAssumption DEF RecentList, OnePerPattern
      <3> QED
        BY <3>1, <3>5 DEF x
    <2>2. Len(<<>>) <= MaxItems + 1 /\ 0 \in 0..MaxFull
      BY EmptyList, MaxItemsAssumption, MaxFullAssumption
    <2> QED
      BY <1>1, <2>1, <2>2, EmptyList DEF RecentInv
  <1>3. Awaited = {}
    BY <1>1 DEF Awaited
  <1>4. InOrder
    BY <1>1, <1>3, PagesAssumption DEF InOrder
  <1> QED
    BY <1>1, <1>2, <1>4, StarAssumption, PagesAssumption DEF ListInv, Inputs, ListCursors

\* What leaves the requests and the screen alone.
LEMMA LeavesPages ==
  ASSUME ListInv, RecentInv', UNCHANGED <<screen, inFlight, asked, rushed>>,
         open' \in {"yes", "no"}, pattern' \in Inputs
  PROVE  ListInv'
  BY DEF ListInv, InOrder, Awaited, screen

LEMMA ClosePreserves ==
  ASSUME ListInv, Close
  PROVE  ListInv'
  <1> USE DEF Close
  <1>1. RecentInv'
    <2>1. Len(<<>>) <= MaxItems + 1
      BY EmptyList, MaxItemsAssumption
    <2> QED
      BY <2>1, EmptyList DEF ListInv, RecentInv, recentItems
  <1>2. \A s \in Slots : inFlight'[s] \in Requests \cup {NoRequest}
                         /\ (inFlight'[s] # NoRequest => inFlight'[s].for = "nobody")
    <2> SUFFICES ASSUME NEW s \in Slots
                 PROVE  inFlight'[s] \in Requests \cup {NoRequest}
                        /\ (inFlight'[s] # NoRequest => inFlight'[s].for = "nobody")
      OBVIOUS
    <2>1. inFlight[s] \in Requests \cup {NoRequest}
      BY DEF ListInv
    <2>2. CASE s \in Awaited
      BY <2>1, <2>2 DEF Awaited, Requests
    <2>3. CASE s \notin Awaited
      BY <2>1, <2>3 DEF Awaited, Requests
    <2> QED
      BY <2>2, <2>3
  <1>3. inFlight' \in [Slots -> Requests \cup {NoRequest}] /\ Awaited' = {}
    BY <1>2 DEF Awaited
  <1>4. InOrder'
    BY <1>3, PagesAssumption DEF InOrder
  <1> QED
    BY <1>1, <1>3, <1>4, StarAssumption, PagesAssumption DEF ListInv, Inputs, ListCursors

(***************************************************************************)
(* run, up to its await.                                                   *)
(***************************************************************************)
LEMMA SendPreserves ==
  ASSUME ListInv, RecentInv', open' = open, pattern' \in Inputs, asked' \in Patterns,
         NEW m \in {"reset", "append"}, Send(m, pattern),
         m = "append" => listCursor # 0,
         rushed' \in {"yes", "no"},
         rushed' = "no" => rushed = "no" /\ Awaited = {}
  PROVE  ListInv'
  <1> DEFINE q == [mode |-> m, pattern |-> Effective(pattern),
                   cursor |-> IF m = "reset" THEN 0 ELSE listCursor, for |-> "tab"]
  <1>1. PICK s \in Slots : inFlight[s] = NoRequest /\ inFlight' = [inFlight EXCEPT ![s] = q]
    BY DEF Send
  <1>2. /\ IF m = "reset" THEN keys' = <<>> /\ listCursor' = 0
                          ELSE UNCHANGED <<keys, listCursor>>
        /\ loading' = "yes" /\ err' = "no"
    BY DEF Send
  <1>3. q \in Requests
    BY StarAssumption, PagesAssumption DEF ListInv, Effective, Inputs, ListCursors, Requests
  <1>4. inFlight' \in [Slots -> Requests \cup {NoRequest}]
    BY <1>1, <1>3 DEF ListInv
  <1>5. q # NoRequest /\ q.for = "tab" /\ q.mode = m
        /\ q.cursor = IF m = "reset" THEN 0 ELSE listCursor
    BY <1>3, NoRequestAssumption
  <1> HIDE DEF q
  <1>6. Awaited' = Awaited \cup {s} /\ inFlight'[s] = q
    BY <1>1, <1>5 DEF ListInv, Awaited
  <1>7. ASSUME rushed' = "no"
        PROVE  InOrder'
    <2>1. InOrder /\ Awaited' = {s}
      BY <1>6, <1>7 DEF ListInv
    <2>2. CASE m = "reset"
      BY <1>2, <1>5, <1>6, <2>1, <2>2, PagesAssumption DEF InOrder
    <2>3. CASE m = "append"
      BY <1>2, <1>5, <1>6, <2>1, <2>3 DEF InOrder
    <2> QED
      BY <2>2, <2>3
  <1>8. keys' \in Seq([cursor : ListCursors, pattern : Patterns]) /\ listCursor' \in ListCursors
    <2>1. 0 \in ListCursors
      BY PagesAssumption DEF ListCursors
    <2>2. <<>> \in Seq([cursor : ListCursors, pattern : Patterns])
      OBVIOUS
    <2> QED
      BY <1>2, <2>1, <2>2 DEF ListInv
  <1>9. open' \in {"yes", "no"} /\ loading' \in {"yes", "no"} /\ err' \in {"yes", "no"}
    BY <1>2 DEF ListInv
  <1> QED
    BY <1>4, <1>7, <1>8, <1>9 DEF ListInv

LEMMA RushPreserves ==
  ASSUME ListInv, Rush
  PROVE  rushed' \in {"yes", "no"} /\ (rushed' = "no" => rushed = "no" /\ Awaited = {})
  BY DEF ListInv, Rush

LEMMA ClicksPreserve ==
  ASSUME ListInv,
         \/ ClickScan \/ ClickMore \/ PressEnter
         \/ \E p \in Patterns : PickRecent(p) \/ DoubleClick(p)
  PROVE  ListInv'
  <1>1. Effective(pattern) \in Patterns
    BY StarAssumption DEF ListInv, Effective, Inputs
  <1>2. UNCHANGED recents => RecentInv'
    BY DEF ListInv, RecentInv, recents, recentItems
  <1>3. CASE ClickScan \/ ClickMore
    <2>1. /\ rushed' = rushed /\ open' = open /\ pattern' = pattern /\ RecentInv'
          /\ asked' \in Patterns /\ rushed \in {"yes", "no"} /\ pattern \in Inputs
      BY <1>1, <1>2, <1>3 DEF ClickScan, ClickMore, ListInv
    <2>2. rushed = "no" => Awaited = {}
      BY <1>3 DEF ClickScan, ClickMore, ListInv, InOrder
    <2>3. CASE ClickScan
      BY <2>1, <2>2, <2>3, SendPreserves DEF ClickScan
    <2>4. CASE ClickMore
      BY <2>1, <2>2, <2>4, SendPreserves DEF ClickMore
    <2> QED
      BY <1>3, <2>3, <2>4
  <1>4. CASE PressEnter
    <2>1. open' = open /\ pattern' \in Inputs /\ RecentInv' /\ asked' \in Patterns
          /\ Send("reset", pattern) /\ Rush
      BY <1>1, <1>2, <1>4 DEF PressEnter, ListInv
    <2> QED
      BY <2>1, RushPreserves, SendPreserves
  <1>5. ASSUME NEW p \in Patterns, PickRecent(p) \/ DoubleClick(p)
        PROVE  ListInv'
    <2>1. RecentInv'
      BY <1>2, <1>5, ToggleKeeps DEF PickRecent, DoubleClick, ListInv
    <2>2. open' = open /\ pattern' \in Inputs /\ asked' \in Patterns
          /\ Send("reset", pattern) /\ Rush
      BY <1>5 DEF PickRecent, DoubleClick, ListInv, Inputs
    <2> QED
      BY <2>1, <2>2, RushPreserves, SendPreserves
  <1> QED
    BY <1>3, <1>4, <1>5

(***************************************************************************)
(* run, after its await: the answer awaited is the next page.              *)
(***************************************************************************)
LEMMA NotAwaited ==
  ASSUME ListInv, NEW s \in Slots, inFlight[s] # NoRequest,
         inFlight' = [inFlight EXCEPT ![s] = NoRequest]
  PROVE  /\ inFlight' \in [Slots -> Requests \cup {NoRequest}]
         /\ Awaited' = Awaited \ {s}
         /\ \A u \in Awaited' : inFlight'[u] = inFlight[u]
         /\ s \in Awaited <=> inFlight[s].for = "tab"
         /\ inFlight[s] \in Requests
  BY DEF ListInv, Awaited

LEMMA NextPage ==
  ASSUME NEW n \in Nat, n < Pages
  PROVE  n % Pages = n /\ NextCursor(n) = (n + 1) % Pages /\ NextCursor(n) \in ListCursors
  BY PagesAssumption DEF NextCursor, ListCursors

LEMMA AnswerListPreserves ==
  ASSUME ListInv, NEW s \in Slots, Answer(s)
  PROVE  ListInv'
  <1> DEFINE q == inFlight[s]
             before == IF q.mode = "reset" THEN <<>> ELSE keys
             nextPage == Page(q.cursor, q.pattern)
  <1>1. /\ inFlight' \in [Slots -> Requests \cup {NoRequest}]
        /\ Awaited' = Awaited \ {s}
        /\ \A u \in Awaited' : inFlight'[u] = inFlight[u]
        /\ s \in Awaited <=> q.for = "tab"
        /\ q \in Requests
    BY NotAwaited DEF Answer
  <1>2. UNCHANGED <<open, pattern, asked, rushed>>
    BY DEF Answer
  <1>3. q.pattern \in Patterns /\ q.cursor \in ListCursors /\ q.mode \in {"reset", "append"}
    BY <1>1 DEF Requests
  <1>4. RecentInv'
    <2>1. (q.for = "tab") \in BOOLEAN
      OBVIOUS
    <2>2. CASE q.mode = "reset"
      BY <1>3, <2>1, <2>2, PushKeeps DEF Answer, ListInv
    <2>3. CASE q.mode # "reset"
      BY <2>3 DEF Answer, ListInv, RecentInv, recents, recentItems
    <2> QED
      BY <2>2, <2>3
  <1>5. CASE q.for # "tab"
    <2>1. UNCHANGED screen /\ Awaited' = Awaited
      BY <1>1, <1>5 DEF Answer
    <2> QED
      BY <1>1, <1>2, <1>4, <2>1 DEF ListInv, InOrder, screen
  <1>6. CASE q.for = "tab"
    <2>1. /\ listCursor' = NextCursor(q.cursor) /\ keys' = before \o <<nextPage>>
          /\ loading' = "no" /\ err' = err
      BY <1>6 DEF Answer
    <2>2. nextPage \in [cursor : ListCursors, pattern : Patterns] /\ nextPage.cursor = q.cursor
      BY <1>3 DEF Page
    <2>3. before \in Seq([cursor : ListCursors, pattern : Patterns])
      BY DEF ListInv
    <2> HIDE DEF before, nextPage
    <2>4. /\ keys' \in Seq([cursor : ListCursors, pattern : Patterns])
          /\ Len(keys') = Len(before) + 1
          /\ \A i \in 1..Len(before) : keys'[i] = before[i]
          /\ keys'[Len(before) + 1] = nextPage
      BY <2>1, <2>2, <2>3
    <2>5. listCursor' \in ListCursors
      BY <1>3, <2>1, NextPage, PagesAssumption DEF ListCursors
    <2>6. ASSUME rushed = "no"
          PROVE  InOrder'
      <3>1. InOrder /\ s \in Awaited /\ Awaited' = {}
        BY <1>1, <1>6, <2>6 DEF ListInv, InOrder
      <3>2. q.cursor = Len(before) /\ Len(before) < Pages
            /\ \A i \in 1..Len(before) : before[i].cursor = i - 1
        <4>1. CASE q.mode = "reset"
          BY <3>1, <4>1, PagesAssumption DEF InOrder, before
        <4>2. CASE q.mode # "reset"
          <5>1. /\ q.cursor = Len(keys) % Pages /\ Len(keys) % Pages # 0 /\ Len(keys) <= Pages
                /\ \A i \in DOMAIN keys : keys[i].cursor = i - 1
            BY <3>1, <4>2 DEF InOrder
          <5>2. Len(keys) \in Nat /\ DOMAIN keys = 1..Len(keys)
            BY DEF ListInv
          <5>3. Len(keys) # Pages
            BY <5>1, PagesAssumption
          <5>4. Len(keys) < Pages
            <6>1. Len(keys) \in Nat /\ Len(keys) <= Pages
              BY <5>1, <5>2
            <6>2. ASSUME NEW n \in Nat, n <= Pages, n # Pages
                  PROVE  n < Pages
              BY <6>2, PagesAssumption
            <6> QED
              BY <5>3, <6>1, <6>2
          <5>5. Len(keys) % Pages = Len(keys)
            BY <5>2, <5>4, NextPage
          <5> QED
            BY <4>2, <5>1, <5>2, <5>4, <5>5 DEF before
        <4> QED
          BY <4>1, <4>2
      <3>3. Len(before) \in Nat
        BY <2>3
      <3>4. \A i \in DOMAIN keys' : keys'[i].cursor = i - 1
        <4> SUFFICES ASSUME NEW i \in DOMAIN keys'
                     PROVE  keys'[i].cursor = i - 1
          OBVIOUS
        <4>1. i \in 1..(Len(before) + 1)
          BY <2>4, <3>3
        <4>2. CASE i = Len(before) + 1
          BY <2>2, <2>4, <3>2, <3>3, <4>2
        <4>3. CASE i \in 1..Len(before)
          BY <2>4, <3>2, <4>3
        <4> QED
          BY <3>3, <4>1, <4>2, <4>3
      <3>5. Len(keys') <= Pages /\ listCursor' = Len(keys') % Pages
        BY <2>1, <2>4, <3>2, <3>3, NextPage, PagesAssumption
      <3> QED
        BY <2>1, <3>1, <3>4, <3>5 DEF InOrder
    <2> QED
      BY <1>1, <1>2, <1>4, <2>1, <2>4, <2>5, <2>6 DEF ListInv
  <1> QED
    BY <1>5, <1>6

LEMMA FailurePreservesList ==
  ASSUME ListInv, NEW s \in Slots, Failure(s)
  PROVE  ListInv'
  <1>1. /\ inFlight' \in [Slots -> Requests \cup {NoRequest}]
        /\ Awaited' = Awaited \ {s}
        /\ \A u \in Awaited' : inFlight'[u] = inFlight[u]
        /\ s \in Awaited <=> inFlight[s].for = "tab"
    BY NotAwaited DEF Failure
  <1>2. UNCHANGED <<recents, open, pattern, listCursor, keys, asked, rushed>>
    BY DEF Failure
  <1>3. RecentInv'
    BY <1>2 DEF ListInv, RecentInv, recents, recentItems
  <1>4. loading' \in {"yes", "no"} /\ err' \in {"yes", "no"}
    BY DEF Failure, ListInv
  <1>5. ASSUME rushed = "no"
        PROVE  InOrder'
    <2>1. InOrder
      BY <1>5 DEF ListInv
    <2>2. CASE s \in Awaited
      <3>1. Awaited' = {} /\ loading' = "no"
        BY <1>1, <2>1, <2>2 DEF InOrder, Failure
      <3> QED
        BY <1>2, <2>1, <3>1 DEF InOrder
    <2>3. CASE s \notin Awaited
      <3>1. Awaited' = Awaited /\ loading' = loading
        BY <1>1, <2>3 DEF Failure
      <3> QED
        BY <1>1, <1>2, <2>1, <3>1 DEF InOrder
    <2> QED
      BY <2>2, <2>3
  <1> QED
    BY <1>1, <1>2, <1>3, <1>4, <1>5 DEF ListInv

LEMMA ListInductive == ListInv /\ [ListNext]_listVars => ListInv'
  <1> SUFFICES ASSUME ListInv, [ListNext]_listVars
               PROVE  ListInv'
    OBVIOUS
  <1>1. CASE UNCHANGED listVars
    BY <1>1 DEF listVars, recents, recentItems, screen, ListInv, RecentInv, InOrder, Awaited
  <1>2. CASE Open
    BY <1>2, ListKeeps, LeavesPages DEF Open, ListInv
  <1>3. CASE \E p \in Inputs : Type(p)
    BY <1>3, LeavesPages DEF Type, ListInv, RecentInv, recents, recentItems
  <1>4. CASE \E p \in Patterns : CloseTag(p)
    BY <1>4, RemoveKeeps, LeavesPages DEF CloseTag, ListInv
  <1>5. CASE ClickClear
    BY <1>5, ClearKeeps, LeavesPages DEF ClickClear, ListInv
  <1> QED
    BY <1>1, <1>2, <1>3, <1>4, <1>5, ClosePreserves, ClicksPreserve, AnswerListPreserves,
       FailurePreservesList
    DEF ListNext, Settle

(***************************************************************************)
(* The panels together: the one that is mounted takes the steps.           *)
(***************************************************************************)
LEMMA InitPanels == Init => PanelsInv
  <1> SUFFICES ASSUME Init
               PROVE  PanelsInv
    OBVIOUS
  <1>1. kind \in {"redis_keys", "redis_key", "mysql", "mysql_schema"}
    BY DEF Init
  <1>2. /\ ListInit \/ NoListPanel
        /\ KeyInit \/ NoKeyPanel
        /\ QueryInit \/ NoQueryPanel
        /\ SchemaInit \/ NoSchemaPanel
    BY DEF Init
  <1> QED
    BY <1>1, <1>2, InitListInv, InitKeyInv, InitQueryInv, InitSchemaInv DEF PanelsInv

LEMMA NextPanels == PanelsInv /\ [Next]_panelVars => PanelsInv'
  <1> SUFFICES ASSUME PanelsInv, [Next]_panelVars
               PROVE  PanelsInv'
    OBVIOUS
  <1>1. /\ kind' = kind
        /\ [ListNext]_listVars /\ [KeyNext]_keyVars
        /\ [QueryNext]_queryVars /\ [SchemaNext]_schemaVars
    BY DEF Next, panelVars
  <1> QED
    BY <1>1, ListInductive, KeyInvInductive, QueryInductive, SchemaInductive DEF PanelsInv

LEMMA PanelsInvariant == Spec => []PanelsInv
  BY InitPanels, NextPanels, PTL DEF Spec

(***************************************************************************)
(* SqlGuard: recursive functions have a solution, upwards from 0 and down  *)
(* from the end.                                                           *)
(***************************************************************************)
Grows(g, N, a, step) == g = [i \in 0..N |-> IF i = 0 THEN a ELSE step[i][g[i - 1]]]

Follows(g, n, a, step) == g[0] = a /\ \A i \in 1..n : g[i] = step[i][g[i - 1]]

LEMMA FollowsExists ==
  ASSUME NEW N \in Nat, NEW A, NEW a \in A, NEW step \in [1..N -> [A -> A]]
  PROVE  \E g \in [0..N -> A] : Grows(g, N, a, step)
  <1> DEFINE T == {n \in 0..N : \E g \in [0..n -> A] : Follows(g, n, a, step)}
  <1>1. 0 \in T
    <2> DEFINE g == [i \in 0..0 |-> a]
    <2>1. g \in [0..0 -> A] /\ Follows(g, 0, a, step)
      BY DEF Follows
    <2> HIDE DEF g
    <2> QED
      BY <2>1
  <1>2. ASSUME NEW n \in 0..(N - 1), n \in T
        PROVE  n + 1 \in T
    <2>1. PICK g \in [0..n -> A] : Follows(g, n, a, step)
      BY <1>2
    <2> DEFINE new == step[n + 1][g[n]]
               h == [i \in 0..(n + 1) |-> IF i = n + 1 THEN new ELSE g[i]]
    <2>2. new \in A
      <3>1. g[n] \in A /\ n + 1 \in 1..N
        OBVIOUS
      <3> QED
        BY <3>1
    <2> HIDE DEF new
    <2>3. h \in [0..(n + 1) -> A]
      BY <2>2
    <2>4. h[n + 1] = new /\ \A i \in 0..n : h[i] = g[i]
      OBVIOUS
    <2> HIDE DEF h
    <2>5. \A i \in 1..(n + 1) : h[i] = step[i][h[i - 1]]
      <3> SUFFICES ASSUME NEW i \in 1..(n + 1)
                   PROVE  h[i] = step[i][h[i - 1]]
        OBVIOUS
      <3>1. h[i - 1] = g[i - 1]
        BY <2>4
      <3>2. CASE i = n + 1
        BY <2>4, <3>1, <3>2 DEF new
      <3>3. CASE i \in 1..n
        BY <2>1, <2>4, <3>1, <3>3 DEF Follows
      <3> QED
        BY <3>2, <3>3
    <2>6. Follows(h, n + 1, a, step)
      BY <2>1, <2>4, <2>5 DEF Follows
    <2> QED
      BY <2>3, <2>6
  <1>3. N \in T
    <2> HIDE DEF T
    <2>1. \A i \in 0..N : i \in T
      BY <1>1, <1>2, UpTo, Zenon
    <2> QED
      BY <2>1
  <1>4. PICK g \in [0..N -> A] : Follows(g, N, a, step)
    BY <1>3
  <1>5. g = [i \in 0..N |-> IF i = 0 THEN a ELSE step[i][g[i - 1]]]
    BY <1>4 DEF Follows
  <1> QED
    BY <1>5 DEF Grows

\* From each position to the one it leads to, until one that leads nowhere.
Leads(f, n, N, to) ==
  \A i \in n..(N + 1) : f[i] = IF i > N THEN i ELSE IF to[i] = i THEN i ELSE f[to[i]]

Leading(f, N, to) ==
  f = [i \in 1..(N + 1) |-> IF i > N THEN i ELSE IF to[i] = i THEN i ELSE f[to[i]]]

LEMMA LeadsExists ==
  ASSUME NEW N \in Nat, NEW to \in [1..N -> 1..(N + 1)], \A i \in 1..N : to[i] >= i
  PROVE  \E f \in [1..(N + 1) -> Nat] : Leading(f, N, to)
  <1> DEFINE T == {n \in 0..N : \E f \in [(N + 1 - n)..(N + 1) -> Nat] :
                                  Leads(f, N + 1 - n, N, to)}
  <1>1. 0 \in T
    <2> DEFINE f == [i \in (N + 1 - 0)..(N + 1) |-> i]
    <2>1. f \in [(N + 1 - 0)..(N + 1) -> Nat] /\ Leads(f, N + 1 - 0, N, to)
      BY DEF Leads
    <2> HIDE DEF f
    <2> QED
      BY <2>1
  <1>2. ASSUME NEW n \in 0..(N - 1), n \in T
        PROVE  n + 1 \in T
    <2> DEFINE m == N + 1 - n
    <2>1. PICK f \in [m..(N + 1) -> Nat] : Leads(f, m, N, to)
      BY <1>2
    <2>2. m \in 2..(N + 1) /\ m - 1 = N + 1 - (n + 1) /\ m - 1 \in 1..N
      OBVIOUS
    <2> HIDE DEF m
    <2> DEFINE new == IF to[m - 1] = m - 1 THEN m - 1 ELSE f[to[m - 1]]
               h == [i \in (m - 1)..(N + 1) |-> IF i = m - 1 THEN new ELSE f[i]]
    <2>3. new \in Nat
      <3>1. to[m - 1] # m - 1 => to[m - 1] \in m..(N + 1)
        BY <2>2
      <3> QED
        BY <2>2, <3>1
    <2>4. h \in [(m - 1)..(N + 1) -> Nat]
      BY <2>2, <2>3
    <2>5. h[m - 1] = new /\ \A i \in m..(N + 1) : h[i] = f[i]
      BY <2>2
    <2> HIDE DEF h
    <2>6. ASSUME NEW i \in (m - 1)..(N + 1)
          PROVE  h[i] = IF i > N THEN i ELSE IF to[i] = i THEN i ELSE h[to[i]]
      <3>1. i \in 1..(N + 1) /\ (i <= N => to[i] \in i..(N + 1))
        BY <2>2
      <3>2. CASE i = m - 1
        <4>1. to[i] # i => to[i] \in m..(N + 1)
          BY <2>2, <3>1, <3>2
        <4> QED
          BY <2>2, <2>5, <3>2, <4>1
      <3>3. CASE i \in m..(N + 1)
        <4>1. i <= N => to[i] \in m..(N + 1)
          BY <2>2, <3>1, <3>3
        <4> QED
          BY <2>1, <2>5, <3>3, <4>1 DEF Leads
      <3> QED
        BY <2>2, <3>2, <3>3
    <2>7. Leads(h, m - 1, N, to)
      BY <2>6 DEF Leads
    <2>8. \E k \in [(N + 1 - (n + 1))..(N + 1) -> Nat] : Leads(k, N + 1 - (n + 1), N, to)
      BY <2>2, <2>4, <2>7
    <2> QED
      BY <2>8
  <1>3. N \in T
    <2> HIDE DEF T
    <2>1. \A i \in 0..N : i \in T
      BY <1>1, <1>2, UpTo, Zenon
    <2> QED
      BY <2>1
  <1>4. PICK f \in [1..(N + 1) -> Nat] : Leads(f, 1, N, to)
    BY <1>3
  <1>5. f = [i \in 1..(N + 1) |-> IF i > N THEN i ELSE IF to[i] = i THEN i ELSE f[to[i]]]
    BY <1>4 DEF Leads
  <1> QED
    BY <1>5 DEF Leading

(***************************************************************************)
(* SqlGuard: the pass, the pieces and the way to the keyword, step by step.*)
(***************************************************************************)
Modes == Quotes \cup {"code", "line", "block"}
Points == [in : Modes, next : {"read", "skip"}]

LEMMA AfterPoint ==
  ASSUME NEW sql, NEW i, NEW b \in Points
  PROVE  After(sql, i, b) \in Points
  <1>1. Mode(sql, i, b.in) \in Modes
    BY DEF Mode, Points, Modes
  <1> QED
    BY <1>1 DEF After, Points

\* The pass starts in code and goes on from each position to the next.
LEMMA PassFacts ==
  ASSUME NEW sql \in Seq(Chars)
  PROVE  /\ Pass(sql)[0] = Code
         /\ \A i \in 1..Len(sql) : Pass(sql)[i] = After(sql, i, Pass(sql)[i - 1])
         /\ \A i \in 0..Len(sql) : Pass(sql)[i] \in Points
  <1> DEFINE N == Len(sql)
             step == [i \in 1..N |-> [b \in Points |-> After(sql, i, b)]]
             Solves(g) == g = [i \in 0..N |-> IF i = 0 THEN Code ELSE After(sql, i, g[i - 1])]
  <1>1. Code \in Points
    BY DEF Code, Points, Modes
  <1>2. step \in [1..N -> [Points -> Points]]
    BY AfterPoint
  <1>3. \A i \in 1..N : \A b \in Points : step[i][b] = After(sql, i, b)
    OBVIOUS
  <1>4. N \in Nat
    OBVIOUS
  <1> HIDE DEF N, step
  <1>5. PICK g \in [0..N -> Points] : Grows(g, N, Code, step)
    BY <1>1, <1>2, <1>4, FollowsExists
  <1>6. Solves(g)
    <2>1. ASSUME NEW i \in 0..N
          PROVE  g[i] = IF i = 0 THEN Code ELSE After(sql, i, g[i - 1])
      <3>1. CASE i = 0
        BY <1>5, <3>1 DEF Grows
      <3>2. CASE i \in 1..N
        <4>1. g[i] = step[i][g[i - 1]] /\ g[i - 1] \in Points
          BY <1>4, <1>5, <3>2 DEF Grows
        <4> QED
          BY <1>3, <3>2, <4>1
      <3> QED
        BY <1>4, <3>1, <3>2
    <2> QED
      BY <1>5, <2>1 DEF Grows
  <1>7. Pass(sql) = CHOOSE f : Solves(f)
    BY DEF Pass, N
  <1>8. Solves(Pass(sql))
    <2> HIDE DEF Solves
    <2> QED
      BY <1>6, <1>7
  <1> DEFINE p == Pass(sql)
  <1>9. p = [i \in 0..N |-> IF i = 0 THEN Code ELSE After(sql, i, p[i - 1])]
    BY <1>8
  <1> HIDE DEF p
  <1>10. p[0] = Code /\ \A i \in 1..N : p[i] = After(sql, i, p[i - 1])
    BY <1>4, <1>9
  <1>11. \A i \in 0..N : p[i] \in Points
    <2> DEFINE T == {i \in 0..N : p[i] \in Points}
    <2>1. 0 \in T
      BY <1>1, <1>4, <1>10
    <2>2. ASSUME NEW i \in 0..(N - 1), i \in T PROVE i + 1 \in T
      <3>1. p[i] \in Points /\ p[i + 1] = After(sql, i + 1, p[i]) /\ i + 1 \in 0..N
        BY <1>4, <1>10, <2>2
      <3> QED
        BY <3>1, AfterPoint
    <2> HIDE DEF T
    <2>3. \A i \in 0..N : i \in T
      BY <1>4, <2>1, <2>2, UpTo, Zenon
    <2> QED
      BY <2>3 DEF T
  <1> QED
    BY <1>10, <1>11 DEF p, N

\* The first of the positions from i on that are in S.
LEMMA FirstFrom ==
  ASSUME NEW N \in Nat, NEW i \in 1..(N + 1), NEW S, \E j \in 1..N : j >= i /\ j \in S
  PROVE  \E j \in 1..N : j >= i /\ j \in S /\ \A k \in i..(j - 1) : k \notin S
  <1> DEFINE T == {j \in 1..N : j >= i /\ j \in S}
  <1>1. T \subseteq Nat /\ T # {}
    OBVIOUS
  <1>2. PICK j \in T : \A k \in T : j <= k
    BY <1>1, Least, Zenon
  <1>3. j \in 1..N /\ j >= i /\ j \in S
    BY <1>2
  <1>4. \A k \in i..(j - 1) : k \notin S
    BY <1>2, <1>3
  <1> QED
    BY <1>3, <1>4

\* LineEnd is the first end of a line from i on, if there is one.
LEMMA LineEndFacts ==
  ASSUME NEW sql \in Seq(Chars), NEW i \in 1..(Len(sql) + 1)
  PROVE  /\ LineEnd(sql, i) \in i..(Len(sql) + 1)
         /\ \A k \in i..(LineEnd(sql, i) - 1) : sql[k] # NL
         /\ LineEnd(sql, i) <= Len(sql) => sql[LineEnd(sql, i)] = NL
  <1> DEFINE N == Len(sql)
             S == {k \in 1..N : sql[k] = NL}
             e == LineEnd(sql, i)
  <1>0. N \in Nat /\ DOMAIN sql = 1..N /\ i \in 1..(N + 1)
    OBVIOUS
  <1>1. CASE \E j \in DOMAIN sql : j >= i /\ sql[j] = NL
    <2>1. \E j \in 1..N : j >= i /\ j \in S /\ \A k \in i..(j - 1) : k \notin S
      <3>1. \E j \in 1..N : j >= i /\ j \in S
        BY <1>0, <1>1
      <3> HIDE DEF S, N
      <3> QED
        BY <1>0, <3>1, FirstFrom
    <2>2. \E j \in DOMAIN sql : /\ j >= i /\ sql[j] = NL
                                /\ \A k \in i..(j - 1) : sql[k] # NL
      <3>1. PICK j \in 1..N : j >= i /\ j \in S /\ \A k \in i..(j - 1) : k \notin S
        BY <2>1
      <3>2. \A k \in i..(j - 1) : sql[k] # NL
        <4>1. \A k \in i..(j - 1) : k \in 1..N
          BY <1>0
        <4> QED
          BY <3>1, <4>1
      <3> QED
        BY <1>0, <3>1, <3>2
    <2>3. e = CHOOSE j \in DOMAIN sql : /\ j >= i /\ sql[j] = NL
                                        /\ \A k \in i..(j - 1) : sql[k] # NL
      BY <1>1 DEF LineEnd
    <2> HIDE DEF e
    <2>4. /\ e \in DOMAIN sql /\ e >= i /\ sql[e] = NL
          /\ \A k \in i..(e - 1) : sql[k] # NL
      BY <2>2, <2>3
    <2> QED
      BY <1>0, <2>4 DEF e
  <1>2. CASE ~\E j \in DOMAIN sql : j >= i /\ sql[j] = NL
    <2>1. e = N + 1
      BY <1>2 DEF LineEnd
    <2>2. \A k \in i..N : sql[k] # NL
      BY <1>0, <1>2
    <2> HIDE DEF e
    <2> QED
      BY <1>0, <2>1, <2>2 DEF e
  <1> QED
    BY <1>1, <1>2

\* BlockEnd is right after the first "*/" from i on, if there is one.
LEMMA BlockEndFacts ==
  ASSUME NEW sql \in Seq(Chars), NEW i \in 1..(Len(sql) + 1)
  PROVE  \/ /\ BlockEnd(sql, i) = Len(sql) + 1
            /\ \A k \in i..Len(sql) : ~BlockClose(sql, k)
         \/ /\ BlockEnd(sql, i) \in (i + 2)..(Len(sql) + 1)
            /\ BlockClose(sql, BlockEnd(sql, i) - 2)
            /\ \A k \in i..(BlockEnd(sql, i) - 3) : ~BlockClose(sql, k)
  <1> DEFINE N == Len(sql)
             S == {k \in 1..N : BlockClose(sql, k)}
             e == BlockEnd(sql, i)
             c == CHOOSE j \in DOMAIN sql : /\ j >= i /\ BlockClose(sql, j)
                                            /\ \A k \in i..(j - 1) : ~BlockClose(sql, k)
  <1>0. N \in Nat /\ DOMAIN sql = 1..N /\ i \in 1..(N + 1)
    OBVIOUS
  <1>1. CASE \E j \in DOMAIN sql : j >= i /\ BlockClose(sql, j)
    <2>1. \E j \in 1..N : j >= i /\ j \in S /\ \A k \in i..(j - 1) : k \notin S
      <3>1. \E j \in 1..N : j >= i /\ j \in S
        BY <1>0, <1>1
      <3> HIDE DEF S, N
      <3> QED
        BY <1>0, <3>1, FirstFrom
    <2>2. \E j \in DOMAIN sql : /\ j >= i /\ BlockClose(sql, j)
                                /\ \A k \in i..(j - 1) : ~BlockClose(sql, k)
      <3>1. PICK j \in 1..N : j >= i /\ j \in S /\ \A k \in i..(j - 1) : k \notin S
        BY <2>1
      <3>2. \A k \in i..(j - 1) : ~BlockClose(sql, k)
        <4>1. \A k \in i..(j - 1) : k \in 1..N
          BY <1>0
        <4> QED
          BY <3>1, <4>1
      <3> QED
        BY <1>0, <3>1, <3>2
    <2>3. e = 2 + c
      BY <1>1 DEF BlockEnd
    <2>4. /\ c \in DOMAIN sql /\ c >= i /\ BlockClose(sql, c)
          /\ \A k \in i..(c - 1) : ~BlockClose(sql, k)
      BY <2>2
    <2> HIDE DEF e, c
    <2>5. c + 1 \in DOMAIN sql
      BY <2>4 DEF BlockClose, At
    <2>6. e \in (i + 2)..(N + 1) /\ e - 2 = c /\ e - 3 = c - 1
      BY <1>0, <2>3, <2>4, <2>5
    <2> QED
      BY <2>4, <2>6 DEF e
  <1>2. CASE ~\E j \in DOMAIN sql : j >= i /\ BlockClose(sql, j)
    <2>1. e = N + 1
      BY <1>2 DEF BlockEnd
    <2>2. \A k \in i..N : ~BlockClose(sql, k)
      BY <1>0, <1>2
    <2> QED
      BY <2>1, <2>2
  <1> QED
    BY <1>1, <1>2

\* PieceEnd is the first position that closes the piece, or the last one.
LEMMA PieceEndFacts ==
  ASSUME NEW sql \in Seq(Chars), NEW i \in 1..Len(sql)
  PROVE  /\ PieceEnd(sql, i) \in i..Len(sql)
         /\ \A q \in i..(PieceEnd(sql, i) - 1) : ~Closes(sql, i, q)
         /\ PieceEnd(sql, i) < Len(sql) => Closes(sql, i, PieceEnd(sql, i))
  <1> DEFINE N == Len(sql)
             S == {p \in 1..N : Closes(sql, i, p)}
             e == PieceEnd(sql, i)
             c == CHOOSE p \in i..Len(sql) :
                    Closes(sql, i, p) /\ \A q \in i..(p - 1) : ~Closes(sql, i, q)
  <1>0. N \in Nat /\ i \in 1..N /\ i \in 1..(N + 1)
    OBVIOUS
  <1>1. CASE \E p \in i..Len(sql) : Closes(sql, i, p)
    <2>1. \E j \in 1..N : j >= i /\ j \in S /\ \A k \in i..(j - 1) : k \notin S
      <3>1. \E j \in 1..N : j >= i /\ j \in S
        BY <1>0, <1>1
      <3> HIDE DEF S, N
      <3> QED
        BY <1>0, <3>1, FirstFrom
    <2>2. \E p \in i..Len(sql) : Closes(sql, i, p) /\ \A q \in i..(p - 1) : ~Closes(sql, i, q)
      <3>1. PICK j \in 1..N : j >= i /\ j \in S /\ \A k \in i..(j - 1) : k \notin S
        BY <2>1
      <3>2. \A k \in i..(j - 1) : ~Closes(sql, i, k)
        <4>1. \A k \in i..(j - 1) : k \in 1..N
          BY <1>0
        <4> QED
          BY <3>1, <4>1
      <3> QED
        BY <1>0, <3>1, <3>2
    <2>3. e = c
      BY <1>1 DEF PieceEnd
    <2>4. c \in i..Len(sql) /\ Closes(sql, i, c) /\ \A q \in i..(c - 1) : ~Closes(sql, i, q)
      BY <2>2
    <2> HIDE DEF e, c
    <2> QED
      BY <2>3, <2>4 DEF e
  <1>2. CASE ~\E p \in i..Len(sql) : Closes(sql, i, p)
    <2>1. e = N
      BY <1>2 DEF PieceEnd
    <2>2. \A q \in i..N : ~Closes(sql, i, q)
      BY <1>2
    <2>3. \A q \in i..(N - 1) : ~Closes(sql, i, q)
      BY <1>0, <2>2
    <2> HIDE DEF e
    <2> QED
      BY <1>0, <2>1, <2>3 DEF e
  <1> QED
    BY <1>1, <1>2

(***************************************************************************)
(* SqlGuard: the kinds of pieces.                                          *)
(***************************************************************************)
USE DEF Strings, Quotes, NL, Escape

\* At i the rules and the scanners agree on what starts a comment.
AlikeAt(sql, i) == OpensComment(sql, i) => StartsComment(sql, i)

LEMMA SameComments ==
  ASSUME NEW sql \in Seq(Chars), NEW i \in 1..Len(sql), AlikeAt(sql, i)
  PROVE  /\ StartsDashes(sql, i) <=> DashOpen(sql, i)
         /\ StartsBlock(sql, i) <=> BlockOpen(sql, i)
         /\ StartsComment(sql, i) <=> OpensComment(sql, i)
  <1>1. /\ DashOpen(sql, i) => sql[i] = "-"
        /\ BlockOpen(sql, i) => sql[i] = "/"
        /\ StartsDashes(sql, i) => DashOpen(sql, i)
        /\ StartsBlock(sql, i) => BlockOpen(sql, i)
    BY DEF DashOpen, BlockOpen, StartsDashes, StartsBlock
  <1>2. "-" # "#" /\ "/" # "#" /\ "-" # "/"
    OBVIOUS
  <1> QED
    BY <1>1, <1>2 DEF AlikeAt, OpensComment, LineOpen, StartsComment

\* What closes a piece, for each kind that does not begin with a string.
LEMMA ClosesOf ==
  ASSUME NEW sql \in Seq(Chars), NEW i \in 1..Len(sql), NEW p \in i..Len(sql),
         AlikeAt(sql, i)
  PROVE  /\ sql[i] = "backtick" => (Closes(sql, i, p) <=> p > i /\ sql[p] = "backtick")
         /\ sql[i] = "#" => (Closes(sql, i, p) <=> p >= i + 1 /\ sql[p] = NL)
         /\ DashOpen(sql, i) => (Closes(sql, i, p) <=> p >= i + 2 /\ sql[p] = NL)
         /\ BlockOpen(sql, i) =>
              (Closes(sql, i, p) <=> p - 1 >= i + 2 /\ BlockClose(sql, p - 1))
         /\ sql[i] \notin Quotes /\ ~OpensComment(sql, i) => (Closes(sql, i, p) <=> p = i)
  <1>0. /\ StartsDashes(sql, i) <=> DashOpen(sql, i)
        /\ StartsBlock(sql, i) <=> BlockOpen(sql, i)
        /\ DashOpen(sql, i) => sql[i] = "-"
        /\ BlockOpen(sql, i) => sql[i] = "/"
    BY SameComments DEF DashOpen, BlockOpen
  <1>1. sql[i] = "backtick" => (Closes(sql, i, p) <=> p > i /\ sql[p] = "backtick")
    BY <1>0 DEF Closes
  <1>2. sql[i] = "#" => (Closes(sql, i, p) <=> p >= i + 1 /\ sql[p] = NL)
    BY <1>0 DEF Closes
  <1>3. DashOpen(sql, i) => (Closes(sql, i, p) <=> p >= i + 2 /\ sql[p] = NL)
    BY <1>0 DEF Closes
  <1>4. ASSUME BlockOpen(sql, i)
        PROVE  Closes(sql, i, p) <=> p - 1 >= i + 2 /\ BlockClose(sql, p - 1)
    <2>1. Closes(sql, i, p) <=> p > i + 2 /\ sql[p] = "/" /\ sql[p - 1] = "*"
      BY <1>0, <1>4 DEF Closes
    <2>2. BlockClose(sql, p - 1) <=> sql[p - 1] = "*" /\ sql[p] = "/"
      BY DEF BlockClose, At
    <2> QED
      BY <2>1, <2>2
  <1>5. sql[i] \notin Quotes /\ ~OpensComment(sql, i) => (Closes(sql, i, p) <=> p = i)
    BY <1>0 DEF Closes, OpensComment, LineOpen
  <1> QED
    BY <1>1, <1>2, <1>3, <1>4, <1>5

\* A character that opens neither a quote nor a comment is a piece by itself.
LEMMA OneCharacter ==
  ASSUME NEW sql \in Seq(Chars), NEW i \in 1..Len(sql),
         sql[i] \notin Quotes, ~OpensComment(sql, i)
  PROVE  PieceEnd(sql, i) = i
  <1> DEFINE N == Len(sql)
             e == PieceEnd(sql, i)
  <1>0. N \in Nat /\ i \in 1..N
    OBVIOUS
  <1>1. Closes(sql, i, i)
    BY ClosesOf DEF AlikeAt
  <1>2. e \in i..N /\ \A q \in i..(e - 1) : ~Closes(sql, i, q)
    BY PieceEndFacts
  <1> HIDE DEF e, N
  <1>3. e = i
    BY <1>0, <1>1, <1>2
  <1> QED
    BY <1>3 DEF e

\* The pieces firstKeyword goes past.
Skips(sql, i) == sql[i] \in Blanks \cup {"("} \/ OpensComment(sql, i)

\* firstKeyword leaves a line comment where its piece ends: at the end of the
\* line, or after the text.
LEMMA LineComment ==
  ASSUME NEW sql \in Seq(Chars), NEW i \in 1..Len(sql), NEW b \in (i + 1)..(Len(sql) + 1),
         \A p \in i..Len(sql) : Closes(sql, i, p) <=> p >= b /\ sql[p] = NL
  PROVE  /\ LineEnd(sql, b) \in b..(Len(sql) + 1)
         /\ \/ LineEnd(sql, b) = PieceEnd(sql, i) + 1
            \/ LineEnd(sql, b) = PieceEnd(sql, i) /\ sql[PieceEnd(sql, i)] = NL
  <1> DEFINE N == Len(sql)
             e == PieceEnd(sql, i)
             l == LineEnd(sql, b)
  <1>0. N \in Nat /\ i \in 1..N /\ b \in 1..(N + 1) /\ b > i
    OBVIOUS
  <1>1. l \in b..(N + 1) /\ (\A k \in b..(l - 1) : sql[k] # NL) /\ (l <= N => sql[l] = NL)
    BY <1>0, LineEndFacts
  <1>2. e \in i..N /\ (\A q \in i..(e - 1) : ~Closes(sql, i, q)) /\ (e < N => Closes(sql, i, e))
    BY PieceEndFacts
  <1> HIDE DEF l, e, N
  <1>3. \A p \in i..N : Closes(sql, i, p) <=> p >= b /\ sql[p] = NL
    BY DEF N
  <1>4. ~(l < e)
    <2> SUFFICES ASSUME l < e PROVE FALSE
      OBVIOUS
    <2>1. l \in i..(e - 1) /\ l \in i..N /\ l >= b /\ sql[l] = NL
      BY <1>0, <1>1, <1>2
    <2> QED
      BY <1>2, <1>3, <2>1
  <1>5. CASE Closes(sql, i, e)
    <2>1. e >= b /\ sql[e] = NL
      BY <1>2, <1>3, <1>5
    <2>2. ~(l > e)
      BY <1>0, <1>1, <1>2, <2>1
    <2> QED
      BY <1>0, <1>1, <1>2, <1>4, <2>1, <2>2 DEF l, e, N
  <1>6. CASE ~Closes(sql, i, e)
    <2>1. e = N
      BY <1>0, <1>2, <1>6
    <2>2. l # e
      <3>1. l = e => e >= b /\ sql[e] = NL
        BY <1>0, <1>1, <2>1
      <3> QED
        BY <1>2, <1>3, <1>6, <3>1
    <2>3. l = e + 1
      BY <1>0, <1>1, <1>2, <1>4, <2>1, <2>2
    <2> QED
      BY <1>1, <2>3 DEF l, e, N
  <1> QED
    BY <1>5, <1>6

\* firstKeyword leaves a block comment right after its piece.
LEMMA BlockComment ==
  ASSUME NEW sql \in Seq(Chars), NEW i \in 1..Len(sql), BlockOpen(sql, i), AlikeAt(sql, i)
  PROVE  /\ BlockEnd(sql, i + 2) \in (i + 2)..(Len(sql) + 1)
         /\ BlockEnd(sql, i + 2) = PieceEnd(sql, i) + 1
  <1> DEFINE N == Len(sql)
             e == PieceEnd(sql, i)
             l == BlockEnd(sql, i + 2)
  <1>0. N \in Nat /\ i \in 1..N /\ i + 2 \in 1..(N + 1)
    BY DEF BlockOpen, At
  <1>1. \/ l = N + 1 /\ \A k \in (i + 2)..N : ~BlockClose(sql, k)
        \/ /\ l \in (i + 4)..(N + 1) /\ BlockClose(sql, l - 2)
           /\ \A k \in (i + 2)..(l - 3) : ~BlockClose(sql, k)
    BY <1>0, BlockEndFacts
  <1>2. e \in i..N /\ (\A q \in i..(e - 1) : ~Closes(sql, i, q)) /\ (e < N => Closes(sql, i, e))
    BY PieceEndFacts
  <1>3. \A p \in i..N : Closes(sql, i, p) <=> p - 1 >= i + 2 /\ BlockClose(sql, p - 1)
    BY ClosesOf
  <1> HIDE DEF l, e, N
  <1>4. CASE l = N + 1 /\ \A k \in (i + 2)..N : ~BlockClose(sql, k)
    <2>1. ~Closes(sql, i, e)
      BY <1>0, <1>2, <1>3, <1>4
    <2>2. e = N
      BY <1>0, <1>2, <2>1
    <2> QED
      BY <1>0, <1>4, <2>2 DEF l, e, N
  <1>5. CASE /\ l \in (i + 4)..(N + 1) /\ BlockClose(sql, l - 2)
             /\ \A k \in (i + 2)..(l - 3) : ~BlockClose(sql, k)
    <2>1. Closes(sql, i, l - 1)
      <3>1. l - 1 \in i..N /\ (l - 1) - 1 = l - 2 /\ l - 2 >= i + 2
        BY <1>0, <1>5
      <3> QED
        BY <1>3, <1>5, <3>1
    <2>2. ~(l - 1 < e)
      <3>1. l - 1 < e => l - 1 \in i..(e - 1)
        BY <1>0, <1>2, <1>5
      <3> QED
        BY <1>2, <2>1, <3>1
    <2>3. ~(e < l - 1)
      <3> SUFFICES ASSUME e < l - 1 PROVE FALSE
        OBVIOUS
      <3>1. e < N
        BY <1>0, <1>2, <1>5
      <3>2. e - 1 >= i + 2 /\ BlockClose(sql, e - 1)
        BY <1>2, <1>3, <3>1
      <3>3. e - 1 \in (i + 2)..(l - 3)
        BY <1>0, <1>2, <1>5, <3>2
      <3> QED
        BY <1>5, <3>2, <3>3
    <2>4. l = e + 1
      BY <1>0, <1>2, <1>5, <2>2, <2>3
    <2> QED
      BY <1>0, <1>5, <2>4 DEF l, e, N
  <1> QED
    BY <1>1, <1>4, <1>5

\* firstKeyword goes past one piece at a time, and stays at the keyword.
LEMMA PastFacts ==
  ASSUME NEW sql \in Seq(Chars), NEW i \in 1..Len(sql)
  PROVE  /\ ~Skips(sql, i) => Past(sql, i) = i
         /\ Skips(sql, i) => Past(sql, i) \in (i + 1)..(Len(sql) + 1)
         /\ Skips(sql, i) /\ AlikeAt(sql, i) =>
              \/ Past(sql, i) = PieceEnd(sql, i) + 1
              \/ Past(sql, i) = PieceEnd(sql, i) /\ sql[PieceEnd(sql, i)] = NL
  <1> DEFINE N == Len(sql)
             e == PieceEnd(sql, i)
             StepsTo == Past(sql, i) \in (i + 1)..(N + 1)
             Leaves  == AlikeAt(sql, i) => Past(sql, i) = e + 1 \/ (Past(sql, i) = e /\ sql[e] = NL)
  <1>0. N \in Nat /\ i \in 1..N
    OBVIOUS
  <1>1. ASSUME sql[i] \in Blanks \cup {"("}
        PROVE  StepsTo /\ Leaves
    <2>1. Past(sql, i) = i + 1
      BY <1>1 DEF Past, DashOpen, BlockOpen, Blanks
    <2>2. sql[i] \notin Quotes /\ ~OpensComment(sql, i)
      BY <1>1 DEF OpensComment, LineOpen, DashOpen, BlockOpen, Blanks
    <2>3. e = i
      BY <2>2, OneCharacter
    <2>4. StepsTo
      BY <1>0, <2>1
    <2>5. Leaves
      <3> HIDE DEF e
      <3> QED
        BY <2>1, <2>3
    <2> QED
      BY <2>4, <2>5
  <1>2. ASSUME sql[i] = "#"
        PROVE  StepsTo /\ Leaves
    <2>1. Past(sql, i) = LineEnd(sql, i + 1)
      BY <1>2 DEF Past, DashOpen, BlockOpen, Blanks
    <2>2. i + 1 \in (i + 1)..(N + 1) /\ i + 1 \in 1..(N + 1)
      BY <1>0
    <2>3. LineEnd(sql, i + 1) \in (i + 1)..(N + 1)
      BY <2>2, LineEndFacts
    <2>4. Leaves
      <3> SUFFICES ASSUME AlikeAt(sql, i)
                   PROVE  Past(sql, i) = e + 1 \/ (Past(sql, i) = e /\ sql[e] = NL)
        OBVIOUS
      <3>1. \A p \in i..N : Closes(sql, i, p) <=> p >= i + 1 /\ sql[p] = NL
        BY <1>2, ClosesOf
      <3> QED
        BY <2>1, <2>2, <3>1, LineComment
    <2>5. StepsTo
      BY <2>1, <2>3
    <2> HIDE DEF StepsTo, Leaves
    <2> QED
      BY <2>4, <2>5
  <1>3. ASSUME DashOpen(sql, i)
        PROVE  StepsTo /\ Leaves
    <2>1. Past(sql, i) = LineEnd(sql, i + 2)
      BY <1>3 DEF Past, DashOpen, BlockOpen, Blanks
    <2>2. i + 2 \in (i + 1)..(N + 1) /\ i + 2 \in 1..(N + 1)
      BY <1>0, <1>3 DEF DashOpen, At
    <2>3. LineEnd(sql, i + 2) \in (i + 2)..(N + 1)
      BY <2>2, LineEndFacts
    <2>4. Leaves
      <3> SUFFICES ASSUME AlikeAt(sql, i)
                   PROVE  Past(sql, i) = e + 1 \/ (Past(sql, i) = e /\ sql[e] = NL)
        OBVIOUS
      <3>1. \A p \in i..N : Closes(sql, i, p) <=> p >= i + 2 /\ sql[p] = NL
        BY <1>3, ClosesOf
      <3> QED
        BY <2>1, <2>2, <3>1, LineComment
    <2>5. LineEnd(sql, i + 2) \in (i + 1)..(N + 1)
      <3> HIDE DEF N
      <3> QED
        BY <1>0, <2>3
    <2>6. StepsTo
      BY <2>1, <2>5
    <2> HIDE DEF StepsTo, Leaves
    <2> QED
      BY <2>4, <2>6
  <1>4. ASSUME BlockOpen(sql, i)
        PROVE  StepsTo /\ Leaves
    <2>1. Past(sql, i) = BlockEnd(sql, i + 2)
      BY <1>4 DEF Past, DashOpen, BlockOpen, Blanks
    <2>2. i + 2 \in 1..(N + 1)
      BY <1>0, <1>4 DEF BlockOpen, At
    <2>3. \/ BlockEnd(sql, i + 2) = N + 1
          \/ BlockEnd(sql, i + 2) \in ((i + 2) + 2)..(N + 1)
      BY <2>2, BlockEndFacts
    <2>4. Leaves
      <3> SUFFICES ASSUME AlikeAt(sql, i)
                   PROVE  Past(sql, i) = e + 1 \/ (Past(sql, i) = e /\ sql[e] = NL)
        OBVIOUS
      <3> QED
        BY <1>4, <2>1, BlockComment
    <2>5. BlockEnd(sql, i + 2) \in (i + 1)..(N + 1)
      <3> HIDE DEF N
      <3> QED
        BY <1>0, <2>2, <2>3
    <2>6. StepsTo
      BY <2>1, <2>5
    <2> HIDE DEF StepsTo, Leaves
    <2> QED
      BY <2>4, <2>6
  <1>5. ~Skips(sql, i) => Past(sql, i) = i
    BY DEF Past, Skips, OpensComment, LineOpen
  <1>6. Skips(sql, i) => StepsTo /\ Leaves
    <2> HIDE DEF StepsTo, Leaves
    <2> QED
      BY <1>1, <1>2, <1>3, <1>4 DEF Skips, OpensComment, LineOpen
  <1> QED
    BY <1>5, <1>6

(***************************************************************************)
(* SqlGuard: the pieces follow one another from the first to the last      *)
(* character, and the way to the keyword goes from piece to piece.         *)
(***************************************************************************)
LEMMA PiecesFacts ==
  ASSUME NEW sql \in Seq(Chars)
  PROVE  /\ Pieces(sql)[0] = 1
         /\ \A n \in 0..Len(sql) : Pieces(sql)[n] \in 1..(Len(sql) + 1)
         /\ \A n \in 1..Len(sql) :
              Pieces(sql)[n] = IF Pieces(sql)[n - 1] \in 1..Len(sql)
                                 THEN PieceEnd(sql, Pieces(sql)[n - 1]) + 1
                                 ELSE Pieces(sql)[n - 1]
  <1> DEFINE N == Len(sql)
             P == 1..(N + 1)
             To(i) == IF i \in DOMAIN sql THEN PieceEnd(sql, i) + 1 ELSE i
             step == [n \in 1..N |-> [i \in P |-> To(i)]]
             Solves(g) == g = [n \in 0..N |-> IF n = 0 THEN 1 ELSE To(g[n - 1])]
  <1>1. N \in Nat /\ DOMAIN sql = 1..N /\ 1 \in P
    OBVIOUS
  <1>2. \A i \in P : To(i) \in P
    <2>1. \A i \in 1..N : PieceEnd(sql, i) \in i..N
      BY PieceEndFacts
    <2> QED
      BY <1>1, <2>1
  <1> HIDE DEF N, P, To
  <1>3. step \in [1..N -> [P -> P]]
    BY <1>2
  <1>4. \A n \in 1..N : \A i \in P : step[n][i] = To(i)
    OBVIOUS
  <1> HIDE DEF step
  <1>5. PICK g \in [0..N -> P] : Grows(g, N, 1, step)
    BY <1>1, <1>3, FollowsExists
  <1>6. Solves(g)
    <2>1. ASSUME NEW n \in 0..N
          PROVE  g[n] = IF n = 0 THEN 1 ELSE To(g[n - 1])
      <3>1. CASE n = 0
        BY <1>5, <3>1 DEF Grows
      <3>2. CASE n \in 1..N
        <4>1. g[n] = step[n][g[n - 1]] /\ g[n - 1] \in P
          BY <1>1, <1>5, <3>2 DEF Grows
        <4> QED
          BY <1>4, <3>2, <4>1
      <3> QED
        BY <1>1, <3>1, <3>2
    <2> QED
      BY <1>5, <2>1 DEF Grows
  <1>7. Pieces(sql) = CHOOSE f : Solves(f)
    BY DEF Pieces, N, To
  <1>8. Solves(Pieces(sql))
    <2> HIDE DEF Solves
    <2> QED
      BY <1>6, <1>7
  <1> DEFINE p == Pieces(sql)
  <1>9. p = [n \in 0..N |-> IF n = 0 THEN 1 ELSE To(p[n - 1])]
    BY <1>8
  <1> HIDE DEF p
  <1>10. p[0] = 1 /\ \A n \in 1..N : p[n] = To(p[n - 1])
    BY <1>1, <1>9
  <1>11. \A n \in 0..N : p[n] \in P
    <2> DEFINE T == {n \in 0..N : p[n] \in P}
    <2>1. 0 \in T
      BY <1>1, <1>10
    <2>2. ASSUME NEW n \in 0..(N - 1), n \in T PROVE n + 1 \in T
      <3>1. p[n] \in P /\ p[n + 1] = To(p[n]) /\ n + 1 \in 0..N
        BY <1>1, <1>10, <2>2
      <3> QED
        BY <1>2, <3>1
    <2> HIDE DEF T
    <2>3. \A n \in 0..N : n \in T
      BY <1>1, <2>1, <2>2, UpTo, Zenon
    <2> QED
      BY <2>3 DEF T
  <1>12. \A n \in 1..N : p[n] = IF p[n - 1] \in 1..N THEN PieceEnd(sql, p[n - 1]) + 1 ELSE p[n - 1]
    BY <1>1, <1>10 DEF To
  <1> QED
    BY <1>10, <1>11, <1>12 DEF p, N, P

\* The way of firstKeyword is the one Past leads.
LEMMA SkippingFacts ==
  ASSUME NEW sql \in Seq(Chars)
  PROVE  \A i \in 1..(Len(sql) + 1) :
           Skipping(sql)[i] = IF i > Len(sql) THEN i
                              ELSE IF Past(sql, i) = i THEN i ELSE Skipping(sql)[Past(sql, i)]
  <1> DEFINE N == Len(sql)
             to == [i \in 1..N |-> Past(sql, i)]
             Solves(g) == g = [i \in 1..(N + 1) |->
                                 IF i > N THEN i
                                 ELSE IF Past(sql, i) = i THEN i ELSE g[Past(sql, i)]]
  <1>1. N \in Nat
    OBVIOUS
  <1>2. \A i \in 1..N : Past(sql, i) \in i..(N + 1)
    <2> SUFFICES ASSUME NEW i \in 1..N
                 PROVE  Past(sql, i) \in i..(N + 1)
      OBVIOUS
    <2>1. Past(sql, i) = i \/ Past(sql, i) \in (i + 1)..(N + 1)
      BY PastFacts
    <2> HIDE DEF N
    <2> QED
      BY <1>1, <2>1
  <1> HIDE DEF N
  <1>3. to \in [1..N -> 1..(N + 1)] /\ \A i \in 1..N : to[i] >= i /\ to[i] = Past(sql, i)
    BY <1>1, <1>2
  <1> HIDE DEF to
  <1>4. PICK f \in [1..(N + 1) -> Nat] : Leading(f, N, to)
    BY <1>1, <1>3, LeadsExists
  <1>5. Solves(f)
    BY <1>1, <1>3, <1>4 DEF Leading
  <1>6. Skipping(sql) = CHOOSE g : Solves(g)
    BY DEF Skipping, N
  <1>7. Solves(Skipping(sql))
    <2> HIDE DEF Solves
    <2> QED
      BY <1>5, <1>6
  <1> DEFINE s == Skipping(sql)
  <1>8. s = [i \in 1..(N + 1) |->
               IF i > N THEN i ELSE IF Past(sql, i) = i THEN i ELSE s[Past(sql, i)]]
    BY <1>7
  <1> HIDE DEF s
  <1>9. \A i \in 1..(N + 1) :
          s[i] = IF i > N THEN i ELSE IF Past(sql, i) = i THEN i ELSE s[Past(sql, i)]
    BY <1>8
  <1> QED
    BY <1>9 DEF s, N

\* Every character is in a piece.
LEMMA PiecesCover ==
  ASSUME NEW sql \in Seq(Chars), NEW i \in 1..Len(sql)
  PROVE  \E s \in Starts(sql) : s <= i /\ i <= PieceEnd(sql, s)
  <1> DEFINE N == Len(sql)
             p == Pieces(sql)
             Covered(k) == \E n \in 0..N : p[n] \in 1..k /\ k <= PieceEnd(sql, p[n])
             T == {k \in 0..N : k = 0 \/ Covered(k)}
  <1>1. N \in Nat /\ i \in 1..N
    OBVIOUS
  <1>2. /\ p[0] = 1 /\ \A n \in 0..N : p[n] \in 1..(N + 1)
        /\ \A n \in 1..N : p[n] = IF p[n - 1] \in 1..N THEN PieceEnd(sql, p[n - 1]) + 1
                                  ELSE p[n - 1]
    BY PiecesFacts
  <1>3. \A k \in 1..N : PieceEnd(sql, k) \in k..N
    BY PieceEndFacts
  <1>4. Starts(sql) = {p[n] : n \in 0..N} \cap 1..N
    BY DEF Starts
  <1> HIDE DEF N, p
  <1>5. \A n \in 0..N : p[n] \in 1..N => p[n] >= n + 1
    <2> DEFINE U == {n \in 0..N : p[n] <= N => p[n] >= n + 1}
    <2>1. 0 \in U
      BY <1>1, <1>2
    <2>2. ASSUME NEW n \in 0..(N - 1), n \in U PROVE n + 1 \in U
      <3>1. p[n] \in 1..(N + 1) /\ p[n + 1] = IF p[n] \in 1..N THEN PieceEnd(sql, p[n]) + 1 ELSE p[n]
        <4>1. n + 1 \in 1..N /\ (n + 1) - 1 = n /\ n \in 0..N
          BY <1>1
        <4> QED
          BY <1>2, <4>1
      <3>2. CASE p[n] \in 1..N
        <4>1. p[n] >= n + 1 /\ PieceEnd(sql, p[n]) \in p[n]..N /\ p[n + 1] = PieceEnd(sql, p[n]) + 1
          BY <1>3, <2>2, <3>1, <3>2
        <4>2. p[n + 1] >= (n + 1) + 1
          BY <1>1, <3>2, <4>1
        <4> QED
          BY <1>1, <4>2
      <3>3. CASE p[n] = N + 1
        <4>1. p[n + 1] = N + 1
          BY <1>1, <3>1, <3>3
        <4> QED
          BY <1>1, <4>1
      <3> QED
        BY <1>1, <3>1, <3>2, <3>3
    <2> HIDE DEF U
    <2>3. \A n \in 0..N : n \in U
      BY <1>1, <2>1, <2>2, UpTo, Zenon
    <2> QED
      BY <1>1, <2>3 DEF U
  <1>6. 0 \in T
    BY <1>1
  <1>7. ASSUME NEW k \in 0..(N - 1), k \in T PROVE k + 1 \in T
    <2>1. CASE k = 0
      <3>1. p[0] \in 1..1 /\ 1 <= PieceEnd(sql, p[0])
        BY <1>1, <1>2, <1>3, <2>1
      <3>2. Covered(1)
        BY <1>1, <3>1
      <3> QED
        BY <1>1, <2>1, <3>2
    <2>2. CASE k # 0
      <3>1. PICK n \in 0..N : p[n] \in 1..k /\ k <= PieceEnd(sql, p[n])
        BY <1>7, <2>2
      <3>2. p[n] \in 1..N /\ PieceEnd(sql, p[n]) \in p[n]..N
        BY <1>1, <1>3, <3>1
      <3>3. CASE PieceEnd(sql, p[n]) > k
        <4>1. p[n] \in 1..(k + 1) /\ k + 1 <= PieceEnd(sql, p[n])
          BY <1>1, <3>1, <3>2, <3>3
        <4>2. Covered(k + 1)
          BY <4>1
        <4> QED
          BY <1>1, <4>2
      <3>4. CASE PieceEnd(sql, p[n]) = k
        <4>1. n + 1 \in 1..N /\ (n + 1) - 1 = n
          BY <1>1, <1>5, <3>1, <3>2
        <4>2. p[n + 1] = k + 1
          BY <1>2, <3>2, <3>4, <4>1
        <4>3. k + 1 \in 1..N
          BY <1>1
        <4>4. p[n + 1] \in 1..(k + 1) /\ k + 1 <= PieceEnd(sql, p[n + 1])
          BY <1>1, <1>3, <4>2, <4>3
        <4>5. n + 1 \in 0..N
          BY <1>1, <4>1
        <4>6. Covered(k + 1)
          BY <4>4, <4>5
        <4> QED
          BY <1>1, <4>6
      <3> QED
        BY <1>1, <3>1, <3>2, <3>3, <3>4
    <2> QED
      BY <2>1, <2>2
  <1>8. i \in T
    <2> HIDE DEF T
    <2>1. \A k \in 0..N : k \in T
      BY <1>1, <1>6, <1>7, UpTo, Zenon
    <2> QED
      BY <1>1, <2>1
  <1>9. PICK n \in 0..N : p[n] \in 1..i /\ i <= PieceEnd(sql, p[n])
    BY <1>1, <1>8
  <1> QED
    BY <1>1, <1>4, <1>9

(***************************************************************************)
(* SqlGuard: a piece that the pass enters in code it leaves in code, at    *)
(* its end and not before.                                                 *)
(***************************************************************************)
LEMMA Between ==
  ASSUME NEW a \in Nat, NEW b \in Nat, NEW T, a \in T,
         \A i \in a..(b - 1) : i \in T => i + 1 \in T
  PROVE  \A i \in a..b : i \in T
  <1> SUFFICES ASSUME a <= b PROVE \A i \in a..b : i \in T
    OBVIOUS
  <1> DEFINE U == {n \in 0..(b - a) : a + n \in T}
             m == b - a
  <1>1. m \in Nat /\ 0 \in U
    OBVIOUS
  <1>2. ASSUME NEW n \in 0..(m - 1), n \in U PROVE n + 1 \in U
    <2>1. a + n \in a..(b - 1) /\ a + n \in T /\ (a + n) + 1 = a + (n + 1) /\ n + 1 \in 0..(b - a)
      BY <1>2
    <2>2. (a + n) + 1 \in T
      BY <2>1
    <2> QED
      BY <2>1, <2>2
  <1>3. \A n \in 0..m : n \in U
    <2> HIDE DEF U, m
    <2> QED
      BY <1>1, <1>2, UpTo, Zenon
  <1>4. ASSUME NEW i \in a..b PROVE i \in T
    <2>1. i - a \in 0..m /\ a + (i - a) = i
      OBVIOUS
    <2> QED
      BY <1>3, <2>1
  <1> QED
    BY <1>4

Point(in, way) == [in |-> in, next |-> way]

\* One step of the pass, outside code and in it.
LEMMA AfterFacts ==
  ASSUME NEW sql, NEW i, NEW c
  PROVE  /\ After(sql, i, Point(c, "skip")) = Point(c, "read")
         /\ After(sql, i, Point("line", "read")) =
              IF sql[i] = NL THEN Code ELSE Point("line", "read")
         /\ After(sql, i, Point("backtick", "read")) =
              IF sql[i] = "backtick" THEN Code ELSE Point("backtick", "read")
         /\ After(sql, i, Point("block", "read")) =
              IF BlockClose(sql, i) THEN Point("code", "skip") ELSE Point("block", "read")
         /\ c \in Strings => After(sql, i, Point(c, "read")) =
              IF sql[i] = Escape THEN Point(c, "skip")
              ELSE IF sql[i] = c THEN Code ELSE Point(c, "read")
         /\ Code = Point("code", "read")
  BY DEF After, Point, Mode, SkipsNext, Code

LEMMA AfterCode ==
  ASSUME NEW sql, NEW i
  PROVE  /\ sql[i] = "#" => After(sql, i, Code) = Point("line", "read")
         /\ DashOpen(sql, i) => After(sql, i, Code) = Point("line", "skip")
         /\ BlockOpen(sql, i) => After(sql, i, Code) = Point("block", "skip")
         /\ sql[i] \in Quotes => After(sql, i, Code) = Point(sql[i], "read")
         /\ sql[i] \notin Quotes /\ ~OpensComment(sql, i) => After(sql, i, Code) = Code
  BY DEF After, Point, Mode, SkipsNext, Code, OpensComment, LineOpen, DashOpen, BlockOpen

LEMMA NotCode ==
  ASSUME NEW c, NEW d
  PROVE  (Point(c, d) = Code) <=> (c = "code" /\ d = "read")
  BY DEF Point, Code

\* The pass is not in code inside the piece at s, and is at its end.
LeavesInCode(sql, s) ==
  /\ \A j \in s..(PieceEnd(sql, s) - 1) : Pass(sql)[j] # Code
  /\ PieceEnd(sql, s) < Len(sql) => Pass(sql)[PieceEnd(sql, s)] = Code

\* A comment to the end of the line, and a name between backticks: a mode m
\* from b on, until there is a c.
Plain(sql, s, b, m, c) ==
  /\ b \in (s + 1)..(Len(sql) + 1) /\ m # "code"
  /\ \A i \in 1..Len(sql) :
       After(sql, i, Point(m, "read")) = IF sql[i] = c THEN Code ELSE Point(m, "read")
  /\ \A q \in s..Len(sql) : Closes(sql, s, q) <=> q >= b /\ sql[q] = c
  /\ Pass(sql)[b - 1] = Point(m, "read")
  /\ \A j \in s..(b - 2) : Pass(sql)[j] # Code

LEMMA PlainLeaves ==
  ASSUME NEW sql \in Seq(Chars), NEW s \in 1..Len(sql), NEW b, NEW m, NEW c,
         Plain(sql, s, b, m, c)
  PROVE  LeavesInCode(sql, s)
  <1> DEFINE N == Len(sql)
             e == PieceEnd(sql, s)
             p == Pass(sql)
             T == {j \in (b - 1)..(e - 1) : p[j] = Point(m, "read")}
  <1>0. N \in Nat /\ s \in 1..N /\ b \in (s + 1)..(N + 1) /\ m # "code"
    BY DEF Plain
  <1>1. e \in s..N /\ (\A q \in s..(e - 1) : ~Closes(sql, s, q)) /\ (e < N => Closes(sql, s, e))
    BY PieceEndFacts
  <1>2. \A i \in 1..N : p[i] = After(sql, i, p[i - 1])
    BY PassFacts
  <1>3. \A i \in 1..N :
          After(sql, i, Point(m, "read")) = IF sql[i] = c THEN Code ELSE Point(m, "read")
    BY DEF Plain
  <1>4. \A q \in s..N : Closes(sql, s, q) <=> q >= b /\ sql[q] = c
    BY DEF Plain
  <1>5. p[b - 1] = Point(m, "read") /\ \A j \in s..(b - 2) : p[j] # Code
    BY DEF Plain
  <1> HIDE DEF N, e, p
  <1>6. \A j \in (b - 1)..(e - 1) : p[j] = Point(m, "read")
    <2> SUFFICES ASSUME b - 1 <= e - 1 PROVE \A j \in (b - 1)..(e - 1) : p[j] = Point(m, "read")
      BY <1>0, <1>1
    <2>1. b - 1 \in Nat /\ e - 1 \in Nat /\ b - 1 \in T
      BY <1>0, <1>1, <1>5
    <2>2. ASSUME NEW j \in (b - 1)..((e - 1) - 1), j \in T PROVE j + 1 \in T
      <3>1. j + 1 \in 1..N /\ j + 1 \in s..(e - 1) /\ j + 1 >= b /\ (j + 1) - 1 = j
            /\ j + 1 \in s..N /\ j + 1 \in (b - 1)..(e - 1)
        BY <1>0, <1>1
      <3>2. sql[j + 1] # c
        BY <1>1, <1>4, <3>1
      <3>3. p[j + 1] = Point(m, "read")
        <4>1. p[j + 1] = After(sql, j + 1, p[j])
          BY <1>2, <3>1
        <4>2. p[j] = Point(m, "read")
          BY <2>2
        <4> QED
          BY <1>3, <3>1, <3>2, <4>1, <4>2
      <3> QED
        BY <3>1, <3>3
    <2>3. \A j \in (b - 1)..(e - 1) : j \in T
      <3> HIDE DEF T
      <3> QED
        BY <2>1, <2>2, Between, Zenon
    <2> QED
      BY <2>3
  <1>7. \A j \in s..(e - 1) : p[j] # Code
    <2> SUFFICES ASSUME NEW j \in s..(e - 1) PROVE p[j] # Code
      OBVIOUS
    <2>1. j \in s..(b - 2) \/ j \in (b - 1)..(e - 1)
      BY <1>0, <1>1
    <2>2. Point(m, "read") # Code
      BY <1>0, NotCode
    <2> QED
      BY <1>5, <1>6, <2>1, <2>2
  <1>8. ASSUME e < N PROVE p[e] = Code
    <2>1. e \in s..N /\ e >= b /\ sql[e] = c
      BY <1>1, <1>4, <1>8
    <2>2. e \in 1..N /\ e - 1 \in (b - 1)..(e - 1)
      BY <1>0, <2>1
    <2>3. p[e] = After(sql, e, p[e - 1]) /\ p[e - 1] = Point(m, "read")
      BY <1>2, <1>6, <2>2
    <2> QED
      BY <1>3, <2>1, <2>2, <2>3
  <1> QED
    BY <1>7, <1>8 DEF LeavesInCode, N, e, p

\* A block comment: its first "*" closes nothing.
LEMMA BlockLeaves ==
  ASSUME NEW sql \in Seq(Chars), NEW s \in 1..Len(sql), Pass(sql)[s - 1] = Code,
         BlockOpen(sql, s), AlikeAt(sql, s)
  PROVE  LeavesInCode(sql, s)
  <1> DEFINE N == Len(sql)
             e == PieceEnd(sql, s)
             p == Pass(sql)
             Read2 == Point("block", "read")
             T == {j \in (s + 1)..(e - 2) : p[j] = Read2}
  <1>0. N \in Nat /\ s \in 1..N /\ s + 1 \in 1..N
    BY DEF BlockOpen, At
  <1>1. e \in s..N /\ (\A q \in s..(e - 1) : ~Closes(sql, s, q)) /\ (e < N => Closes(sql, s, e))
    BY PieceEndFacts
  <1>2. \A i \in 1..N : p[i] = After(sql, i, p[i - 1])
    BY PassFacts
  <1>3. \A i \in 1..N :
          After(sql, i, Read2) = IF BlockClose(sql, i) THEN Point("code", "skip") ELSE Read2
    BY AfterFacts
  <1>4. \A q \in s..N : Closes(sql, s, q) <=> q - 1 >= s + 2 /\ BlockClose(sql, q - 1)
    BY ClosesOf
  <1>5. p[s] = Point("block", "skip")
    BY <1>0, <1>2, AfterCode
  <1>6. p[s + 1] = Read2
    <2>1. p[s + 1] = After(sql, s + 1, p[s])
      BY <1>0, <1>2
    <2> QED
      BY <1>5, <2>1, AfterFacts
  <1>7. Point("block", "skip") # Code /\ Read2 # Code /\ Point("code", "skip") # Code
    BY NotCode
  <1>8. \A i \in 1..N : After(sql, i, Point("code", "skip")) = Code
    BY AfterFacts
  <1> HIDE DEF N, e, p, Read2
  <1>9. \A j \in (s + 1)..(e - 2) : p[j] = Read2
    <2> SUFFICES ASSUME s + 1 <= e - 2 PROVE \A j \in (s + 1)..(e - 2) : p[j] = Read2
      BY <1>0, <1>1
    <2>1. s + 1 \in Nat /\ e - 2 \in Nat /\ s + 1 \in T
      BY <1>0, <1>1, <1>6
    <2>2. ASSUME NEW j \in (s + 1)..((e - 2) - 1), j \in T PROVE j + 1 \in T
      <3>1. j + 1 \in 1..N /\ j + 1 >= s + 2 /\ (j + 1) - 1 = j /\ j + 2 \in s..(e - 1)
            /\ j + 2 \in s..N /\ (j + 2) - 1 = j + 1 /\ j + 1 \in (s + 1)..(e - 2)
        BY <1>0, <1>1
      <3>2. ~BlockClose(sql, j + 1)
        <4>1. ~Closes(sql, s, j + 2)
          BY <1>1, <3>1
        <4> QED
          BY <1>4, <3>1, <4>1
      <3>3. p[j + 1] = Read2
        <4>1. p[j + 1] = After(sql, j + 1, p[j])
          BY <1>2, <3>1
        <4>2. p[j] = Read2
          BY <2>2
        <4> QED
          BY <1>3, <3>1, <3>2, <4>1, <4>2
      <3> QED
        BY <3>1, <3>3
    <2>3. \A j \in (s + 1)..(e - 2) : j \in T
      <3> HIDE DEF T
      <3> QED
        BY <2>1, <2>2, Between, Zenon
    <2> QED
      BY <2>3
  <1>10. ASSUME e - 1 >= s + 2
         PROVE  p[e - 1] = IF BlockClose(sql, e - 1) THEN Point("code", "skip") ELSE Read2
    <2>1. e - 1 \in 1..N /\ (e - 1) - 1 = e - 2 /\ e - 2 \in (s + 1)..(e - 2)
      BY <1>0, <1>1, <1>10
    <2>2. p[e - 1] = After(sql, e - 1, p[e - 2]) /\ p[e - 2] = Read2
      BY <1>2, <1>9, <2>1
    <2> QED
      BY <1>3, <2>1, <2>2
  <1>11. \A j \in s..(e - 1) : p[j] # Code
    <2> SUFFICES ASSUME NEW j \in s..(e - 1) PROVE p[j] # Code
      OBVIOUS
    <2>1. j = s \/ j = s + 1 \/ j \in (s + 1)..(e - 2) \/ (j = e - 1 /\ e - 1 >= s + 2)
      BY <1>0, <1>1
    <2>2. CASE j = e - 1 /\ e - 1 >= s + 2
      BY <1>7, <1>10, <2>2
    <2> QED
      BY <1>5, <1>6, <1>7, <1>9, <2>1, <2>2
  <1>12. ASSUME e < N PROVE p[e] = Code
    <2>1. e - 1 >= s + 2 /\ BlockClose(sql, e - 1)
      BY <1>1, <1>4, <1>12
    <2>2. p[e - 1] = Point("code", "skip")
      BY <1>10, <2>1
    <2>3. e \in 1..N
      BY <1>0, <1>1
    <2>4. p[e] = After(sql, e, p[e - 1])
      BY <1>2, <2>3
    <2> QED
      BY <1>8, <2>2, <2>3, <2>4
  <1> QED
    BY <1>11, <1>12 DEF LeavesInCode, N, e, p

\* Of the backslashes right before j + 1, since the quote at s, there is an
\* even number.
Escapes(sql, s, k, j) ==
  /\ \A l \in k..j : sql[l] = Escape
  /\ k = s + 1 \/ sql[k - 1] # Escape

EvenRun(sql, s, j) == \E k \in (s + 1)..(j + 1) : Escapes(sql, s, k, j) /\ (j + 1 - k) % 2 = 0

LEMMA RunExists ==
  ASSUME NEW sql, NEW s \in Nat, NEW j \in Nat, j >= s
  PROVE  \E k \in (s + 1)..(j + 1) : Escapes(sql, s, k, j)
  <1> DEFINE T == {k \in (s + 1)..(j + 1) : \A l \in k..j : sql[l] = Escape}
  <1>1. T \subseteq Nat /\ j + 1 \in T
    OBVIOUS
  <1>2. PICK k \in T : \A l \in T : k <= l
    <2> HIDE DEF T
    <2> QED
      BY <1>1, Least, Zenon
  <1>3. k \in (s + 1)..(j + 1) /\ \A l \in k..j : sql[l] = Escape
    BY <1>2
  <1>4. ASSUME k # s + 1, sql[k - 1] = Escape PROVE FALSE
    <2>1. k - 1 \in (s + 1)..(j + 1)
      BY <1>3, <1>4
    <2>2. \A l \in (k - 1)..j : sql[l] = Escape
      <3> SUFFICES ASSUME NEW l \in (k - 1)..j PROVE sql[l] = Escape
        OBVIOUS
      <3>1. l = k - 1 \/ l \in k..j
        BY <1>3
      <3> QED
        BY <1>3, <1>4, <3>1
    <2>3. k - 1 \in T
      BY <2>1, <2>2
    <2> HIDE DEF T
    <2> QED
      BY <1>2, <1>3, <2>3
  <1> QED
    BY <1>3, <1>4 DEF Escapes

LEMMA RunUnique ==
  ASSUME NEW sql, NEW s \in Nat, NEW j \in Nat, j >= s,
         NEW k \in (s + 1)..(j + 1), NEW l \in (s + 1)..(j + 1),
         Escapes(sql, s, k, j), Escapes(sql, s, l, j)
  PROVE  k = l
  <1>1. ASSUME NEW a \in (s + 1)..(j + 1), NEW b \in (s + 1)..(j + 1),
               Escapes(sql, s, a, j), Escapes(sql, s, b, j), a < b
        PROVE  FALSE
    <2>1. b - 1 \in a..j /\ b # s + 1
      BY <1>1
    <2> QED
      BY <1>1, <2>1 DEF Escapes
  <1>2. ~(k < l) /\ ~(l < k)
    BY <1>1
  <1> QED
    BY <1>2

\* A backslash more makes an even number odd and an odd one even; any other
\* character starts the count again.
LEMMA EvenFacts ==
  ASSUME NEW sql, NEW s \in Nat
  PROVE  /\ EvenRun(sql, s, s)
         /\ \A j \in Nat : j >= s =>
              (EvenRun(sql, s, j + 1) <=> (sql[j + 1] # Escape \/ ~EvenRun(sql, s, j)))
  <1>1. EvenRun(sql, s, s)
    <2>1. s + 1 \in (s + 1)..(s + 1) /\ Escapes(sql, s, s + 1, s) /\ (s + 1 - (s + 1)) % 2 = 0
      BY DEF Escapes
    <2> QED
      BY <2>1 DEF EvenRun
  <1>2. ASSUME NEW j \in Nat, j >= s, sql[j + 1] # Escape
        PROVE  EvenRun(sql, s, j + 1)
    <2>1. (j + 1) + 1 \in (s + 1)..((j + 1) + 1)
      BY <1>2
    <2>2. Escapes(sql, s, (j + 1) + 1, j + 1)
      BY <1>2 DEF Escapes
    <2>3. ((j + 1) + 1 - ((j + 1) + 1)) % 2 = 0
      BY <1>2
    <2> QED
      BY <2>1, <2>2, <2>3 DEF EvenRun
  <1>3. ASSUME NEW j \in Nat, j >= s, sql[j + 1] = Escape, EvenRun(sql, s, j + 1)
        PROVE  ~EvenRun(sql, s, j)
    <2>1. PICK k \in (s + 1)..((j + 1) + 1) : Escapes(sql, s, k, j + 1) /\ ((j + 1) + 1 - k) % 2 = 0
      BY <1>3 DEF EvenRun
    <2>2. k # (j + 1) + 1
      BY <1>3, <2>1 DEF Escapes
    <2>3. k \in (s + 1)..(j + 1) /\ Escapes(sql, s, k, j)
      BY <1>3, <2>1, <2>2 DEF Escapes
    <2>4. SUFFICES ASSUME NEW l \in (s + 1)..(j + 1), Escapes(sql, s, l, j), (j + 1 - l) % 2 = 0
                   PROVE  FALSE
      BY DEF EvenRun
    <2>5. k = l
      BY <1>3, <2>3, <2>4, RunUnique
    <2> QED
      BY <1>3, <2>1, <2>3, <2>4, <2>5
  <1>4. ASSUME NEW j \in Nat, j >= s, sql[j + 1] = Escape, ~EvenRun(sql, s, j)
        PROVE  EvenRun(sql, s, j + 1)
    <2>1. PICK k \in (s + 1)..(j + 1) : Escapes(sql, s, k, j)
      BY <1>4, RunExists
    <2>2. (j + 1 - k) % 2 # 0
      BY <1>4, <2>1 DEF EvenRun
    <2>3. k \in (s + 1)..((j + 1) + 1) /\ ((j + 1) + 1 - k) % 2 = 0
      BY <1>4, <2>1, <2>2
    <2>4. Escapes(sql, s, k, j + 1)
      <3> SUFFICES ASSUME NEW l \in k..(j + 1) PROVE sql[l] = Escape
        BY <2>1 DEF Escapes
      <3>1. l = j + 1 \/ l \in k..j
        BY <1>4, <2>1
      <3> QED
        BY <1>4, <2>1, <3>1 DEF Escapes
    <2> QED
      BY <2>3, <2>4 DEF EvenRun
  <1> QED
    BY <1>1, <1>2, <1>3, <1>4

\* A string: the pass skips what follows a backslash, and the rules count them.
LEMMA StringLeaves ==
  ASSUME NEW sql \in Seq(Chars), NEW s \in 1..Len(sql), Pass(sql)[s - 1] = Code,
         sql[s] \in Strings
  PROVE  LeavesInCode(sql, s)
  <1> DEFINE N == Len(sql)
             e == PieceEnd(sql, s)
             p == Pass(sql)
             c == sql[s]
             At2(j) == IF EvenRun(sql, s, j) THEN Point(c, "read") ELSE Point(c, "skip")
             T == {j \in s..(e - 1) : p[j] = At2(j)}
  <1>0. N \in Nat /\ s \in 1..N /\ c \in Strings /\ c # Escape
    OBVIOUS
  <1>1. e \in s..N /\ (\A q \in s..(e - 1) : ~Closes(sql, s, q)) /\ (e < N => Closes(sql, s, e))
    BY PieceEndFacts
  <1>2. \A i \in 1..N : p[i] = After(sql, i, p[i - 1])
    BY PassFacts
  <1>3. \A i \in 1..N : /\ After(sql, i, Point(c, "skip")) = Point(c, "read")
                        /\ After(sql, i, Point(c, "read")) =
                             IF sql[i] = Escape THEN Point(c, "skip")
                             ELSE IF sql[i] = c THEN Code ELSE Point(c, "read")
    BY <1>0, AfterFacts
  <1>4. \A q \in s..N : Closes(sql, s, q) <=> q > s /\ sql[q] = c /\ EvenRun(sql, s, q - 1)
    <2> SUFFICES ASSUME NEW q \in s..N
                 PROVE  Closes(sql, s, q) <=> q > s /\ sql[q] = c /\ EvenRun(sql, s, q - 1)
      OBVIOUS
    <2>1. (q - 1) + 1 = q
      BY <1>0
    <2>2. EvenRun(sql, s, q - 1) <=>
            \E k \in (s + 1)..q : /\ \A j \in k..(q - 1) : sql[j] = Escape
                                  /\ k = s + 1 \/ sql[k - 1] # Escape
                                  /\ (q - k) % 2 = 0
      BY <2>1 DEF EvenRun, Escapes
    <2>3. Closes(sql, s, q) <=>
            /\ q > s /\ sql[q] = sql[s]
            /\ \E k \in (s + 1)..q : /\ \A j \in k..(q - 1) : sql[j] = Escape
                                     /\ k = s + 1 \/ sql[k - 1] # Escape
                                     /\ (q - k) % 2 = 0
      <3>1. ~StartsDashes(sql, s) /\ ~StartsBlock(sql, s)
            /\ sql[s] # "backtick" /\ sql[s] # "#"
        BY DEF StartsDashes, StartsBlock, DashOpen, BlockOpen
      <3> QED
        BY <3>1 DEF Closes
    <2> QED
      BY <2>2, <2>3
  <1>5. p[s] = Point(c, "read")
    <2>1. p[s] = After(sql, s, Code)
      BY <1>0, <1>2
    <2> QED
      BY <1>0, <2>1, AfterCode
  <1>6. /\ EvenRun(sql, s, s)
        /\ \A j \in Nat : j >= s =>
             (EvenRun(sql, s, j + 1) <=> (sql[j + 1] # Escape \/ ~EvenRun(sql, s, j)))
    <2>1. s \in Nat
      OBVIOUS
    <2> QED
      BY <2>1, EvenFacts, Zenon
  <1>7. Point(c, "read") # Code /\ Point(c, "skip") # Code
    BY <1>0, NotCode
  <1> HIDE DEF N, e, p, c
  <1>8. \A j \in s..(e - 1) : p[j] = At2(j)
    <2> SUFFICES ASSUME s <= e - 1 PROVE \A j \in s..(e - 1) : p[j] = At2(j)
      BY <1>0, <1>1
    <2>1. s \in Nat /\ e - 1 \in Nat /\ s \in T
      BY <1>0, <1>1, <1>5, <1>6
    <2>2. ASSUME NEW j \in s..((e - 1) - 1), j \in T PROVE j + 1 \in T
      <3>1. j + 1 \in 1..N /\ j + 1 \in s..(e - 1) /\ j + 1 \in s..N /\ j + 1 > s
            /\ (j + 1) - 1 = j /\ j \in Nat /\ j >= s
        BY <1>0, <1>1
      <3>2. ~(sql[j + 1] = c /\ EvenRun(sql, s, j))
        <4>1. ~Closes(sql, s, j + 1)
          BY <1>1, <3>1
        <4> QED
          BY <1>4, <3>1, <4>1
      <3>3. p[j + 1] = After(sql, j + 1, p[j]) /\ p[j] = At2(j)
        BY <1>2, <2>2, <3>1
      <3>4. EvenRun(sql, s, j + 1) <=> (sql[j + 1] # Escape \/ ~EvenRun(sql, s, j))
        BY <1>6, <3>1
      <3>5. CASE EvenRun(sql, s, j)
        <4>1. p[j + 1] = IF sql[j + 1] = Escape THEN Point(c, "skip") ELSE Point(c, "read")
          BY <1>3, <3>1, <3>2, <3>3, <3>5
        <4> QED
          BY <3>1, <3>4, <3>5, <4>1
      <3>6. CASE ~EvenRun(sql, s, j)
        <4>1. p[j + 1] = Point(c, "read")
          BY <1>3, <3>1, <3>3, <3>6
        <4> QED
          BY <3>1, <3>4, <3>6, <4>1
      <3> QED
        BY <3>5, <3>6
    <2>3. \A j \in s..(e - 1) : j \in T
      <3> HIDE DEF T
      <3> QED
        BY <2>1, <2>2, Between, Zenon
    <2> QED
      BY <2>3
  <1>9. \A j \in s..(e - 1) : p[j] # Code
    BY <1>7, <1>8
  <1>10. ASSUME e < N PROVE p[e] = Code
    <2>1. e > s /\ sql[e] = c /\ EvenRun(sql, s, e - 1)
      BY <1>1, <1>4, <1>10
    <2>2. e \in 1..N /\ e - 1 \in s..(e - 1)
      BY <1>0, <1>1, <2>1
    <2>3. p[e] = After(sql, e, p[e - 1]) /\ p[e - 1] = Point(c, "read")
      BY <1>2, <1>8, <2>1, <2>2
    <2> QED
      BY <1>0, <1>3, <2>1, <2>2, <2>3
  <1> QED
    BY <1>9, <1>10 DEF LeavesInCode, N, e, p

\* Each kind of piece.
LEMMA PieceLeaves ==
  ASSUME NEW sql \in Seq(Chars), NEW s \in 1..Len(sql), Pass(sql)[s - 1] = Code,
         AlikeAt(sql, s)
  PROVE  LeavesInCode(sql, s)
  <1> DEFINE N == Len(sql)
             e == PieceEnd(sql, s)
             p == Pass(sql)
  <1>0. N \in Nat /\ s \in 1..N
    OBVIOUS
  <1>1. p[s] = After(sql, s, Code) /\ \A i \in 1..N : p[i] = After(sql, i, p[i - 1])
    BY PassFacts
  <1>2. CASE sql[s] \in Strings
    BY <1>2, StringLeaves
  <1>3. CASE BlockOpen(sql, s)
    BY <1>3, BlockLeaves
  <1>4. CASE sql[s] = "backtick"
    <2>1. \A q \in s..N : Closes(sql, s, q) <=> q >= s + 1 /\ sql[q] = "backtick"
      <3>1. \A q \in s..N : Closes(sql, s, q) <=> q > s /\ sql[q] = "backtick"
        BY <1>4, ClosesOf
      <3>2. \A q \in s..N : q > s <=> q >= s + 1
        BY <1>0
      <3> QED
        BY <3>1, <3>2
    <2>2. \A i \in 1..N : After(sql, i, Point("backtick", "read")) =
                            IF sql[i] = "backtick" THEN Code ELSE Point("backtick", "read")
      BY AfterFacts
    <2>3. s + 1 \in (s + 1)..(N + 1) /\ (s + 1) - 1 = s /\ s..((s + 1) - 2) = {}
      BY <1>0
    <2>4. p[s] = Point("backtick", "read")
      BY <1>1, <1>4, AfterCode
    <2> HIDE DEF p
    <2>5. p[(s + 1) - 1] = Point("backtick", "read") /\ \A j \in s..((s + 1) - 2) : p[j] # Code
      BY <2>3, <2>4
    <2>9. Plain(sql, s, s + 1, "backtick", "backtick")
      BY <2>1, <2>2, <2>3, <2>5 DEF Plain, p, N
    <2> QED
      BY <2>9, PlainLeaves
  <1>5. CASE sql[s] = "#"
    <2>1. \A q \in s..N : Closes(sql, s, q) <=> q >= s + 1 /\ sql[q] = NL
      BY <1>5, ClosesOf
    <2>2. \A i \in 1..N : After(sql, i, Point("line", "read")) =
                            IF sql[i] = NL THEN Code ELSE Point("line", "read")
      BY AfterFacts
    <2>3. s + 1 \in (s + 1)..(N + 1) /\ (s + 1) - 1 = s /\ s..((s + 1) - 2) = {}
      BY <1>0
    <2>4. p[s] = Point("line", "read")
      BY <1>1, <1>5, AfterCode
    <2> HIDE DEF p
    <2>5. p[(s + 1) - 1] = Point("line", "read") /\ \A j \in s..((s + 1) - 2) : p[j] # Code
      BY <2>3, <2>4
    <2>9. Plain(sql, s, s + 1, "line", NL)
      BY <2>1, <2>2, <2>3, <2>5 DEF Plain, p, N
    <2> QED
      BY <2>9, PlainLeaves
  <1>6. CASE DashOpen(sql, s)
    <2>1. \A q \in s..N : Closes(sql, s, q) <=> q >= s + 2 /\ sql[q] = NL
      BY <1>6, ClosesOf
    <2>2. \A i \in 1..N : After(sql, i, Point("line", "read")) =
                            IF sql[i] = NL THEN Code ELSE Point("line", "read")
      BY AfterFacts
    <2>3. s + 1 \in 1..N
      BY <1>6 DEF DashOpen, At
    <2>4. p[s] = Point("line", "skip")
      BY <1>1, <1>6, AfterCode
    <2>5. p[s + 1] = Point("line", "read")
      <3>1. p[s + 1] = After(sql, s + 1, p[s])
        BY <1>0, <1>1, <2>3
      <3> QED
        BY <2>4, <3>1, AfterFacts
    <2>6. Point("line", "skip") # Code
      BY NotCode
    <2> HIDE DEF p
    <2>7. s + 2 \in (s + 1)..(N + 1) /\ (s + 2) - 1 = s + 1 /\ s..((s + 2) - 2) = {s}
      BY <1>0, <2>3
    <2>8. p[(s + 2) - 1] = Point("line", "read") /\ \A j \in s..((s + 2) - 2) : p[j] # Code
      BY <2>4, <2>5, <2>6, <2>7
    <2>9. Plain(sql, s, s + 2, "line", NL)
      BY <2>1, <2>2, <2>7, <2>8 DEF Plain, p, N
    <2> QED
      BY <2>9, PlainLeaves
  <1>7. CASE sql[s] \notin Quotes /\ ~OpensComment(sql, s)
    <2>1. p[s] = Code
      BY <1>1, <1>7, AfterCode
    <2>2. e = s
      BY <1>7, OneCharacter
    <2> HIDE DEF p, e, N
    <2>3. s..(e - 1) = {}
      BY <1>0, <2>2
    <2> QED
      BY <2>1, <2>2, <2>3 DEF LeavesInCode, p, e
  <1> QED
    BY <1>2, <1>3, <1>4, <1>5, <1>6, <1>7 DEF OpensComment, LineOpen

\* The pass enters every piece in code, and is in code nowhere else.
LEMMA StartsAreInCode ==
  ASSUME NEW sql \in Seq(Chars), NEW i \in 1..Len(sql), CommentsAlike(sql)
  PROVE  Pass(sql)[i - 1] = Code <=> i \in Starts(sql)
  <1> DEFINE N == Len(sql)
             p == Pass(sql)
             q == Pieces(sql)
             T == {n \in 0..N : q[n] \in 1..N => p[q[n] - 1] = Code}
  <1>0. N \in Nat /\ i \in 1..N
    OBVIOUS
  <1>1. /\ q[0] = 1 /\ \A n \in 0..N : q[n] \in 1..(N + 1)
        /\ \A n \in 1..N : q[n] = IF q[n - 1] \in 1..N THEN PieceEnd(sql, q[n - 1]) + 1
                                  ELSE q[n - 1]
    BY PiecesFacts
  <1>2. p[0] = Code
    BY PassFacts
  <1>3. ASSUME NEW s \in Starts(sql), p[s - 1] = Code
        PROVE  /\ \A j \in s..(PieceEnd(sql, s) - 1) : p[j] # Code
               /\ PieceEnd(sql, s) < N => p[PieceEnd(sql, s)] = Code
    <2>1. s \in 1..N /\ AlikeAt(sql, s)
      BY DEF Starts, CommentsAlike, AlikeAt
    <2> QED
      BY <1>3, <2>1, PieceLeaves DEF LeavesInCode
  <1>4. \A s \in 1..N : PieceEnd(sql, s) \in s..N
    BY PieceEndFacts
  <1>5. Starts(sql) = {q[n] : n \in 0..N} \cap 1..N
    BY DEF Starts
  <1>6. \E s \in Starts(sql) : s <= i /\ i <= PieceEnd(sql, s)
    BY PiecesCover
  <1> HIDE DEF N, p, q
  <1>7. \A n \in 0..N : n \in T
    <2>1. 0 \in T
      BY <1>0, <1>1, <1>2
    <2>2. ASSUME NEW n \in 0..(N - 1), n \in T PROVE n + 1 \in T
      <3>1. n + 1 \in 1..N /\ (n + 1) - 1 = n /\ n \in 0..N /\ n + 1 \in 0..N
        BY <1>0
      <3>2. SUFFICES ASSUME q[n + 1] \in 1..N PROVE p[q[n + 1] - 1] = Code
        BY <3>1
      <3>3. q[n] \in 1..N /\ q[n + 1] = PieceEnd(sql, q[n]) + 1
        BY <1>0, <1>1, <3>1, <3>2
      <3>4. p[q[n] - 1] = Code
        BY <2>2, <3>3
      <3> DEFINE e == PieceEnd(sql, q[n])
      <3>5. e \in q[n]..N /\ q[n + 1] = e + 1
        BY <1>4, <3>3
      <3>6. e < N /\ q[n + 1] - 1 = e
        <4> HIDE DEF e
        <4> QED
          BY <1>0, <3>2, <3>3, <3>5
      <3>7. q[n] \in Starts(sql)
        BY <1>5, <3>1, <3>3
      <3> QED
        BY <1>3, <3>4, <3>6, <3>7
    <2> HIDE DEF T
    <2> QED
      BY <1>0, <2>1, <2>2, UpTo, Zenon
  <1>8. \A s \in Starts(sql) : p[s - 1] = Code
    BY <1>5, <1>7
  <1>9. ASSUME p[i - 1] = Code PROVE i \in Starts(sql)
    <2>1. PICK s \in Starts(sql) : s <= i /\ i <= PieceEnd(sql, s)
      BY <1>6
    <2>2. s \in 1..N /\ p[s - 1] = Code
      BY <1>5, <1>8, <2>1
    <2>3. ASSUME s # i PROVE FALSE
      <3>1. i - 1 \in s..(PieceEnd(sql, s) - 1)
        BY <1>0, <1>4, <2>1, <2>2, <2>3
      <3> QED
        BY <1>3, <1>9, <2>2, <3>1
    <2> QED
      BY <2>1, <2>3
  <1> QED
    BY <1>8, <1>9 DEF p

\* The semicolons the pass counts are those that are pieces.
LEMMA SemicolonsAreStarts ==
  ASSUME NEW sql \in Seq(Chars), CommentsAlike(sql)
  PROVE  Semicolons(sql) = {i \in Starts(sql) : sql[i] = ";"}
  <1>1. DOMAIN sql = 1..Len(sql)
    OBVIOUS
  <1>2. \A i \in DOMAIN sql : Pass(sql)[i - 1] = Code <=> i \in Starts(sql)
    BY <1>1, StartsAreInCode
  <1>3. Starts(sql) \subseteq DOMAIN sql
    BY DEF Starts
  <1> QED
    BY <1>2, <1>3 DEF Semicolons

LEMMA StartsInside ==
  ASSUME NEW sql \in Seq(Chars)
  PROVE  Starts(sql) \in SUBSET (1..Len(sql))
  <1>1. DOMAIN sql = 1..Len(sql)
    OBVIOUS
  <1> QED
    BY <1>1 DEF Starts

\* What is said of a semicolon holds of any c that is not blank; the letter
\* itself stays out of the way of the solver, to which it starts a comment.
LEMMA OneFollows ==
  ASSUME NEW sql \in Seq(Chars), NEW c, c \notin Blanks,
         NEW i \in 1..Len(sql), NEW j \in 1..Len(sql), sql[i] = c, sql[j] = c, i # j
  PROVE  \E k \in {i, j} : \E l \in DOMAIN sql : l > k /\ sql[l] \notin Blanks
  <1>1. i < j \/ j < i
    OBVIOUS
  <1> QED
    BY <1>1

\* After a piece of one character only blanks follow when only pieces that
\* are blank do.
LEMMA InkIsAStart ==
  ASSUME NEW sql \in Seq(Chars), CommentsAlike(sql),
         NEW i \in Starts(sql), PieceEnd(sql, i) = i
  PROVE  (\E j \in DOMAIN sql : j > i /\ sql[j] \notin Blanks) <=>
           (\E j \in Starts(sql) : j > i /\ sql[j] \notin Blanks)
  <1> DEFINE N == Len(sql)
  <1>0. N \in Nat /\ DOMAIN sql = 1..N /\ Starts(sql) \subseteq 1..N
    BY StartsInside
  <1>1. SUFFICES ASSUME NEW j \in 1..N, j > i, sql[j] \notin Blanks
                 PROVE  \E k \in Starts(sql) : k > i /\ sql[k] \notin Blanks
    BY <1>0
  <1>2. PICK s \in Starts(sql) : s <= j /\ j <= PieceEnd(sql, s)
    BY PiecesCover
  <1>3. s \in 1..N /\ AlikeAt(sql, s) /\ i \in 1..N
    BY <1>0 DEF CommentsAlike, AlikeAt
  <1>4. ~(s < i)
    <2> SUFFICES ASSUME s < i PROVE FALSE
      OBVIOUS
    <2>1. Pass(sql)[s - 1] = Code /\ Pass(sql)[i - 1] = Code
      BY <1>3, StartsAreInCode
    <2>2. LeavesInCode(sql, s) /\ PieceEnd(sql, s) \in s..N
      BY <1>3, <2>1, PieceLeaves, PieceEndFacts
    <2>3. i - 1 \in s..(PieceEnd(sql, s) - 1)
      BY <1>0, <1>1, <1>2, <1>3, <2>2
    <2> QED
      BY <2>1, <2>2, <2>3 DEF LeavesInCode
  <1>5. s # i
    BY <1>0, <1>1, <1>2, <1>3
  <1>6. CASE sql[s] \in Blanks
    <2>1. sql[s] \notin Quotes /\ ~OpensComment(sql, s)
      BY <1>6 DEF OpensComment, LineOpen, DashOpen, BlockOpen, Blanks
    <2>2. PieceEnd(sql, s) = s
      BY <1>3, <2>1, OneCharacter
    <2>3. j = s
      BY <1>0, <1>2, <1>3, <2>2
    <2> QED
      BY <1>1, <1>6, <2>3
  <1>7. s > i
    BY <1>0, <1>3, <1>4, <1>5
  <1> QED
    BY <1>6, <1>7

\* hasMultipleStatements finds more than one statement when there is more than
\* one, or a comment after the semicolon of the only one.
LEMMA OneStatementIsScanned ==
  ASSUME NEW sql \in Seq(Chars), CommentsAlike(sql)
  PROVE  HasMultipleStatements(sql) <=> ~(OneStatement(sql) /\ ~CommentAfterSemicolon(sql))
  <1> DEFINE c == ";"
             S == {i \in Starts(sql) : sql[i] = c}
             Ink(i) == \E j \in DOMAIN sql : j > i /\ sql[j] \notin Blanks
             Starting(i) == \E j \in Starts(sql) : j > i /\ sql[j] \notin Blanks
             Blank(i) == \A j \in Starts(sql) : j > i => sql[j] \in Blanks \/ StartsComment(sql, j)
             Comment(i) == \E j \in Starts(sql) : j > i /\ StartsComment(sql, j)
  <1>1. (OneStatement(sql) <=> \A i \in S : Blank(i))
        /\ (CommentAfterSemicolon(sql) <=> \E i \in S : Comment(i))
    BY Zenon DEF OneStatement, CommentAfterSemicolon
  <1>2. HasMultipleStatements(sql) <=> \E i \in S : (\E j \in S : i # j) \/ Ink(i)
    BY SemicolonsAreStarts, Zenon DEF HasMultipleStatements
  <1>3. c \notin Blanks /\ c \notin Quotes /\ c # "#" /\ c # "-" /\ c # "/"
    BY Zenon DEF Blanks
  <1> HIDE DEF c
  <1>4. \A i \in S : i \in Starts(sql) /\ i \in 1..Len(sql) /\ sql[i] = c
    BY StartsInside
  <1> HIDE DEF S
  <1>5. ASSUME NEW i \in S, NEW j \in S, i # j
        PROVE  \E k \in S : Ink(k)
    <2>1. \E k \in {i, j} : Ink(k)
      BY <1>3, <1>4, <1>5, OneFollows
    <2> QED
      BY <2>1
  <1>6. ASSUME NEW i \in S
        PROVE  Ink(i) <=> Starting(i)
    <2>1. sql[i] \notin Quotes /\ ~OpensComment(sql, i)
      BY <1>3, <1>4 DEF OpensComment, LineOpen, DashOpen, BlockOpen
    <2>2. PieceEnd(sql, i) = i
      BY <1>4, <2>1, OneCharacter
    <2> QED
      BY <1>4, <2>2, InkIsAStart
  <1>7. \A j \in Starts(sql) : StartsComment(sql, j) => sql[j] \notin Blanks
    BY DEF StartsComment, StartsDashes, StartsBlock, DashOpen, BlockOpen, Blanks
  <1>8. \A i \in S : Starting(i) <=> ~(Blank(i) /\ ~Comment(i))
    BY <1>7
  <1> HIDE DEF Ink, Starting, Blank, Comment
  <1> QED
    BY <1>1, <1>2, <1>5, <1>6, <1>8

\* Up to the first piece that is not skipped the scan is on its way.
LEMMA OnTheWay ==
  ASSUME NEW sql \in Seq(Chars), CommentsAlike(sql), NEW i \in Starts(sql),
         \A j \in Starts(sql) : j < i => Skips(sql, j)
  PROVE  Skipping(sql)[i] = Skipping(sql)[1]
  <1> DEFINE N == Len(sql)
             f == Skipping(sql)
             q == Pieces(sql)
             T == {n \in 0..N : q[n] \in 1..i => f[q[n]] = f[1]}
  <1>0. N \in Nat /\ i \in 1..N
    BY DEF Starts
  <1>1. /\ q[0] = 1 /\ \A n \in 0..N : q[n] \in 1..(N + 1)
        /\ \A n \in 1..N : q[n] = IF q[n - 1] \in 1..N THEN PieceEnd(sql, q[n - 1]) + 1
                                  ELSE q[n - 1]
    BY PiecesFacts
  <1>2. \A k \in 1..N : PieceEnd(sql, k) \in k..N
    BY PieceEndFacts
  <1>3. \A s \in Starts(sql) : Skips(sql, s) => f[s] = f[PieceEnd(sql, s) + 1]
    <2> SUFFICES ASSUME NEW s \in Starts(sql), Skips(sql, s)
                 PROVE  f[s] = f[PieceEnd(sql, s) + 1]
      OBVIOUS
    <2>0. s \in 1..N /\ AlikeAt(sql, s)
      BY DEF Starts, CommentsAlike, AlikeAt
    <2> DEFINE e == PieceEnd(sql, s)
               to == Past(sql, s)
    <2>1. /\ to \in (s + 1)..(N + 1)
          /\ to = e + 1 \/ (to = e /\ sql[e] = NL)
      BY <2>0, PastFacts
    <2>2. \A k \in 1..(N + 1) :
            f[k] = IF k > N THEN k ELSE IF Past(sql, k) = k THEN k ELSE f[Past(sql, k)]
      BY SkippingFacts
    <2>3. e \in s..N
      BY <2>0, PieceEndFacts
    <2>4. Past(sql, e) = e + 1 \/ sql[e] # NL
      BY DEF Past, DashOpen, BlockOpen, Blanks
    <2> HIDE DEF f, N, e
    <2>5. f[s] = f[to]
      <3> HIDE DEF to
      <3>1. s \in 1..(N + 1) /\ ~(s > N) /\ to # s
        BY <1>0, <2>0, <2>1
      <3> QED
        BY <2>2, <3>1 DEF to
    <2>6. CASE to = e /\ sql[e] = NL
      <3>1. Past(sql, e) = e + 1
        BY <2>4, <2>6
      <3>2. e \in 1..(N + 1) /\ ~(e > N) /\ e + 1 # e
        BY <1>0, <2>0, <2>3
      <3>3. f[e] = f[e + 1]
        BY <2>2, <3>1, <3>2
      <3> QED
        BY <2>5, <2>6, <3>3 DEF e
    <2> QED
      BY <2>1, <2>5, <2>6 DEF e
  <1>4. Starts(sql) = {q[n] : n \in 0..N} \cap 1..N
    BY DEF Starts
  <1> HIDE DEF N, f, q
  <1>5. \A n \in 0..N : n \in T
    <2>1. 0 \in T
      BY <1>0, <1>1
    <2>2. ASSUME NEW n \in 0..(N - 1), n \in T PROVE n + 1 \in T
      <3>1. n + 1 \in 1..N /\ (n + 1) - 1 = n /\ n \in 0..N /\ n + 1 \in 0..N
        BY <1>0
      <3>2. SUFFICES ASSUME q[n + 1] \in 1..i PROVE f[q[n + 1]] = f[1]
        BY <3>1
      <3> DEFINE e == PieceEnd(sql, q[n])
      <3>3. q[n + 1] \in 1..N
        BY <1>0, <3>2
      <3>4. q[n] \in 1..N /\ q[n + 1] = e + 1
        BY <1>0, <1>1, <3>1, <3>3
      <3>5. e \in q[n]..N
        BY <1>2, <3>4
      <3>6. q[n] < i /\ q[n] \in 1..i
        <4> HIDE DEF e
        <4> QED
          BY <1>0, <3>2, <3>4, <3>5
      <3>7. q[n] \in Starts(sql) /\ Skips(sql, q[n])
        <4>1. q[n] \in Starts(sql)
          BY <1>4, <3>1, <3>4
        <4> QED
          BY <3>6, <4>1
      <3>8. f[q[n]] = f[1]
        BY <2>2, <3>6
      <3> QED
        BY <1>3, <3>4, <3>7, <3>8
    <2> HIDE DEF T
    <2> QED
      BY <1>0, <2>1, <2>2, UpTo, Zenon
  <1>6. PICK n \in 0..N : q[n] = i
    BY <1>4
  <1>7. f[i] = f[1]
    BY <1>0, <1>5, <1>6
  <1> QED
    BY <1>7 DEF f

\* firstKeyword finds a word that reads when the text begins with one.
LEMMA ReadIsScanned ==
  ASSUME NEW sql \in Seq(Chars), CommentsAlike(sql)
  PROVE  StartsWithRead(sql) <=> BeginsARead(sql)
  <1> DEFINE N == Len(sql)
             f == Skipping(sql)
             Begins(i) == /\ sql[i] = Read
                          /\ i + 1 \in DOMAIN sql => sql[i + 1] \notin Letters
  <1>0. N \in Nat /\ DOMAIN sql = 1..N /\ Starts(sql) \subseteq 1..N
    BY DEF Starts
  <1>1. \A k \in 1..(N + 1) :
          f[k] = IF k > N THEN k ELSE IF Past(sql, k) = k THEN k ELSE f[Past(sql, k)]
    BY SkippingFacts
  <1>2. StartsWithRead(sql) <=> f[1] \in 1..N /\ Begins(f[1])
    BY <1>0 DEF StartsWithRead, KeywordStart, At
  <1>3. BeginsARead(sql) <=>
          \E i \in Starts(sql) : Begins(i) /\ \A j \in Starts(sql) : j < i => Skips(sql, j)
    <2>1. \A j \in Starts(sql) : StartsComment(sql, j) <=> OpensComment(sql, j)
      BY <1>0, SameComments DEF CommentsAlike, AlikeAt
    <2> QED
      BY <2>1 DEF BeginsARead, Skips
  <1>4. \A i \in 1..N : ~Skips(sql, i) => Past(sql, i) = i
    BY PastFacts
  <1>5. \A i \in 1..N : sql[i] = Read => ~Skips(sql, i)
    BY DEF Skips, OpensComment, LineOpen, DashOpen, BlockOpen, Blanks, Read
  <1>6. \A i \in Starts(sql) :
          (\A j \in Starts(sql) : j < i => Skips(sql, j)) => f[i] = f[1]
    BY OnTheWay
  <1>7. \A i \in Starts(sql) :
          /\ PieceEnd(sql, i) \in i..N
          /\ Skips(sql, i) =>
               /\ Past(sql, i) \in (i + 1)..(N + 1)
               /\ \/ Past(sql, i) = PieceEnd(sql, i) + 1
                  \/ Past(sql, i) = PieceEnd(sql, i) /\ sql[PieceEnd(sql, i)] = NL
    <2> SUFFICES ASSUME NEW i \in Starts(sql)
                 PROVE  /\ PieceEnd(sql, i) \in i..N
                        /\ Skips(sql, i) =>
                             /\ Past(sql, i) \in (i + 1)..(N + 1)
                             /\ \/ Past(sql, i) = PieceEnd(sql, i) + 1
                                \/ Past(sql, i) = PieceEnd(sql, i) /\ sql[PieceEnd(sql, i)] = NL
      OBVIOUS
    <2>1. i \in 1..N /\ AlikeAt(sql, i)
      BY <1>0 DEF CommentsAlike, AlikeAt
    <2> QED
      BY <2>1, PieceEndFacts, PastFacts
  <1>8. \A i \in 1..N : \E s \in Starts(sql) : s <= i /\ i <= PieceEnd(sql, s)
    BY PiecesCover
  <1>9. \A i \in 1..N : sql[i] = NL => Past(sql, i) = i + 1
    BY DEF Past, DashOpen, BlockOpen, Blanks
  <1> HIDE DEF N, f
  <1>10. ASSUME BeginsARead(sql) PROVE StartsWithRead(sql)
    <2>1. PICK i \in Starts(sql) : Begins(i) /\ \A j \in Starts(sql) : j < i => Skips(sql, j)
      BY <1>3, <1>10
    <2>2. i \in 1..N /\ Past(sql, i) = i
      BY <1>0, <1>4, <1>5, <2>1
    <2>3. f[i] = i
      BY <1>0, <1>1, <2>2
    <2>4. f[1] = i
      BY <1>6, <2>1, <2>3
    <2> QED
      BY <1>2, <2>1, <2>2, <2>4
  <1>11. ASSUME StartsWithRead(sql) PROVE BeginsARead(sql)
    <2>1. f[1] \in 1..N /\ Begins(f[1])
      BY <1>2, <1>11
    <2> DEFINE U == {s \in Starts(sql) : ~Skips(sql, s)}
    <2>2. CASE U = {}
      <3>1. \A s \in Starts(sql) : Skips(sql, s)
        BY <2>2
      <3>2. N \in 1..N
        BY <1>0, <2>1
      <3>3. PICK s \in Starts(sql) : s <= N /\ N <= PieceEnd(sql, s)
        BY <1>8, <3>2
      <3>4. s \in 1..N /\ PieceEnd(sql, s) = N
        BY <1>0, <1>7, <3>3
      <3>5. f[s] = f[1]
        BY <1>6, <3>1
      <3>6. f[N + 1] = N + 1
        BY <1>0, <1>1
      <3>7. f[s] = N + 1
        <4>1. Past(sql, s) \in (s + 1)..(N + 1) /\ (Past(sql, s) = N + 1 \/ (Past(sql, s) = N /\ sql[N] = NL))
          BY <1>7, <3>1, <3>4
        <4>2. f[s] = f[Past(sql, s)]
          <5>1. s \in 1..(N + 1) /\ ~(s > N) /\ Past(sql, s) # s
            BY <1>0, <3>4, <4>1
          <5> QED
            BY <1>1, <5>1
        <4>3. CASE Past(sql, s) = N /\ sql[N] = NL
          <5>1. N \in 1..(N + 1) /\ ~(N > N) /\ Past(sql, N) = N + 1 /\ N + 1 # N
            BY <1>0, <1>9, <3>2, <4>3
          <5>2. f[N] = f[N + 1]
            BY <1>1, <5>1
          <5> QED
            BY <3>6, <4>2, <4>3, <5>2
        <4> QED
          BY <3>6, <4>1, <4>2, <4>3
      <3> QED
        BY <1>0, <2>1, <3>5, <3>7
    <2>3. CASE U # {}
      <3>1. U \subseteq Nat
        BY <1>0
      <3>2. PICK u \in U : \A s \in U : u <= s
        <4> HIDE DEF U
        <4> QED
          BY <2>3, <3>1, Least, Zenon
      <3>3. u \in Starts(sql) /\ u \in 1..N /\ ~Skips(sql, u)
        BY <1>0, <3>2
      <3>4. \A j \in Starts(sql) : j < u => Skips(sql, j)
        <4> SUFFICES ASSUME NEW j \in Starts(sql), j < u, ~Skips(sql, j) PROVE FALSE
          OBVIOUS
        <4>1. j \in U /\ j \in 1..N
          BY <1>0
        <4> HIDE DEF U
        <4> QED
          BY <1>0, <3>2, <3>3, <4>1
      <3>5. f[u] = u
        BY <1>0, <1>1, <1>4, <3>3
      <3>6. f[1] = u
        BY <1>6, <3>3, <3>4, <3>5
      <3> QED
        BY <1>3, <2>1, <3>3, <3>4, <3>6
    <2> QED
      BY <2>2, <2>3
  <1> QED
    BY <1>10, <1>11

\* The two scanners agree with the lexical rules on every text whose comments
\* they and MySQL start at the same places.
LEMMA EveryTextFollowsRules ==
  ASSUME NEW sql \in Seq(Chars)
  PROVE  FollowsRules(sql)
  BY OneStatementIsScanned, ReadIsScanned DEF FollowsRules, OneRead, ValidateMySQLReadonly

HIDE DEF Strings, Quotes, NL, Escape

(***************************************************************************)
(* Every variable of every panel, of its requests and of what is on the    *)
(* other side keeps its type; a list of patterns has MaxItems of them at   *)
(* most, and one more on the screen.                                       *)
(***************************************************************************)
THEOREM PanelsTypeCorrect == Spec => []PanelsTypeOK
  <1>1. ASSUME PanelsInv
        PROVE  PanelsTypeOK
    <2>1. ASSUME NEW l, l \in Seq(Items), Len(l) <= MaxItems + 1
          PROVE  l \in Lists
      <3>1. Len(l) \in 0..(MaxItems + 1) /\ l \in [1..Len(l) -> Items]
        BY <2>1, MaxItemsAssumption
      <3> QED
        BY <3>1 DEF Lists
    <2>2. /\ shown \in Lists
          /\ stored # NoItem => stored \in Lists
          /\ legacy # NoItem => legacy \in Lists
      <3>1. /\ shown \in Seq(Items) /\ Len(shown) <= MaxItems + 1
            /\ stored # NoItem => stored \in Seq(Items) /\ Len(stored) <= MaxItems
            /\ legacy # NoItem => legacy \in Seq(Items) /\ Len(legacy) <= MaxItems
        BY <1>1 DEF PanelsInv, ListInv, RecentInv, RecentList
      <3>2. \A l \in Seq(Items) : Len(l) <= MaxItems => Len(l) <= MaxItems + 1
        BY MaxItemsAssumption
      <3> QED
        BY <2>1, <3>1, <3>2
    <2>3. ListTypeOK
      BY <1>1, <2>2 DEF PanelsInv, ListInv, RecentInv, ListTypeOK
    <2> QED
      BY <1>1, <2>3 DEF PanelsInv, KeyInv, QueryInv, SchemaInv, PanelsTypeOK
  <1> QED
    BY <1>1, PanelsInvariant, PTL

(***************************************************************************)
(* The buttons page through a SCAN: each page is shown once and in order,  *)
(* through failures, a closed tab and its late answers, and a new Scan in  *)
(* the middle of the list (RedisKeysTab.tsx:78-90).                        *)
(***************************************************************************)
THEOREM PagesStayInOrder == Spec => []PagesInOrder
  <1>1. PanelsInv => PagesInOrder
    BY DEF PanelsInv, ListInv, InOrder, PagesInOrder
  <1> QED
    BY <1>1, PanelsInvariant, PTL

(***************************************************************************)
(* However the key changes between TYPE, the read and the next page, each  *)
(* element on the screen was in the key, under that type, since Refresh    *)
(* (RedisKeyTab.tsx:90-167).                                               *)
(***************************************************************************)
THEOREM NothingStale == Spec => []ShownWasThere
  <1>1. PanelsInv => ShownWasThere
    BY DEF PanelsInv, KeyInv
  <1> QED
    BY <1>1, PanelsInvariant, PTL

(***************************************************************************)
(* A value read to its end has everything the key held throughout, for any *)
(* number of pages, retries and concurrent writes (RedisKeyTab.tsx:169-202).*)
(***************************************************************************)
THEOREM ReadIsWhole == Spec => []ScanComplete
  <1>1. PanelsInv => ScanComplete
    BY DEF PanelsInv, KeyInv, PagesInv, ScanComplete, AllAskedFor, ScanTypes, ShownTypes
  <1> QED
    BY <1>1, PanelsInvariant, PTL

(***************************************************************************)
(* A result on the screen has every row up to the limit and says so when a *)
(* row or a part of a cell is missing, for any result and any limits       *)
(* (handlers_mysql.go:259-309).                                            *)
(***************************************************************************)
THEOREM AnswersAreHonest == Spec => []AnswerIsHonest
  <1>1. PanelsInv => AnswerIsHonest
    BY DEF PanelsInv, QueryInv
  <1> QED
    BY <1>1, PanelsInvariant, PTL

(***************************************************************************)
(* Of the texts in which the scanners and MySQL start a comment at the same*)
(* places (not "--" without a blank, nor "/*!"), the server lets a text    *)
(* pass exactly when by MySQL's lexical rules it is one statement that     *)
(* reads, with at most a semicolon at its end that no comment follows      *)
(* (internal/sqlguard/mysql_readonly.go:22-210).                           *)
(***************************************************************************)
THEOREM GuardIsRight == Spec => []GuardFollowsRules
  <1>1. PanelsInv => GuardFollowsRules
    BY EveryTextFollowsRules DEF PanelsInv, QueryInv, QueryTypeOK, GuardFollowsRules
  <1> QED
    BY <1>1, PanelsInvariant, PTL

(***************************************************************************)
(* "Export (this page)" writes the rows of a page that is there, whatever  *)
(* the sizes of the pages (MysqlQueryTab.tsx:76-101, 334-349).             *)
(***************************************************************************)
THEOREM ThePageExists == Spec => []PageExists
  <1>1. PanelsInv => PageExists
    BY DEF PanelsInv, QueryInv
  <1> QED
    BY <1>1, PanelsInvariant, PTL

(***************************************************************************)
(* What a settled tab shows is as new as the Refresh it answers, and the   *)
(* indexes as new as the columns (handlers_mysql_meta.go:49-58).           *)
(***************************************************************************)
THEOREM NewerThanRefresh == Spec => []SchemaIsFresh
  <1>1. PanelsInv => SchemaIsFresh
    BY DEF PanelsInv, SchemaInv
  <1> QED
    BY <1>1, PanelsInvariant, PTL

(***************************************************************************)
(* The DDL sub-tab shows a text, an error or that it loads, and loads at   *)
(* most once at a time (MysqlSchemaTab.tsx:54-89).                         *)
(***************************************************************************)
THEOREM NeverBlank == Spec => []DDLAccounted
  <1>1. PanelsInv => DDLAccounted
    BY DEF PanelsInv, SchemaInv
  <1> QED
    BY <1>1, PanelsInvariant, PTL
==============================================================================
