----------------------------- MODULE RedisKeyTab -----------------------------
(***************************************************************************)
(* webui/src/workspace/tabs/RedisKeyTab.tsx, the tab that shows the value  *)
(* of one key, with the handler that answers it                            *)
(* (internal/httpapi/handlers_redis_preview.go) and other clients of Redis *)
(* that write the key meanwhile.  The handler asks Redis twice, for the    *)
(* type and then for the value, and a page of a hash, a set or a zset is   *)
(* asked with a cursor the tab got earlier: the key may have become        *)
(* another one at either point.                                            *)
(*                                                                         *)
(* A value is a set of elements (fields, members, items, the one string).  *)
(* Of a list the tab asks for a range: all of it, as at first (0 to 99,    *)
(* which no list here exceeds), or a part.  Not modelled: the time to live *)
(* and what a key with spaces at its ends becomes (the tab asks for the    *)
(* trimmed name).                                                          *)
(***************************************************************************)
EXTENDS Naturals

CONSTANTS
  Elems,       \* what a value may hold
  Buckets,     \* the cursors of a whole scan are 0..(Buckets - 1)
  BucketOf,    \* [Elems -> 0..(Buckets - 1)]: where a scan meets an element
  KeyTypes,    \* the types other clients give the key
  MaxWrites    \* bound: writes of other clients

ScanTypes  == {"hash", "set", "zset"}
ShownTypes == ScanTypes \cup {"string", "list"}

ASSUME KeyTypesAssumption == KeyTypes \subseteq ShownTypes \cup {"stream"}
ASSUME BucketsAssumption ==
  Buckets \in Nat \ {0} /\ BucketOf \in [Elems -> 0..(Buckets - 1)]
ASSUME MaxWritesAssumption == MaxWrites \in Nat

VARIABLES
  type, elems,           \* the key in Redis; type is "none" without it
  writes,
  phase,                 \* "idle", or where the tab's one request stands
  mode, from,            \* loadFirst or loadMore, and the cursor asked with
  askedRange,            \* the range asked for
  found,                 \* what KeyMeta said
  page, next,            \* what the typed read returned
  meta, data, cursor, keyErr,  \* the tab
  listRange,             \* listStart and listStop, which number the items
  edited,                \* history: whether they were changed since an answer
  seen,                  \* history: what the key held, by type, since the
                         \* first page was asked for
  kept                   \* history: what it has held ever since, unreplaced

redis == <<type, elems, writes>>
request == <<phase, mode, from, askedRange, found, page, next>>
inputs == <<listRange, edited>>
display == <<meta, data, cursor, keyErr, inputs>>
keyVars == <<redis, request, display, seen, kept>>

Cursors == 0..(Buckets - 1)

\* A string is one element; no value is empty.
Values(t) == {E \in SUBSET Elems : /\ E # {}
                                   /\ t = "string" => \A e, f \in E : e = f}

Ranges == {"whole", "part"}

NoData == [t \in ShownTypes |-> {}]

Held(t, E) == [u \in ShownTypes |-> IF u = t THEN E ELSE {}]

(***************************************************************************)
(* Other clients.                                                          *)
(***************************************************************************)
Writing(t, E) ==
  /\ writes < MaxWrites
  /\ writes' = writes + 1
  /\ type' = t
  /\ elems' = E
  /\ seen' = [u \in ShownTypes |-> seen[u] \cup Held(t, E)[u]]
  /\ UNCHANGED <<request, display>>

\* HSET, HDEL, SADD, ...: the key stays.
ChangeKey(E) ==
  /\ type # "none"
  /\ E \in Values(type) \ {elems}
  /\ Writing(type, E)
  /\ kept' = kept \cap E

\* The key is deleted and created again, or another is renamed to it.
ReplaceKey(t, E) ==
  /\ E \in Values(t)
  /\ Writing(t, E)
  /\ kept' = {}

\* DEL, or the key expires.
RemoveKey ==
  /\ type # "none"
  /\ Writing("none", {})
  /\ kept' = {}

(***************************************************************************)
(* The tab asks.  It has one request at a time: its buttons do not react   *)
(* while they spin.                                                        *)
(***************************************************************************)
Ask(m, c, g) ==
  /\ phase' = "meta"
  /\ mode' = m
  /\ from' = c
  /\ askedRange' = g
  /\ keyErr' = "no"
  /\ UNCHANGED <<found, page, next>>

\* loadFirst up to its await; meta stays on the screen.
LoadFirst(g) ==
  /\ Ask("first", 0, g)
  /\ data' = NoData
  /\ cursor' = 0
  /\ seen' = Held(type, elems)
  /\ kept' = elems
  /\ UNCHANGED redis

\* A mutant of ClickRefresh: resetDataByType is not called.
RefreshKeepsData ==
  /\ phase = "idle"
  /\ Ask("first", 0, listRange)
  /\ seen' = Held(type, elems)
  /\ kept' = elems
  /\ UNCHANGED <<redis, meta, data, cursor, inputs>>

\* Refresh, or the button beside the range.
ClickRefresh ==
  /\ phase = "idle"
  /\ LoadFirst(listRange)
  /\ UNCHANGED <<meta, inputs>>

\* The inputs of the range can be changed while an answer is on its way.
EditRange(g) ==
  /\ meta = "list"
  /\ listRange' = g
  /\ edited' = "yes"
  /\ UNCHANGED <<redis, request, meta, data, cursor, keyErr, seen, kept>>

\* The tab is closed and opened again: a new component, which loads.
ReopenTab ==
  /\ LoadFirst("whole")
  /\ meta' = "none"
  /\ listRange' = "whole"
  /\ edited' = "no"

LoadMore ==
  /\ phase = "idle"
  /\ meta \in ScanTypes
  /\ cursor # 0
  /\ Ask("more", cursor, "whole")
  /\ UNCHANGED <<redis, meta, data, cursor, inputs, seen, kept>>

(***************************************************************************)
(* The handler.                                                            *)
(***************************************************************************)
\* A mutant of KeyMeta: a type the tab has no view for is let through.
KeyMetaAnyType ==
  /\ phase = "meta"
  /\ IF type # "none"
       THEN /\ found' = type
            /\ phase' = "read"
            /\ UNCHANGED keyErr
       ELSE /\ phase' = "idle"
            /\ keyErr' = "yes"
            /\ UNCHANGED found
  /\ UNCHANGED <<redis, mode, from, askedRange, page, next, meta, data, cursor, inputs, seen, kept>>

\* TYPE and PTTL, then the answers 404 and 400.
KeyMeta ==
  /\ phase = "meta"
  /\ IF type \in ShownTypes
       THEN /\ found' = type
            /\ phase' = "read"
            /\ UNCHANGED keyErr
       ELSE /\ phase' = "idle"
            /\ keyErr' = "yes"
            /\ UNCHANGED found
  /\ UNCHANGED <<redis, mode, from, askedRange, page, next, meta, data, cursor, inputs, seen, kept>>

Returns(E, n) ==
  /\ page' = E
  /\ next' = n
  /\ phase' = "answered"
  /\ UNCHANGED keyErr

Refused ==
  /\ phase' = "idle"
  /\ keyErr' = "yes"
  /\ UNCHANGED <<page, next>>

\* Redis answers cursor 0 after the last bucket.
Continue(last) == IF last = Buckets - 1 THEN 0 ELSE last + 1

\* HSCAN, SSCAN, ZSCAN: the buckets from the cursor on, as many as Redis
\* likes; a small value comes whole, whatever the cursor.
ScanPage ==
  \/ \E last \in from..(Buckets - 1) :
       Returns({e \in elems : BucketOf[e] \in from..last}, Continue(last))
  \/ Returns(elems, 0)

\* Where the items of a part of the list are, is not told.
RangeRead == \E E \in SUBSET elems :
  /\ askedRange = "whole" => E = elems
  /\ Returns(E, 0)

\* A command of another type is refused; without the key GET answers nil
\* (404), and the others an empty value.
ReadValue ==
  /\ phase = "read"
  /\ \/ type = found /\ found \in ScanTypes /\ ScanPage
     \/ type = found /\ found = "list" /\ RangeRead
     \/ type = found /\ found = "string" /\ Returns(elems, 0)
     \/ type = "none" /\ found # "string" /\ Returns({}, 0)
     \/ type # found /\ (type # "none" \/ found = "string") /\ Refused
  /\ UNCHANGED <<redis, mode, from, askedRange, found, meta, data, cursor, inputs, seen, kept>>

\* The server, the file, Redis or the deadline.
KeyFails ==
  /\ phase # "idle"
  /\ Refused
  /\ UNCHANGED <<redis, mode, from, askedRange, found, meta, data, cursor, inputs, seen, kept>>

(***************************************************************************)
(* The tab after its await.                                                *)
(***************************************************************************)
\* The answer brings the range it is of, and the inputs take it.
RangeShown ==
  /\ listRange' = askedRange
  /\ edited' = "no"

FirstPageShown ==
  /\ mode = "first"
  /\ data' = [data EXCEPT ![found] = page]
  /\ cursor' = IF found \in ScanTypes THEN next ELSE cursor
  /\ IF found = "list" THEN RangeShown ELSE UNCHANGED inputs

\* A mutant of NextPageShown: the page is shown instead of appended.
NextPageInstead ==
  /\ mode = "more"
  /\ data' = IF found \in ScanTypes THEN [data EXCEPT ![found] = page] ELSE data
  /\ cursor' = IF found \in ScanTypes THEN next ELSE 0
  /\ UNCHANGED inputs

\* A page of a type without pages is dropped.
NextPageShown ==
  /\ mode = "more"
  /\ data' = IF found \in ScanTypes THEN [data EXCEPT ![found] = @ \cup page] ELSE data
  /\ cursor' = IF found \in ScanTypes THEN next ELSE 0
  /\ UNCHANGED inputs

ShowPage ==
  /\ phase = "answered"
  /\ FirstPageShown \/ NextPageShown
  /\ phase' = "idle"
  /\ meta' = found
  /\ UNCHANGED <<redis, mode, from, askedRange, found, page, next, keyErr, seen, kept>>

Fill(t, E) ==
  /\ type = t
  /\ elems = E
  /\ writes = 0
  /\ phase = "meta"
  /\ mode = "first"
  /\ from = 0
  /\ askedRange = "whole"
  /\ found = "none"
  /\ page = {}
  /\ next = 0
  /\ meta = "none"
  /\ data = NoData
  /\ cursor = 0
  /\ keyErr = "no"
  /\ listRange = "whole"
  /\ edited = "no"
  /\ seen = Held(t, E)
  /\ kept = E

\* The tab has just been opened on a key of the list.
KeyInit == \E t \in KeyTypes : \E E \in Values(t) : Fill(t, E)

KeyNext ==
  \/ \E E \in SUBSET Elems : ChangeKey(E)
  \/ \E t \in KeyTypes : \E E \in Values(t) : ReplaceKey(t, E)
  \/ RemoveKey
  \/ ClickRefresh \/ ReopenTab \/ LoadMore
  \/ \E g \in Ranges : EditRange(g)
  \/ KeyMeta \/ ReadValue \/ KeyFails
  \/ ShowPage

KeySpec == KeyInit /\ [][KeyNext]_keyVars

(***************************************************************************)
(* Properties.                                                             *)
(***************************************************************************)
KeyTypeOK ==
  /\ type \in KeyTypes \cup {"none"}
  /\ elems \in SUBSET Elems
  /\ writes \in 0..MaxWrites
  /\ phase \in {"idle", "meta", "read", "answered"}
  /\ mode \in {"first", "more"}
  /\ from \in Cursors
  /\ askedRange \in Ranges
  /\ found \in ShownTypes \cup {"none"}
  /\ page \in SUBSET Elems
  /\ next \in Cursors
  /\ meta \in ShownTypes \cup {"none"}
  /\ data \in [ShownTypes -> SUBSET Elems]
  /\ cursor \in Cursors
  /\ keyErr \in {"yes", "no"}
  /\ listRange \in Ranges
  /\ edited \in {"yes", "no"}
  /\ seen \in [ShownTypes -> SUBSET Elems]
  /\ kept \in SUBSET Elems

(***************************************************************************)
(* Whatever the pages on the screen were made of, each element was in the  *)
(* key, under the type it is shown as, after the last Refresh: nothing of  *)
(* an earlier value survives a Refresh, a failed one included, or a change *)
(* of type between TYPE and the read (RedisKeyTab.tsx:90-167).             *)
(***************************************************************************)
ShownWasThere == \A t \in ShownTypes : data[t] \subseteq seen[t]

AllAskedFor == meta = "list" => listRange = "whole" /\ edited = "no"

(***************************************************************************)
(* A value read to its end (cursor "0", no error) is whole: what the key   *)
(* has held since the Refresh without being replaced is on the screen, in  *)
(* whatever pages, retries of More and changes of other elements it came;  *)
(* of a list, when the range that numbers its items is the whole and the   *)
(* user has not changed it since the answer, whatever was typed while that *)
(* was on its way (RedisKeyTab.tsx:148-155, 169-202, 393-425).             *)
(***************************************************************************)
ScanComplete ==
  phase = "idle" /\ keyErr = "no" /\ meta \in ShownTypes /\ cursor = 0 /\ AllAskedFor =>
    kept \subseteq data[meta]

(***************************************************************************)
(* The inductive invariant: what the key holds, and the page on its way,   *)
(* have been seen; and as long as something is kept, the key and the pages *)
(* have one type and the pages cover the buckets below the cursor.         *)
(***************************************************************************)
LiveInv ==
  /\ kept \subseteq elems
  /\ type = "none" => elems = {}
  /\ type \in ShownTypes => elems \subseteq seen[type]
  /\ phase \in {"read", "answered"} => found \in ShownTypes
  /\ phase = "answered" => page \subseteq seen[found]

\* What is kept in the buckets from f on, and up to the cursor n.
KeptIn(f, n) == {e \in kept : f <= BucketOf[e] /\ (n = 0 \/ BucketOf[e] < n)}

RequestInv ==
  /\ keyErr = "no"
  /\ from = cursor
  /\ mode = "more" <=> cursor # 0
  /\ phase \in {"read", "answered"} => found = type
  /\ phase = "answered" /\ (found = "list" => askedRange = "whole") => KeptIn(from, next) \subseteq page
  /\ phase = "answered" /\ found \notin ScanTypes => next = 0

PagesInv ==
  /\ cursor # 0 => meta = type /\ meta \in ScanTypes /\ KeptIn(0, cursor) \subseteq data[meta]
  /\ phase = "idle" /\ keyErr = "no" /\ cursor = 0 =>
       meta = type /\ meta \in ShownTypes /\ (AllAskedFor => kept \subseteq data[meta])

KeyInv ==
  /\ KeyTypeOK
  /\ ShownWasThere
  /\ LiveInv
  /\ kept # {} => (phase # "idle" => RequestInv) /\ PagesInv
=============================================================================
