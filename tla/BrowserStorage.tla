--------------------------- MODULE BrowserStorage ---------------------------
(***************************************************************************)
(* The three lists of webui/src/storage in one localStorage, as            *)
(* RedisKeysTab and MysqlQueryTab use them: a tab loads its lists when it  *)
(* is mounted, and every later operation reads, edits and saves one list   *)
(* without an await in between.  The page may be reloaded at any time.     *)
(* When RedisKeysTab searches is the business of RedisKeysTab.tla.         *)
(*                                                                         *)
(* The token is in the same localStorage, and shares nothing with the      *)
(* lists but the quota: a behaviour is about the one or the other.         *)
(***************************************************************************)
EXTENDS RecentPatterns, QueryStorage, TokenStorage

VARIABLES
  use,       \* "lists" or "token"
  mounted,   \* the tabs that are open: a subset of {"keys", "query"}
  owned,     \* history: favorites the user has: saved, and not removed
  lost       \* history: the favorites whose move to the new key threw

patternVars == <<recentItems, shown>>
queryVars   == <<queryItems, queryViews, owned, lost>>
listVars    == <<patternVars, queryVars, mounted>>
vars == <<use, listVars, tokenVars, full>>

SavedOnce(S) == {NoItem} \cup {<<x>> : x \in S}

ListsInit ==
  /\ stored = NoItem
  /\ legacy \in SavedOnce([pattern : Patterns, pinned : {"yes"}])
  /\ shown = <<>>
  /\ history = NoItem /\ favorites = NoItem
  /\ oldHistory \in SavedOnce(Queries)
  /\ oldFavorites \in SavedOnce(Favorites)
  /\ historyShown = <<>> /\ favoritesShown = <<>>
  /\ mounted = {}
  /\ owned = {oldFavorites[i] : i \in DOMAIN ReadList(NoItem, oldFavorites)}
  /\ lost = {}

Init ==
  /\ use \in {"lists", "token"}
  /\ full = 0
  /\ ListsInit
  /\ TokenInit
  /\ use = "lists" => ReadToken = NoItem
  /\ use = "token" => {legacy, oldHistory, oldFavorites} = {NoItem}

MountKeysTab ==
  /\ "keys" \notin mounted
  /\ mounted' = mounted \cup {"keys"}
  /\ ListRecent
  /\ UNCHANGED queryVars

\* useState(loadHistory) and useState(listFavorites) in one render.
MountQueryTab ==
  /\ "query" \notin mounted
  /\ mounted' = mounted \cup {"query"}
  /\ \E h, f \in {0, 1} :
       /\ LoadHistory(h)
       /\ ListFavorites(f)
       /\ Throw(h + f)
       /\ lost' = IF f = 1 THEN lost \cup Elements(oldFavorites) ELSE lost
  /\ UNCHANGED <<patternVars, owned>>

\* The tabs and their copies are gone; the storage stays.
Reload ==
  /\ mounted # {}
  /\ mounted' = {}
  /\ shown' = <<>> /\ historyShown' = <<>> /\ favoritesShown' = <<>>
  /\ UNCHANGED <<recentItems, queryItems, owned, lost, full>>

KeysTab ==
  /\ "keys" \in mounted
  /\ \/ \E p \in Patterns : PushRecent(p, TRUE)
     \/ \E p \in PatternsOf(shown) : RemoveRecent(p) \/ TogglePin(p)
     \/ ClearRecent
  /\ UNCHANGED <<queryVars, mounted>>

\* A query succeeded.
QueryRan(q) ==
  /\ "query" \in mounted
  /\ PushHistory(q)
  /\ UNCHANGED <<patternVars, favorites, oldFavorites, favoritesShown, mounted,
                 owned, lost>>

\* The buttons that open the drawers read the lists again; nothing is left to
\* move by then.
OpenHistory ==
  /\ "query" \in mounted
  /\ LoadHistory(0)
  /\ UNCHANGED <<patternVars, favorites, oldFavorites, favoritesShown, mounted,
                 owned, lost, full>>

OpenFavorites ==
  /\ "query" \in mounted
  /\ ListFavorites(0)
  /\ UNCHANGED <<patternVars, history, oldHistory, historyShown, mounted,
                 owned, lost, full>>

ClickAdd(f) ==
  /\ "query" \in mounted
  /\ f \notin owned \cup Elements(favoritesShown)
  /\ AddFavorite(f)
  /\ owned' = IF full' = full THEN owned \cup {f} ELSE owned
  /\ UNCHANGED <<patternVars, history, oldHistory, historyShown, mounted, lost>>

ClickRemove(f) ==
  /\ "query" \in mounted
  /\ f \in Elements(favoritesShown)
  /\ RemoveFavorite(f)
  /\ owned' = owned \ {f}
  /\ lost' = lost \ {f}
  /\ UNCHANGED <<patternVars, history, oldHistory, historyShown, mounted>>

ListsNext ==
  \/ MountKeysTab \/ MountQueryTab \/ Reload \/ KeysTab
  \/ OpenHistory \/ OpenFavorites
  \/ \E q \in Queries : QueryRan(q)
  \/ \E f \in Favorites : ClickAdd(f) \/ ClickRemove(f)

Next ==
  /\ UNCHANGED use
  /\ \/ use = "lists" /\ ListsNext /\ UNCHANGED tokenVars
     \/ use = "token" /\ TokenNext /\ UNCHANGED listVars

Spec == Init /\ [][Next]_vars

(***************************************************************************)
(* Properties.                                                             *)
(***************************************************************************)
(***************************************************************************)
(* No list holds anything twice, on the screen or in the storage, however  *)
(* pushes, pins, removals, failed saves and reloads follow each other: the *)
(* tags have their pattern as React key (RedisKeysTab.tsx:151), and a push *)
(* drops the older entry (queryHistory.ts:72).                             *)
(***************************************************************************)
NothingTwice ==
  /\ \A l \in {shown, Recent} : Cardinality(PatternsOf(l)) = Len(l)
  /\ \A l \in {historyShown, ReadList(history, NoItem), favoritesShown,
               ReadList(favorites, NoItem)} : Cardinality(Elements(l)) = Len(l)

(***************************************************************************)
(* A star keeps a pattern: a push that has to drop one drops a pattern     *)
(* that is not pinned, while there is one (redisRecentPatterns.ts:18-24,   *)
(* 38, 50).  Only a removal or a clear makes the list shorter.             *)
(***************************************************************************)
PinnedSurvives ==
  [][\A p \in PinnedIn(Recent) \ PatternsOf(Recent') :
       \/ Len(Recent') < Len(Recent)
       \/ PinnedIn(Recent) = PatternsOf(Recent)]_vars

(***************************************************************************)
(* The history forgets the oldest query and no other, and only when it is  *)
(* full (queryHistory.ts:56, 72): whenever the screen shows a new list and *)
(* no save failed, the query at its top is the first one in the storage,   *)
(* and a query that is dropped was the last one.                           *)
(***************************************************************************)
HistoryForgetsOldest ==
  [][LET old == ReadList(history, oldHistory)
         new == ReadList(history', oldHistory')
     IN  full' = full /\ historyShown' \notin {historyShown, <<>>} =>
           /\ new[1] = historyShown'[1]
           /\ \A q \in Elements(old) \ Elements(new) :
                q = old[Len(old)] /\ Len(new) = MaxHistory]_vars

(***************************************************************************)
(* A favorite the user saved and did not remove can be read back           *)
(* (queryFavorites.ts:39-47, 70-77), after any number of reloads and       *)
(* failed saves.  The exception is what was under the old key when the     *)
(* save that moves it threw: the old key is removed all the same.  What is *)
(* saved later, on a list that starts empty then, is kept like the rest.   *)
(***************************************************************************)
FavoritesKept ==
  owned \ lost \subseteq Elements(ReadList(favorites, oldFavorites))
=============================================================================
