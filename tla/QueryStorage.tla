---------------------------- MODULE QueryStorage ----------------------------
(***************************************************************************)
(* webui/src/storage/queryHistory.ts and queryFavorites.ts: the SQL a user *)
(* has run, newest first, cut at MAX_ITEMS over all connections, and the   *)
(* SQL a user keeps, never cut.  MysqlQueryTab shows its own copies.       *)
(*                                                                         *)
(* A query is what stableId hashes: the connection, the database and the   *)
(* SQL.  Two with the same 32-bit hash are one here, as they are there.    *)
(***************************************************************************)
EXTENDS LocalStorage

CONSTANTS
  Queries,
  MaxHistory,   \* MAX_ITEMS of queryHistory.ts, 50 in the code
  Favorites     \* favorites ever made: newId is taken to be unique

ASSUME MaxHistoryAssumption == MaxHistory \in Nat \ {0}
ASSUME NullAssumption == NoItem \notin Seq(Queries) \cup Seq(Favorites)

VARIABLES
  history, oldHistory,       \* the lists under KEY and OLD_KEY
  favorites, oldFavorites,
  historyShown, favoritesShown   \* the component's copies

queryItems == <<history, oldHistory, favorites, oldFavorites>>
queryViews == <<historyShown, favoritesShown>>

Except(list, x) == Among(list, Elements(list) \ {x})

\* In both modules OLD_KEY is removed whether or not the save threw (n = 1).
LoadHistory(n) ==
  LET moves == Moves(history, oldHistory)
  IN  /\ n = 1 => moves
      /\ historyShown' = ReadList(history, oldHistory)
      /\ history' = IF moves /\ n = 0 THEN First(oldHistory, MaxHistory) ELSE history
      /\ oldHistory' = IF moves THEN NoItem ELSE oldHistory

\* A mutant of PutFirst: a query that is run again moves, but the copy stays.
PutFirstCopied(q, list) == <<q>> \o list

PutFirst(q, list) == <<q>> \o Except(list, q)

\* pushHistory returns the whole list, and saves its first MaxHistory.
PushHistory(q) ==
  LET next == PutFirst(q, ReadList(history, NoItem))
  IN  /\ historyShown' = next
      /\ \/ Throw(0) /\ history' = First(next, MaxHistory)
         \/ Throw(1) /\ UNCHANGED history
      /\ UNCHANGED oldHistory

\* A mutant of ListFavorites: OLD_KEY is removed without a save.
ListFavoritesOnly(n) ==
  /\ n = 0
  /\ favoritesShown' = ReadList(favorites, oldFavorites)
  /\ oldFavorites' = NoItem
  /\ UNCHANGED favorites

ListFavorites(n) ==
  LET moves == Moves(favorites, oldFavorites)
  IN  /\ n = 1 => moves
      /\ favoritesShown' = ReadList(favorites, oldFavorites)
      /\ favorites' = IF moves /\ n = 0 THEN oldFavorites ELSE favorites
      /\ oldFavorites' = IF moves THEN NoItem ELSE oldFavorites

\* The list is saved, and read again for the screen.
SaveFavorites(list) ==
  /\ \/ Throw(0) /\ favorites' = list
     \/ Throw(1) /\ UNCHANGED favorites
  /\ favoritesShown' = ReadList(favorites', NoItem)
  /\ UNCHANGED oldFavorites

AddFavorite(f) == SaveFavorites(<<f>> \o ReadList(favorites, NoItem))

RemoveFavorite(f) == SaveFavorites(Except(ReadList(favorites, NoItem), f))
=============================================================================
