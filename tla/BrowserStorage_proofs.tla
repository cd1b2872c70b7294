------------------------ MODULE BrowserStorage_proofs ------------------------
(***************************************************************************)
(* Proofs about the browser's storage, for any patterns, queries,          *)
(* favorites, tokens and windows, and any limits of the lists.             *)
(***************************************************************************)
EXTENDS BrowserStorage, RecentPatterns_proofs

(***************************************************************************)
(* The inductive invariant.  Of the queries and favorites: a list that is  *)
(* stored or shown has nothing twice, the old key is gone once the tab is  *)
(* mounted, and the screen shows at least the favorites in the storage, so *)
(* that a favorite the user can add is not among them.                     *)
(***************************************************************************)
ListOf(S, list) == list \in Seq(S) /\ NoneTwice(list)

HistoryInv ==
  /\ \A list \in {history, oldHistory} :
       list # NoItem => ListOf(Queries, list) /\ Len(list) <= MaxHistory
  /\ ListOf(Queries, historyShown)
  /\ history # NoItem \/ "query" \in mounted => oldHistory = NoItem

FavoritesInv ==
  /\ \A list \in {favorites, oldFavorites} : list # NoItem => ListOf(Favorites, list)
  /\ ListOf(Favorites, favoritesShown)
  /\ favorites # NoItem \/ "query" \in mounted => oldFavorites = NoItem
  /\ "query" \in mounted =>
       Elements(ReadList(favorites, NoItem)) \subseteq Elements(favoritesShown)
  /\ FavoritesKept

TokenInv ==
  /\ token \in Tokens \cup {NoItem} /\ oldToken \in Tokens \cup {NoItem}
  /\ lastToken = ReadToken
  /\ header = [w \in Windows |-> header[w]]

BrowserInv == RecentInv /\ HistoryInv /\ FavoritesInv /\ TokenInv

(***************************************************************************)
(* The lists.                                                              *)
(***************************************************************************)
LEMMA ShortLists ==
  ASSUME NEW S
  PROVE  /\ ListOf(S, <<>>) /\ Len(<<>>) = 0 /\ Elements(<<>>) = {}
         /\ \A x \in S : ListOf(S, <<x>>) /\ Len(<<x>>) = 1 /\ Elements(<<x>>) = {x}
  <1>1. ListOf(S, <<>>) /\ Elements(<<>>) = {}
    BY DEF ListOf, NoneTwice, Elements
  <1>2. ASSUME NEW x \in S
        PROVE  ListOf(S, <<x>>) /\ Len(<<x>>) = 1 /\ Elements(<<x>>) = {x}
    <2>1. <<x>> \in Seq(S) /\ Len(<<x>>) = 1 /\ DOMAIN <<x>> = 1..1 /\ <<x>>[1] = x
      OBVIOUS
    <2>2. \A i, j \in 1..1 : i = j
      OBVIOUS
    <2>3. ListOf(S, <<x>>)
      BY <2>1, <2>2 DEF ListOf, NoneTwice
    <2>4. \A i \in 1..1 : i = 1
      OBVIOUS
    <2>5. Elements(<<x>>) = {x}
      BY <2>1, <2>4 DEF Elements
    <2> QED
      BY <2>1, <2>3, <2>5
  <1> QED
    BY <1>1, <1>2

LEMMA ExceptFacts ==
  ASSUME NEW S, NEW list, ListOf(S, list), NEW x \in S
  PROVE  /\ ListOf(S, Except(list, x))
         /\ Elements(Except(list, x)) = Elements(list) \ {x}
         /\ \A i \in 1..Len(Except(list, x)) :
              \E j \in 1..Len(list) : j >= i /\ Except(list, x)[i] = list[j]
  <1> DEFINE r == Among(list, Elements(list) \ {x})
  <1>1. r \in Seq(S) /\ Part(r, list) /\ Elements(r) = Elements(list) \cap (Elements(list) \ {x})
    BY AmongPart DEF ListOf
  <1>2. PICK f : Places(r, list, Elements(list) \ {x}, f)
    BY AmongFacts DEF ListOf
  <1>3. Except(list, x) = r
    BY DEF Except
  <1> HIDE DEF r
  <1>4. NoneTwice(r)
    BY <1>1, PartKeeps DEF ListOf
  <1>5. \A i \in 1..Len(r) : f[i] \in 1..Len(list) /\ f[i] >= i /\ r[i] = list[f[i]]
    BY <1>2 DEF Places
  <1> QED
    BY <1>1, <1>3, <1>4, <1>5 DEF ListOf

LEMMA FrontFacts ==
  ASSUME NEW S, NEW list, ListOf(S, list), NEW x \in S
  PROVE  /\ ListOf(S, PutFirst(x, list))
         /\ Elements(PutFirst(x, list)) = Elements(list) \cup {x}
         /\ PutFirst(x, list)[1] = x
         /\ Len(PutFirst(x, list)) >= 1
         /\ \A i \in 2..Len(PutFirst(x, list)) :
              \E j \in 1..Len(list) : j >= i - 1 /\ PutFirst(x, list)[i] = list[j]
  <1> DEFINE r == Except(list, x)
  <1>1. /\ ListOf(S, r) /\ Elements(r) = Elements(list) \ {x}
        /\ \A i \in 1..Len(r) : \E j \in 1..Len(list) : j >= i /\ r[i] = list[j]
    BY ExceptFacts
  <1>2. PutFirst(x, list) = <<x>> \o r
    BY DEF PutFirst
  <1> HIDE DEF r
  <1>3. r \in Seq(S) /\ Len(r) \in Nat
    BY <1>1 DEF ListOf
  <1>4. /\ <<x>> \o r \in Seq(S) /\ Len(<<x>> \o r) = Len(r) + 1 /\ (<<x>> \o r)[1] = x
        /\ \A i \in 2..(Len(r) + 1) : i - 1 \in 1..Len(r) /\ (<<x>> \o r)[i] = r[i - 1]
        /\ Elements(<<x>> \o r) = {x} \cup Elements(r)
        /\ x \notin Elements(r) /\ NoneTwice(r) => NoneTwice(<<x>> \o r)
    BY <1>3, InFront
  <1> HIDE DEF ListOf
  <1>5. ListOf(S, <<x>> \o r)
    BY <1>1, <1>4 DEF ListOf
  <1>6. \A i \in 2..(Len(r) + 1) :
          \E j \in 1..Len(list) : j >= i - 1 /\ (<<x>> \o r)[i] = list[j]
    <2> SUFFICES ASSUME NEW i \in 2..(Len(r) + 1)
                 PROVE  \E j \in 1..Len(list) : j >= i - 1 /\ (<<x>> \o r)[i] = list[j]
      OBVIOUS
    <2>1. i - 1 \in 1..Len(r) /\ (<<x>> \o r)[i] = r[i - 1]
      BY <1>4
    <2>2. PICK j \in 1..Len(list) : j >= i - 1 /\ r[i - 1] = list[j]
      BY <1>1, <2>1
    <2> QED
      BY <2>1, <2>2
  <1>7. Elements(<<x>> \o r) = Elements(list) \cup {x}
    BY <1>1, <1>4
  <1>8. Len(<<x>> \o r) >= 1
    BY <1>3, <1>4
  <1> QED
    BY <1>2, <1>4, <1>5, <1>6, <1>7, <1>8

LEMMA FirstList ==
  ASSUME NEW S, NEW list, ListOf(S, list), NEW n \in Nat
  PROVE  ListOf(S, First(list, n)) /\ Len(First(list, n)) <= n
  <1>1. /\ First(list, n) \in Seq(S) /\ Part(First(list, n), list)
        /\ Len(First(list, n)) = IF Len(list) < n THEN Len(list) ELSE n
        /\ Len(list) \in Nat
    BY FirstFacts DEF ListOf
  <1>2. NoneTwice(First(list, n))
    BY <1>1, PartKeeps DEF ListOf
  <1> QED
    BY <1>1, <1>2 DEF ListOf

LEMMA ReadIsList ==
  ASSUME HistoryInv
  PROVE  /\ ListOf(Queries, ReadList(history, oldHistory))
         /\ Len(ReadList(history, oldHistory)) <= MaxHistory
         /\ ListOf(Queries, ReadList(history, NoItem))
         /\ Len(ReadList(history, NoItem)) <= MaxHistory
  BY ShortLists, MaxHistoryAssumption DEF HistoryInv, ReadList

LEMMA ReadIsFavorites ==
  ASSUME FavoritesInv
  PROVE  /\ ListOf(Favorites, ReadList(favorites, oldFavorites))
         /\ ListOf(Favorites, ReadList(favorites, NoItem))
  BY ShortLists DEF FavoritesInv, ReadList

\* A list is not what getItem returns for a key that is not there.
LEMMA ListIsStored ==
  ASSUME NEW list
  PROVE  /\ ListOf(Queries, list) => list # NoItem
         /\ ListOf(Favorites, list) => list # NoItem
  BY NullAssumption DEF ListOf

(***************************************************************************)
(* The actions: first what the operations of QueryStorage keep, then ...   *)
(***************************************************************************)
HistoryStep ==
  LET old == ReadList(history, oldHistory)
      new == ReadList(history', oldHistory')
  IN  full' = full /\ historyShown' \notin {historyShown, <<>>} =>
        /\ new[1] = historyShown'[1]
        /\ \A q \in Elements(old) \ Elements(new) :
             q = old[Len(old)] /\ Len(new) = MaxHistory

LEMMA LoadHistoryKeeps ==
  ASSUME HistoryInv, NEW n \in {0, 1}, LoadHistory(n),
         mounted' \in {mounted, mounted \cup {"query"}},
         n = 1 => full' # full
  PROVE  HistoryInv' /\ HistoryStep
  <1> DEFINE list == ReadList(history, oldHistory)
  <1>1. ListOf(Queries, list) /\ Len(list) <= MaxHistory
    BY ReadIsList
  <1>2. historyShown' = list
    BY DEF LoadHistory
  <1>3. CASE Moves(history, oldHistory) /\ n = 0
    <2>1. /\ list = oldHistory /\ First(oldHistory, MaxHistory) = oldHistory
          /\ history' = First(oldHistory, MaxHistory) /\ oldHistory' = NoItem
      <3>1. list = oldHistory /\ oldHistory # NoItem
        BY <1>3 DEF Moves, ReadList
      <3>2. First(oldHistory, MaxHistory) = oldHistory
        BY <1>1, <3>1, MaxHistoryAssumption, FirstFacts DEF ListOf
      <3> QED
        BY <1>3, <3>1, <3>2 DEF LoadHistory
    <2>2. ReadList(history', oldHistory') = list
      BY <1>3, <2>1 DEF ReadList, Moves
    <2>3. HistoryInv'
      BY <1>1, <1>2, <2>1 DEF HistoryInv
    <2> HIDE DEF list
    <2> QED
      BY <1>2, <2>2, <2>3 DEF HistoryStep, list
  <1>4. CASE Moves(history, oldHistory) /\ n = 1
    <2>1. history' = history /\ oldHistory' = NoItem /\ full' # full
      BY <1>4 DEF LoadHistory
    <2>2. HistoryInv'
      BY <1>1, <1>2, <2>1 DEF HistoryInv
    <2> QED
      BY <2>1, <2>2 DEF HistoryStep
  <1>5. CASE ~Moves(history, oldHistory)
    <2>1. history' = history /\ oldHistory' = oldHistory
      BY <1>5 DEF LoadHistory
    <2>2. HistoryInv'
      BY <1>1, <1>2, <1>5, <2>1 DEF HistoryInv, Moves
    <2>3. ReadList(history', oldHistory') = list
      BY <2>1
    <2> HIDE DEF list
    <2> QED
      BY <1>2, <2>2, <2>3 DEF HistoryStep, list
  <1> QED
    BY <1>3, <1>4, <1>5

LEMMA PushHistoryKeeps ==
  ASSUME HistoryInv, full \in 0..MaxFull, NEW q \in Queries, PushHistory(q),
         mounted' = mounted, "query" \in mounted
  PROVE  HistoryInv' /\ HistoryStep /\ full' \in 0..MaxFull
  <1> DEFINE old == ReadList(history, NoItem)
             next == PutFirst(q, old)
             cut == First(next, MaxHistory)
  <1>1. ListOf(Queries, old) /\ Len(old) <= MaxHistory
    BY ReadIsList
  <1>2. oldHistory = NoItem /\ oldHistory' = NoItem
    BY DEF HistoryInv, PushHistory
  <1>3. historyShown' = next
    BY DEF PushHistory
  <1>4. \/ full' = full /\ history' = cut
        \/ full' = full + 1 /\ history' = history
    BY MaxFullAssumption DEF PushHistory, Throw
  <1>5. full' \in 0..MaxFull
    BY MaxFullAssumption DEF PushHistory, Throw
  <1> HIDE DEF old
  <1>6. /\ ListOf(Queries, next) /\ Elements(next) = Elements(old) \cup {q}
        /\ next[1] = q /\ Len(next) >= 1
        /\ \A i \in 2..Len(next) : \E j \in 1..Len(old) : j >= i - 1 /\ next[i] = old[j]
    BY <1>1, FrontFacts
  <1> HIDE DEF next
  <1>7. ListOf(Queries, cut) /\ Len(cut) <= MaxHistory
    BY <1>6, FirstList, MaxHistoryAssumption
  <1>8. /\ Len(cut) = IF Len(next) < MaxHistory THEN Len(next) ELSE MaxHistory
        /\ \A i \in 1..Len(cut) : cut[i] = next[i]
    BY <1>6, FirstFacts, MaxHistoryAssumption DEF ListOf
  <1> HIDE DEF cut
  <1>9. HistoryInv'
    BY <1>2, <1>3, <1>4, <1>6, <1>7 DEF HistoryInv
  <1>10. ASSUME full' = full
         PROVE  /\ ReadList(history', oldHistory')[1] = historyShown'[1]
                /\ \A x \in Elements(ReadList(history, oldHistory))
                              \ Elements(ReadList(history', oldHistory')) :
                     /\ x = ReadList(history, oldHistory)[Len(ReadList(history, oldHistory))]
                     /\ Len(ReadList(history', oldHistory')) = MaxHistory
    <2>1. history' = cut /\ cut # NoItem
      BY <1>4, <1>7, <1>10, ListIsStored
    <2>2. ReadList(history', oldHistory') = cut /\ ReadList(history, oldHistory) = old
      BY <1>2, <2>1 DEF ReadList, old
    <2>3. /\ Len(next) \in Nat /\ Len(cut) \in Nat /\ Len(old) \in Nat
          /\ DOMAIN next = 1..Len(next) /\ DOMAIN cut = 1..Len(cut) /\ DOMAIN old = 1..Len(old)
      BY <1>1, <1>6, <1>7 DEF ListOf
    <2>4. Len(cut) >= 1
      BY <1>6, <1>8, <2>3, MaxHistoryAssumption
    <2>5. cut[1] = historyShown'[1] /\ cut[1] = q
      BY <1>3, <1>6, <1>8, <2>3, <2>4
    <2>6. ASSUME NEW x \in Elements(old) \ Elements(cut)
          PROVE  x = old[Len(old)] /\ Len(cut) = MaxHistory
      <3>1. \A i \in 1..Len(cut) : next[i] # x
        BY <1>8, <2>3, <2>6 DEF Elements
      <3>2. PICK i \in 1..Len(next) : next[i] = x
        BY <1>6, <2>3, <2>6 DEF Elements
      <3>3. i > Len(cut) /\ i >= 2
        BY <2>3, <2>4, <3>1, <3>2
      <3>4. Len(cut) = MaxHistory /\ i > MaxHistory /\ i \in Nat /\ MaxHistory \in Nat
        <4> DEFINE a == Len(next)
                   c == Len(cut)
                   m == MaxHistory
        <4>1. i \in Nat /\ i <= a /\ i > c /\ a \in Nat /\ c \in Nat /\ m \in Nat
          BY <2>3, <3>3, MaxHistoryAssumption
        <4>2. c = IF a < m THEN a ELSE m
          BY <1>8
        <4> HIDE DEF a, c, m
        <4>3. c = m /\ i > m
          BY <4>1, <4>2
        <4> QED
          BY <4>1, <4>3 DEF c, m
      <3>5. PICK j \in 1..Len(old) : j >= i - 1 /\ next[i] = old[j]
        BY <1>6, <2>3, <3>3
      <3>6. j = Len(old)
        <4> DEFINE b == Len(old)
                   m == MaxHistory
        <4>1. /\ j \in Nat /\ j <= b /\ j >= i - 1 /\ i \in Nat /\ i > m
              /\ b \in Nat /\ b <= m /\ m \in Nat
          BY <1>1, <2>3, <3>4, <3>5
        <4> HIDE DEF b, m
        <4>2. j = b
          BY <4>1
        <4> QED
          BY <4>2 DEF b
      <3> QED
        BY <3>2, <3>4, <3>5, <3>6
    <2> QED
      BY <2>2, <2>5, <2>6
  <1> QED
    BY <1>5, <1>9, <1>10 DEF HistoryStep

LEMMA ListFavoritesKeeps ==
  ASSUME FavoritesInv, NEW n \in {0, 1}, ListFavorites(n), owned' = owned,
         mounted' \in {mounted, mounted \cup {"query"}},
         lost' = IF n = 1 THEN lost \cup Elements(oldFavorites) ELSE lost
  PROVE  FavoritesInv'
  <1> DEFINE list == ReadList(favorites, oldFavorites)
  <1>1. ListOf(Favorites, list)
    BY ReadIsFavorites
  <1>2. favoritesShown' = list
    BY DEF ListFavorites
  <1>3. CASE Moves(favorites, oldFavorites) /\ n = 0
    <2>1. list = oldFavorites /\ oldFavorites # NoItem
      BY <1>3 DEF Moves, ReadList
    <2>2. favorites' = oldFavorites /\ oldFavorites' = NoItem
      BY <1>3 DEF ListFavorites
    <2>3. ReadList(favorites', oldFavorites') = list /\ ReadList(favorites', NoItem) = list
      BY <2>1, <2>2 DEF ReadList
    <2>4. FavoritesKept'
      BY <1>3, <2>3 DEF FavoritesInv, FavoritesKept
    <2> QED
      BY <1>1, <1>2, <2>1, <2>2, <2>3, <2>4 DEF FavoritesInv
  <1>4. CASE Moves(favorites, oldFavorites) /\ n = 1
    <2>1. favorites' = NoItem /\ oldFavorites' = NoItem
          /\ lost' = lost \cup Elements(oldFavorites)
      BY <1>4 DEF ListFavorites, Moves
    <2>2. ReadList(favorites', NoItem) = <<>>
      BY <2>1 DEF ReadList
    <2>3. FavoritesKept'
      <3>1. ReadList(favorites, oldFavorites) = oldFavorites
        BY <1>4 DEF Moves, ReadList
      <3>2. owned \subseteq Elements(oldFavorites) \cup lost
        BY <3>1 DEF FavoritesInv, FavoritesKept
      <3> QED
        BY <2>1, <3>2 DEF FavoritesKept
    <2>4. Elements(ReadList(favorites', NoItem)) = {}
      BY <2>2, ShortLists
    <2> QED
      BY <1>1, <1>2, <2>1, <2>3, <2>4 DEF FavoritesInv
  <1>5. CASE ~Moves(favorites, oldFavorites)
    <2>1. favorites' = favorites /\ oldFavorites' = oldFavorites /\ n = 0
      BY <1>5 DEF ListFavorites
    <2>2. oldFavorites = NoItem
      BY <1>5 DEF FavoritesInv, Moves
    <2>3. FavoritesKept'
      BY <2>1 DEF FavoritesInv, FavoritesKept
    <2> QED
      BY <1>1, <1>2, <2>1, <2>2, <2>3 DEF FavoritesInv
  <1> QED
    BY <1>3, <1>4, <1>5

\* The list that is saved: what it adds to the favorites or takes away, owned
\* gains only when the save succeeds, and loses at once.
LEMMA SaveFavoritesKeeps ==
  ASSUME FavoritesInv, full \in 0..MaxFull, "query" \in mounted,
         mounted' = mounted,
         NEW list, ListOf(Favorites, list), SaveFavorites(list),
         NEW more, NEW less,
         Elements(list) = (Elements(ReadList(favorites, NoItem)) \cup more) \ less,
         owned' = (IF full' = full THEN owned \cup more ELSE owned) \ less,
         lost' = lost \ less
  PROVE  FavoritesInv' /\ full' \in 0..MaxFull
  <1>1. oldFavorites = NoItem /\ oldFavorites' = NoItem
    BY DEF FavoritesInv, SaveFavorites
  <1>2. \/ full' = full /\ favorites' = list
        \/ full' = full + 1 /\ favorites' = favorites
    BY MaxFullAssumption DEF SaveFavorites, Throw
  <1>3. full' \in 0..MaxFull
    BY MaxFullAssumption DEF SaveFavorites, Throw
  <1>4. favoritesShown' = ReadList(favorites', NoItem)
    BY DEF SaveFavorites
  <1>5. list # NoItem
    BY ListIsStored
  <1>6. favorites' # NoItem => ListOf(Favorites, favorites')
    BY <1>2 DEF FavoritesInv
  <1>7. ListOf(Favorites, favoritesShown')
    BY <1>4, <1>6, ShortLists DEF ReadList
  <1>8. FavoritesKept'
    <2> SUFFICES owned' \ lost' \subseteq Elements(ReadList(favorites', oldFavorites'))
      BY DEF FavoritesKept
    <2>1. owned \ lost \subseteq Elements(ReadList(favorites, NoItem))
      BY <1>1 DEF FavoritesInv, FavoritesKept
    <2>2. CASE full' = full /\ favorites' = list
      <3>1. ReadList(favorites', oldFavorites') = list
        BY <1>5, <2>2 DEF ReadList
      <3> QED
        BY <2>1, <2>2, <3>1
    <2>3. CASE full' = full + 1 /\ favorites' = favorites
      <3>1. full' # full
        BY <2>3, MaxFullAssumption
      <3>2. ReadList(favorites', oldFavorites') = ReadList(favorites, NoItem)
        BY <1>1, <2>3
      <3> QED
        BY <2>1, <3>1, <3>2
    <2> QED
      BY <1>2, <2>2, <2>3
  <1> QED
    BY <1>1, <1>3, <1>4, <1>6, <1>7, <1>8 DEF FavoritesInv

(***************************************************************************)
(* ... then the actions of BrowserStorage.                                 *)
(***************************************************************************)
LEMMA PatternsUntouched ==
  ASSUME RecentInv, UNCHANGED patternVars, full' \in 0..MaxFull
  PROVE  RecentInv'
  BY DEF RecentInv, patternVars, recentItems

LEMMA HistoryUntouched ==
  ASSUME HistoryInv, UNCHANGED <<history, oldHistory, historyShown>>,
         mounted' \in {mounted, {}} \/ mounted' = mounted \cup {"keys"}
  PROVE  HistoryInv' /\ HistoryStep
  BY DEF HistoryInv, HistoryStep

LEMMA FavoritesUntouched ==
  ASSUME FavoritesInv, UNCHANGED <<favorites, oldFavorites, favoritesShown, owned, lost>>,
         mounted' \in {mounted, {}} \/ mounted' = mounted \cup {"keys"}
  PROVE  FavoritesInv'
  BY DEF FavoritesInv, FavoritesKept

ListsInv == RecentInv /\ HistoryInv /\ FavoritesInv

ListSteps == PinnedStep /\ HistoryStep

LEMMA PatternsStay ==
  ASSUME UNCHANGED patternVars
  PROVE  PinnedStep
  <1>1. Recent' = Recent
    BY DEF patternVars, recentItems, Recent
  <1> QED
    BY <1>1 DEF PinnedStep, PinnedIn, PatternsOf

LEMMA MountKeysTabKeeps ==
  ASSUME ListsInv, MountKeysTab
  PROVE  ListsInv' /\ ListSteps
  <1>1. RecentInv' /\ PinnedStep
    BY ListKeeps DEF ListsInv, MountKeysTab
  <1>2. mounted' = mounted \cup {"keys"}
        /\ UNCHANGED <<history, oldHistory, historyShown>>
        /\ UNCHANGED <<favorites, oldFavorites, favoritesShown, owned, lost>>
    BY DEF MountKeysTab, queryVars, queryItems, queryViews
  <1> QED
    BY <1>1, <1>2, HistoryUntouched, FavoritesUntouched DEF ListsInv, ListSteps

LEMMA MountQueryTabKeeps ==
  ASSUME ListsInv, MountQueryTab
  PROVE  ListsInv' /\ ListSteps
  <1>1. PICK h \in {0, 1}, f \in {0, 1} :
          /\ LoadHistory(h)
          /\ ListFavorites(f)
          /\ Throw(h + f)
          /\ lost' = IF f = 1 THEN lost \cup Elements(oldFavorites) ELSE lost
    BY DEF MountQueryTab
  <1>2. mounted' = mounted \cup {"query"} /\ UNCHANGED patternVars /\ owned' = owned
    BY DEF MountQueryTab
  <1>3. full \in 0..MaxFull
    BY DEF ListsInv, RecentInv
  <1>4. full' \in 0..MaxFull /\ (h = 1 => full' # full)
    BY <1>1, <1>3, MaxFullAssumption DEF Throw
  <1>5. HistoryInv' /\ HistoryStep
    BY <1>1, <1>2, <1>4, LoadHistoryKeeps DEF ListsInv
  <1>6. FavoritesInv'
    BY <1>1, <1>2, ListFavoritesKeeps DEF ListsInv
  <1> QED
    BY <1>2, <1>4, <1>5, <1>6, PatternsUntouched, PatternsStay DEF ListsInv, ListSteps

LEMMA ReloadKeeps ==
  ASSUME ListsInv, Reload
  PROVE  ListsInv' /\ ListSteps
  <1>1. /\ mounted' = {} /\ shown' = <<>> /\ historyShown' = <<>> /\ favoritesShown' = <<>>
        /\ UNCHANGED <<stored, legacy, history, oldHistory, favorites, oldFavorites,
                       owned, lost, full>>
    BY DEF Reload, recentItems, queryItems
  <1>2. RecentInv' /\ PinnedStep
    <2>1. Recent' = Recent
      BY <1>1 DEF Recent
    <2>2. Len(<<>>) <= MaxItems + 1
      BY EmptyList, MaxItemsAssumption
    <2> QED
      BY <1>1, <2>1, <2>2, EmptyList DEF ListsInv, RecentInv, PinnedStep, PinnedIn, PatternsOf
  <1>3. HistoryInv' /\ HistoryStep
    BY <1>1, ShortLists DEF ListsInv, HistoryInv, HistoryStep
  <1>4. FavoritesInv'
    BY <1>1, ShortLists DEF ListsInv, FavoritesInv, FavoritesKept
  <1> QED
    BY <1>2, <1>3, <1>4 DEF ListsInv, ListSteps

LEMMA KeysTabKeeps ==
  ASSUME ListsInv, KeysTab
  PROVE  ListsInv' /\ ListSteps
  <1>1. mounted' = mounted
        /\ UNCHANGED <<history, oldHistory, historyShown>>
        /\ UNCHANGED <<favorites, oldFavorites, favoritesShown, owned, lost>>
    BY DEF KeysTab, queryVars, queryItems, queryViews
  <1>2. PatternsOf(shown) \subseteq Patterns
    <2>1. \A i \in DOMAIN shown : shown[i] \in Items
      BY DEF ListsInv, RecentInv, RecentList
    <2> QED
      BY <2>1 DEF PatternsOf, Items
  <1>3. RecentInv' /\ PinnedStep
    <2>1. CASE \E p \in Patterns : PushRecent(p, TRUE)
      BY <2>1, PushKeeps DEF ListsInv
    <2>2. CASE \E p \in PatternsOf(shown) : RemoveRecent(p) \/ TogglePin(p)
      BY <1>2, <2>2, RemoveKeeps, ToggleKeeps DEF ListsInv
    <2>3. CASE ClearRecent
      BY <2>3, ClearKeeps DEF ListsInv
    <2> QED
      BY <2>1, <2>2, <2>3 DEF KeysTab
  <1> QED
    BY <1>1, <1>3, HistoryUntouched, FavoritesUntouched DEF ListsInv, ListSteps

LEMMA QueryRanKeeps ==
  ASSUME ListsInv, NEW q \in Queries, QueryRan(q)
  PROVE  ListsInv' /\ ListSteps
  <1>1. /\ "query" \in mounted /\ PushHistory(q) /\ mounted' = mounted
        /\ UNCHANGED patternVars
        /\ UNCHANGED <<favorites, oldFavorites, favoritesShown, owned, lost>>
    BY DEF QueryRan
  <1>2. full \in 0..MaxFull
    BY DEF ListsInv, RecentInv
  <1>3. HistoryInv' /\ HistoryStep /\ full' \in 0..MaxFull
    BY <1>1, <1>2, PushHistoryKeeps DEF ListsInv
  <1> QED
    BY <1>1, <1>3, PatternsUntouched, PatternsStay, FavoritesUntouched DEF ListsInv, ListSteps

LEMMA OpenHistoryKeeps ==
  ASSUME ListsInv, OpenHistory
  PROVE  ListsInv' /\ ListSteps
  <1>1. /\ LoadHistory(0) /\ mounted' = mounted /\ UNCHANGED patternVars /\ full' = full
        /\ UNCHANGED <<favorites, oldFavorites, favoritesShown, owned, lost>>
    BY DEF OpenHistory
  <1>2. full' \in 0..MaxFull
    BY <1>1 DEF ListsInv, RecentInv
  <1>3. HistoryInv' /\ HistoryStep
    BY <1>1, LoadHistoryKeeps DEF ListsInv
  <1> QED
    BY <1>1, <1>2, <1>3, PatternsUntouched, PatternsStay, FavoritesUntouched DEF ListsInv, ListSteps

LEMMA OpenFavoritesKeeps ==
  ASSUME ListsInv, OpenFavorites
  PROVE  ListsInv' /\ ListSteps
  <1>1. /\ ListFavorites(0) /\ mounted' = mounted /\ UNCHANGED patternVars /\ full' = full
        /\ UNCHANGED <<history, oldHistory, historyShown>>
        /\ owned' = owned /\ lost' = lost
    BY DEF OpenFavorites
  <1>2. full' \in 0..MaxFull
    BY <1>1 DEF ListsInv, RecentInv
  <1>3. FavoritesInv'
    BY <1>1, ListFavoritesKeeps DEF ListsInv
  <1> QED
    BY <1>1, <1>2, <1>3, PatternsUntouched, PatternsStay, HistoryUntouched DEF ListsInv, ListSteps

LEMMA AddKeeps ==
  ASSUME ListsInv, NEW f \in Favorites, ClickAdd(f)
  PROVE  ListsInv' /\ ListSteps
  <1> DEFINE old == ReadList(favorites, NoItem)
             list == <<f>> \o old
  <1>1. /\ "query" \in mounted /\ f \notin Elements(favoritesShown)
        /\ SaveFavorites(list) /\ mounted' = mounted /\ UNCHANGED patternVars
        /\ owned' = (IF full' = full THEN owned \cup {f} ELSE owned)
        /\ UNCHANGED <<history, oldHistory, historyShown>> /\ lost' = lost
    BY DEF ClickAdd, AddFavorite
  <1>2. ListOf(Favorites, old) /\ Elements(old) \subseteq Elements(favoritesShown)
    BY <1>1, ReadIsFavorites DEF ListsInv, FavoritesInv
  <1> HIDE DEF old
  <1>3. ListOf(Favorites, list) /\ Elements(list) = Elements(old) \cup {f}
    BY <1>1, <1>2, InFront DEF ListOf
  <1> HIDE DEF list
  <1>4. /\ Elements(list) = (Elements(old) \cup {f}) \ {}
        /\ owned' = (IF full' = full THEN owned \cup {f} ELSE owned) \ {}
        /\ lost' = lost \ {}
    BY <1>1, <1>3
  <1>5. full \in 0..MaxFull
    BY DEF ListsInv, RecentInv
  <1>6. FavoritesInv' /\ full' \in 0..MaxFull
    BY <1>1, <1>3, <1>4, <1>5, SaveFavoritesKeeps DEF ListsInv, old
  <1> QED
    BY <1>1, <1>6, PatternsUntouched, PatternsStay, HistoryUntouched DEF ListsInv, ListSteps

LEMMA RemoveFavoriteKeeps ==
  ASSUME ListsInv, NEW f \in Favorites, ClickRemove(f)
  PROVE  ListsInv' /\ ListSteps
  <1> DEFINE old == ReadList(favorites, NoItem)
             list == Except(old, f)
  <1>1. /\ "query" \in mounted
        /\ SaveFavorites(list) /\ mounted' = mounted /\ UNCHANGED patternVars
        /\ owned' = owned \ {f} /\ lost' = lost \ {f}
        /\ UNCHANGED <<history, oldHistory, historyShown>>
    BY DEF ClickRemove, RemoveFavorite
  <1>2. ListOf(Favorites, old)
    BY ReadIsFavorites DEF ListsInv
  <1> HIDE DEF old
  <1>3. ListOf(Favorites, list) /\ Elements(list) = Elements(old) \ {f}
    BY <1>2, ExceptFacts
  <1> HIDE DEF list
  <1>4. /\ Elements(list) = (Elements(old) \cup {}) \ {f}
        /\ owned' = (IF full' = full THEN owned \cup {} ELSE owned) \ {f}
    BY <1>1, <1>3
  <1>5. full \in 0..MaxFull
    BY DEF ListsInv, RecentInv
  <1>6. FavoritesInv' /\ full' \in 0..MaxFull
    BY <1>1, <1>3, <1>4, <1>5, SaveFavoritesKeeps DEF ListsInv, old
  <1> QED
    BY <1>1, <1>6, PatternsUntouched, PatternsStay, HistoryUntouched DEF ListsInv, ListSteps

LEMMA ListsKeep ==
  ASSUME ListsInv, ListsNext
  PROVE  ListsInv' /\ ListSteps
  BY MountKeysTabKeeps, MountQueryTabKeeps, ReloadKeeps, KeysTabKeeps, OpenHistoryKeeps,
     OpenFavoritesKeeps, QueryRanKeeps, AddKeeps, RemoveFavoriteKeeps DEF ListsNext

(***************************************************************************)
(* The token.                                                              *)
(***************************************************************************)
TokenStep ==
  \A w \in Windows : header'[w] \notin {header[w], Unsent} =>
    header'[w] = lastToken \/ (header'[w] = NoItem /\ full' # full)

LEMMA GetTokenFacts ==
  ASSUME TokenInv, full \in 0..MaxFull, NEW v, GetToken(v)
  PROVE  /\ token' \in Tokens \cup {NoItem} /\ oldToken' \in Tokens \cup {NoItem}
         /\ ReadToken' = ReadToken
         /\ full' \in 0..MaxFull
         /\ v = ReadToken \/ (v = NoItem /\ full' # full)
  BY MaxFullAssumption DEF TokenInv, GetToken, Moves, ReadToken, Throw

LEMMA TokenKeeps ==
  ASSUME TokenInv, full \in 0..MaxFull, TokenNext
  PROVE  TokenInv' /\ TokenStep /\ full' \in 0..MaxFull
  <1> PICK w \in Windows : \/ OpenApp(w) \/ ClickClear(w) \/ SendWithToken(w)
                           \/ \E t \in Tokens : ClickSave(w, t)
    BY DEF TokenNext
  <1>1. CASE OpenApp(w)
    <2>1. PICK v \in Tokens \cup {NoItem} : GetToken(v)
      BY <1>1 DEF OpenApp
    <2>2. header' = [header EXCEPT ![w] = Unsent] /\ lastToken' = lastToken
      BY <1>1 DEF OpenApp
    <2>3. header' = [u \in Windows |-> header'[u]] /\ header'[w] = Unsent
          /\ \A u \in Windows \ {w} : header'[u] = header[u]
      BY <2>2 DEF TokenInv
    <2> QED
      BY <2>1, <2>2, <2>3, GetTokenFacts DEF TokenInv, TokenStep
  <1>2. CASE ClickClear(w)
    BY <1>2 DEF ClickClear, ClearToken, TokenInv, TokenStep, ReadToken
  <1>3. CASE SendWithToken(w)
    <2>1. PICK v \in Tokens \cup {NoItem} : GetToken(v) /\ header' = [header EXCEPT ![w] = v]
      BY <1>3 DEF SendWithToken
    <2>2. lastToken' = lastToken /\ lastToken = ReadToken
      BY <1>3 DEF SendWithToken, TokenInv
    <2>3. header' = [u \in Windows |-> header'[u]] /\ header'[w] = v
          /\ \A u \in Windows \ {w} : header'[u] = header[u]
      BY <2>1 DEF TokenInv
    <2> QED
      BY <2>1, <2>2, <2>3, GetTokenFacts DEF TokenInv, TokenStep
  <1>4. CASE \E t \in Tokens : ClickSave(w, t)
    BY <1>4, TokensAssumption, MaxFullAssumption
       DEF ClickSave, Throw, TokenInv, TokenStep, ReadToken
  <1> QED
    BY <1>1, <1>2, <1>3, <1>4

(***************************************************************************)
(* The invariant holds, and no step does what the properties forbid.       *)
(***************************************************************************)
LEMMA InitBrowser == Init => BrowserInv
  <1> SUFFICES ASSUME Init
               PROVE  BrowserInv
    OBVIOUS
  <1>1. /\ full = 0 /\ stored = NoItem /\ shown = <<>> /\ history = NoItem /\ favorites = NoItem
        /\ historyShown = <<>> /\ favoritesShown = <<>> /\ mounted = {}
        /\ owned = Elements(ReadList(NoItem, oldFavorites)) /\ lost = {}
        /\ legacy \in SavedOnce([pattern : Patterns, pinned : {"yes"}])
        /\ oldHistory \in SavedOnce(Queries) /\ oldFavorites \in SavedOnce(Favorites)
    <2>1. owned = {oldFavorites[i] : i \in DOMAIN ReadList(NoItem, oldFavorites)}
      BY DEF Init, ListsInit
    <2>2. CASE oldFavorites = NoItem
      <3>1. ReadList(NoItem, oldFavorites) = <<>>
        BY <2>2 DEF ReadList
      <3>2. owned = {}
        BY <2>1, <3>1
      <3> QED
        BY <3>1, <3>2, ShortLists DEF Init, ListsInit
    <2>3. CASE oldFavorites # NoItem
      BY <2>1, <2>3 DEF Init, ListsInit, Elements, ReadList
    <2> QED
      BY <2>2, <2>3
  <1>2. RecentInv
    <2>1. ASSUME legacy # NoItem
          PROVE  RecentList(legacy) /\ Len(legacy) <= MaxItems
      <3>1. PICK x \in [pattern : Patterns, pinned : {"yes"}] : legacy = <<x>>
        BY <1>1, <2>1 DEF SavedOnce
      <3>2. x \in Items
        BY DEF Items
      <3>3. <<x>> \in Seq(Items) /\ Len(<<x>>) = 1 /\ DOMAIN <<x>> = 1..1
        BY <3>2
      <3>4. \A i, j \in 1..1 : i = j
        OBVIOUS
      <3> QED
        BY <3>1, <3>3, <3>4, MaxItemsAssumption DEF RecentList, OnePerPattern
    <2>2. Len(<<>>) <= MaxItems + 1 /\ 0 \in 0..MaxFull
      BY EmptyList, MaxItemsAssumption, MaxFullAssumption
    <2> QED
      BY <1>1, <2>1, <2>2, EmptyList DEF RecentInv
  <1>3. HistoryInv
    <2>1. oldHistory # NoItem => ListOf(Queries, oldHistory) /\ Len(oldHistory) <= MaxHistory
      <3>1. 1 <= MaxHistory
        BY MaxHistoryAssumption
      <3>2. \A x \in Queries : ListOf(Queries, <<x>>) /\ Len(<<x>>) = 1
        BY ShortLists
      <3>3. oldHistory # NoItem => \E x \in Queries : oldHistory = <<x>>
        BY <1>1 DEF SavedOnce
      <3> QED
        BY <3>1, <3>2, <3>3
    <2> QED
      BY <1>1, <2>1, ShortLists DEF HistoryInv
  <1>4. FavoritesInv
    <2>1. oldFavorites # NoItem => ListOf(Favorites, oldFavorites)
      BY <1>1, ShortLists DEF SavedOnce
    <2> QED
      BY <1>1, <2>1, ShortLists DEF FavoritesInv, FavoritesKept
  <1>5. TokenInv
    BY DEF Init, TokenInit, TokenInv
  <1> QED
    BY <1>2, <1>3, <1>4, <1>5 DEF BrowserInv

LEMMA NextBrowser ==
  ASSUME BrowserInv, [Next]_vars
  PROVE  BrowserInv' /\ ListSteps /\ TokenStep
  <1>1. CASE ListsNext /\ UNCHANGED tokenVars
    <2>1. ListsInv' /\ ListSteps
      BY <1>1, ListsKeep DEF BrowserInv, ListsInv
    <2>2. TokenInv' /\ TokenStep
      BY <1>1 DEF BrowserInv, TokenInv, TokenStep, tokenVars, ReadToken
    <2> QED
      BY <2>1, <2>2 DEF BrowserInv, ListsInv
  <1>2. CASE TokenNext /\ UNCHANGED listVars
    <2>1. full \in 0..MaxFull
      BY DEF BrowserInv, RecentInv
    <2>2. TokenInv' /\ TokenStep /\ full' \in 0..MaxFull
      BY <1>2, <2>1, TokenKeeps DEF BrowserInv
    <2>3. /\ UNCHANGED patternVars /\ mounted' = mounted
          /\ UNCHANGED <<history, oldHistory, historyShown>>
          /\ UNCHANGED <<favorites, oldFavorites, favoritesShown, owned, lost>>
      BY <1>2 DEF listVars, queryVars, queryItems, queryViews
    <2> QED
      BY <2>2, <2>3, PatternsUntouched, PatternsStay, HistoryUntouched, FavoritesUntouched
         DEF BrowserInv, ListSteps
  <1>3. CASE UNCHANGED vars
    <2>1. /\ UNCHANGED patternVars /\ mounted' = mounted /\ full' = full /\ UNCHANGED tokenVars
          /\ UNCHANGED <<history, oldHistory, historyShown>>
          /\ UNCHANGED <<favorites, oldFavorites, favoritesShown, owned, lost>>
      BY <1>3 DEF vars, listVars, queryVars, queryItems, queryViews
    <2>2. TokenInv' /\ TokenStep
      BY <2>1 DEF BrowserInv, TokenInv, TokenStep, tokenVars, ReadToken
    <2>3. full' \in 0..MaxFull
      BY <2>1 DEF BrowserInv, RecentInv
    <2> QED
      BY <2>1, <2>2, <2>3, PatternsUntouched, PatternsStay, HistoryUntouched, FavoritesUntouched
         DEF BrowserInv, ListSteps
  <1> QED
    BY <1>1, <1>2, <1>3 DEF Next

LEMMA BrowserInvariant == Spec => []BrowserInv
  BY InitBrowser, NextBrowser, PTL DEF Spec

(***************************************************************************)
(* No list, in the storage or on the screen, holds anything twice.         *)
(***************************************************************************)
THEOREM ListsHoldNothingTwice == Spec => []NothingTwice
  <1>1. ASSUME BrowserInv
        PROVE  NothingTwice
    <2>1. \A l \in {shown, Recent} : Cardinality(PatternsOf(l)) = Len(l)
      BY <1>1, ListReadFacts, CountPatterns DEF BrowserInv, RecentInv, RecentList
    <2>2. /\ ListOf(Queries, historyShown) /\ ListOf(Queries, ReadList(history, NoItem))
          /\ ListOf(Favorites, favoritesShown) /\ ListOf(Favorites, ReadList(favorites, NoItem))
      BY <1>1, ReadIsList, ReadIsFavorites DEF BrowserInv, HistoryInv, FavoritesInv
    <2>3. \A l \in {historyShown, ReadList(history, NoItem), favoritesShown,
                    ReadList(favorites, NoItem)} : Cardinality(Elements(l)) = Len(l)
      BY <2>2, CountElements DEF ListOf
    <2> QED
      BY <2>1, <2>3 DEF NothingTwice
  <1> QED
    BY <1>1, BrowserInvariant, PTL

(***************************************************************************)
(* A favorite the user saved and did not remove can be read back, whatever *)
(* reloads and failed saves there are, with the one exception of those     *)
(* under the old key when the save that moves them threw (it drops them);  *)
(* what is saved after that is kept (queryFavorites.ts:39-47, 70-77).      *)
(***************************************************************************)
THEOREM FavoritesAreKept == Spec => []FavoritesKept
  <1>1. BrowserInv => FavoritesKept
    BY DEF BrowserInv, FavoritesInv
  <1> QED
    BY <1>1, BrowserInvariant, PTL

(***************************************************************************)
(* A pinned pattern is dropped by a push only when all are pinned.         *)
(***************************************************************************)
THEOREM PinnedPatternsSurvive == Spec => PinnedSurvives
  <1>1. BrowserInv /\ [Next]_vars =>
          [\A p \in PinnedIn(Recent) \ PatternsOf(Recent') :
             \/ Len(Recent') < Len(Recent)
             \/ PinnedIn(Recent) = PatternsOf(Recent)]_vars
    BY NextBrowser DEF ListSteps, PinnedStep
  <1> QED
    BY <1>1, BrowserInvariant, PTL DEF Spec, PinnedSurvives

(***************************************************************************)
(* The history drops its last query and no other, and only when it is full. *)
(***************************************************************************)
THEOREM OldestIsForgotten == Spec => HistoryForgetsOldest
  <1>1. BrowserInv /\ [Next]_vars =>
          [LET old == ReadList(history, oldHistory)
               new == ReadList(history', oldHistory')
           IN  full' = full /\ historyShown' \notin {historyShown, <<>>} =>
                 /\ new[1] = historyShown'[1]
                 /\ \A q \in Elements(old) \ Elements(new) :
                      q = old[Len(old)] /\ Len(new) = MaxHistory]_vars
    BY NextBrowser DEF ListSteps, HistoryStep
  <1> QED
    BY <1>1, BrowserInvariant, PTL DEF Spec, HistoryForgetsOldest

(***************************************************************************)
(* A request carries the last token saved in any window, or none when the  *)
(* move from the old key throws.                                           *)
(***************************************************************************)
THEOREM TokenIsTheLast == Spec => LastTokenIsSent
  <1>1. BrowserInv /\ [Next]_vars =>
          [\A w \in Windows : header'[w] \notin {header[w], Unsent} =>
             header'[w] = lastToken \/ (header'[w] = NoItem /\ full' # full)]_<<tokenVars, full>>
    BY NextBrowser DEF TokenStep
  <1> QED
    BY <1>1, BrowserInvariant, PTL DEF Spec, LastTokenIsSent
==============================================================================
