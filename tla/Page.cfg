SPECIFICATION MCPageSpec
CONSTANTS
  MysqlConns = {m1}
  RedisConns = {r1}
  Dbs = {d1}
  Tables = {t1}
  Keys = {k1}
  MaxTabs = 4
  MaxQueries = 1
  ConnIds = {c1, c2}
  NoConn = noConn
  MaxVersion = 2
  MaxCalls = 2
  Patterns = {pa, pb, pc}
  MaxItems = 2
  Queries = {qa, qb, qc}
  MaxHistory = 2
  Favorites = {fa, fb}
  NoItem = noItem
  MaxFull = 1
  Windows = {w1, w2}
  Tokens = {ta, tb}
  Unsent = unsent
INVARIANTS
  WorkspaceTypeOK
  TabsWellFormed
  WantedInFront
  TabsAreInTheTree
  ListIsCurrent
  EditsWhatIsShown
  SpinnersHaveCalls
  NothingTwice
  FavoritesKept
PROPERTIES
  CloseGoesLeft
  PinnedSurvives
  HistoryForgetsOldest
  LastTokenIsSent
