SPECIFICATION WorkspaceSpec
CONSTANTS
  MysqlConns = {m1}
  RedisConns = {}
  Dbs = {d1}
  Tables = {t1}
  Keys = {}
  MaxTabs = 4
  MaxQueries = 1
INVARIANTS
  WantedIsShown
