SPECIFICATION MCSpec
CONSTANTS
  s1 = s1
  s2 = s2
  Reqs = {r1}
  Servers = {s1, s2}
  NoHost = noHost
  NoConfig = noConfig
  KeyTypes = {"hash", "stream"}
  MaxChanges = 2
INVARIANTS
  ClientsClosed
  AsksItsServer
  StatusExplained
PROPERTIES
  EveryRequestAnswered
CHECK_DEADLOCK FALSE
