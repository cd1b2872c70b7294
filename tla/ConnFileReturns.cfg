SPECIFICATION FairSpec
CONSTANTS
  t1 = t1
  t2 = t2
  t3 = t3
  sA = sA
  sB = sB
  Threads = {t1, t2}
  Servers = {sA}
  ServerOf <- MCOneServer
  EmptyList = empty
  Lists = {empty, listA}
  Missing = missing
  Blank = blank
  Torn = torn
  InitFiles = {missing, torn}
  NoThread = noThread
  Pending = pending
  Ok = ok
  Err = err
  MaxFaults = 2
PROPERTIES
  EveryCallReturns
