SPECIFICATION Spec
CONSTANTS
  t1 = t1
  t2 = t2
  t3 = t3
  sA = sA
  sB = sB
  Threads = {t1, t2, t3}
  Servers = {sA, sB}
  ServerOf <- MCServerOf
  EmptyList = empty
  Lists = {empty, listA}
  Missing = missing
  Blank = blank
  Torn = torn
  InitFiles = {blank, torn}
  NoThread = noThread
  Pending = pending
  Ok = ok
  Err = err
  MaxFaults = 1
INVARIANTS
  TypeOK
  MutexHeldByOneCall
  TempGoneAfterSave
PROPERTIES
  FileIsWhole
  ImplementsRegister
SYMMETRY MCSymmetry
