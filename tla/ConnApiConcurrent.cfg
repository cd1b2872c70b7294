SPECIFICATION Spec
CONSTANTS
  r1 = r1
  r2 = r2
  i1 = i1
  i2 = i2
  p1 = p1
  p2 = p2
  a1 = a1
  n1 = n1
  Reqs = {r1, r2}
  Ids = {i1, i2}
  Names = {n1}
  Addrs = {a1}
  Passwords = {p1}
  Blank = blank
  NoConfig = noConfig
  Absent = absent
  CreateBodies <- MCCreateBodies
  UpdateBodies <- MCUpdateBodies
  MaxMutators = 2
INVARIANTS
  TypeOK
  UniqueIds
  TypeHasConfig
  PasswordProvenance
PROPERTIES
  ImplementsRegistry
SYMMETRY MCSymmetry
