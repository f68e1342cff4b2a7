SPECIFICATION Spec
CONSTANTS
  b1 = b1
  b2 = b2
  db1 = db1
  db2 = db2
  map = map
  rank = rank
  Backends = {b1, b2}
  Creators = {b1, b2}
  Dirs = {d1}
  NoDir = NoDir
  Ids = {1, 2}
  Names = {u, v}
  Kinds = {map}
  MaxCreates = 2
  MaxUndos = 1
  MaxRemovals = 0
  MaxMoves = 0
  Databases = {db1}
  DbOf <- OneDatabase
  Absent = Absent
INVARIANT AnswersAreOwn
