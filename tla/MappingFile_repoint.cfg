SPECIFICATION Spec
CONSTANTS
  Backends = {b1, b2}
  Dirs = {d1, d2}
  NoDir = NoDir
  Ids = {1}
  Mappings = {m1, m2}
  Short = Short
  Absent = Absent
  Stamps = {1}
  MaxMoves = 1
  MaxFaults = 0
  MaxLosses = 0
INVARIANT SessionsAgree
