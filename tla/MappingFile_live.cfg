SPECIFICATION FairSpec
CONSTANTS
  Backends = {b1, b2}
  Dirs = {d1, d2}
  NoDir = NoDir
  Ids = {1}
  Mappings = {m1}
  Short = Short
  Absent = Absent
  Stamps = {1}
  MaxMoves = 1
  MaxFaults = 1
  MaxLosses = 1
PROPERTY EventuallyLoaded
