SPECIFICATION Spec
CONSTANTS
  Backends = {b1, b2}
  Trainers = {b1, b2}
  Dirs = {d1, d2}
  NoDir = NoDir
  Ids = {1}
  ra = ra
  rb = rb
  rc = rc
  Rankings <- MCRankings
  Size <- MCSize
  Absent = Absent
  Empty = Empty
  Partial = Partial
  Torn = Torn
  MaxMoves = 1
  MaxFaults = 1
  MaxLosses = 1
INVARIANTS TypeOK RankingStays NoReaderDies
PROPERTY FileIsFinal
