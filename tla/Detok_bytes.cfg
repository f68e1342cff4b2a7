SPECIFICATION Spec
CONSTANTS
  VocabSize = 3
  Entries <- MCEntries
  Absent = Absent
  MaxU32 = 4
  Corpora <- MCCorpora
  Caps = {0, 2, 4}
  MaxRows = 3
  MaxDoc = 3
INVARIANTS TypeOK ArtefactIsKept NeverOutOfRange WholeCharacters ChunkBoundaries RankingAgrees
