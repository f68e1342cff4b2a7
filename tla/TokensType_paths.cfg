SPECIFICATION Spec
CONSTANTS
  Columns = {c1, c2}
  Vocabularies = {1, 2, 3}
  Size <- MCSize
  Compression <- MCCompression
  Max8 = 1
  Max16 = 3
  Max24 = 7
  MaxI32 = 15
  MaxU32 = 31
  Texts <- MCTexts
  Arrays <- MCArrays
  ClientValues <- MCClientValues
  Corpora <- MCCorpora
  Caps <- MCCaps
  Bare = Bare
  Nothing = Nothing
SYMMETRY Symmetry
INVARIANTS TypeOK ColumnUniform Lossless VocabularyKept CheckedDumpRestores UnresolvedRepairable EqualityIsById
