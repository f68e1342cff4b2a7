SPECIFICATION Spec
CONSTANTS
  Databases = {d1, d2}
  Ids = {1, 2}
  Names = {v, w}
  Declared <- MCDeclared
  Corpora <- MCCorpora
  Mappings <- MCMappings
  Lists <- MCLists
  Max8 = 1
  Max16 = 3
  Max24 = 7
  MaxI32 = 7
  MaxU32 = 15
  Nothing = Nothing
SYMMETRY Symmetry
INVARIANTS TypeOK TypmodsNameRows DigestsSuffice SafeKeepsIds SecondRestoreWorks
