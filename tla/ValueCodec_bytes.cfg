SPECIFICATION Spec
CONSTANTS
  MaxU32 = 65535
  Quad = 2
  Table <- MCTable
  Lists <- MCLists
  Vocabs = {0, 1}
  Counts = {0, 1, 2, 3, 4}
  Noise = {0, 1, 15}
  None = None
INVARIANTS TypeOK RoundTrip Canonical LengthGuarded ClientFollows CountHonest
