\* Trees over up to six hashes, every leaf and every claim.
CONSTANTS
  x = x  y = y  bad = bad  worse = worse  long = long
  MaxLeaves = 6
  Hashes = {x, y, bad, worse, long}
  Blocks = {x, y}
  Bytes <- MCBytes
  Lists <- MCLists
SPECIFICATION Spec
INVARIANTS TypeOK SiblingInBounds RootIsReference AcceptsItsLeaf RootBindsPairs RootBindsChunks
CHECK_DEADLOCK FALSE
