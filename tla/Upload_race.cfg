\* Two uploads of one unchunked file at the same time; nothing fails.
CONSTANTS
  r1 = r1  r2 = r2  r3 = r3
  a = a  b = b  c = c
  p1 = p1  p2 = p2
  Requests = {r1, r2}
  Units = {a, b, c}
  Hole = Hole
  NoFile = NoFile
  Body <- SmallBody
  TmpName <- SharedTmp
  ChunkSize = 2
  Faults = {}
SPECIFICATION Spec
INVARIANTS SameBlobOutcome
CHECK_DEADLOCK FALSE
