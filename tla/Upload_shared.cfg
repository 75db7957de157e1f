\* Two uploads of one file that share its temporary file, with the failures that a
\* handler does not notice and those it cannot answer.
CONSTANTS
  r1 = r1  r2 = r2  r3 = r3
  a = a  b = b  c = c
  p1 = p1  p2 = p2
  Requests = {r1, r2}
  Units = {a, b, c}
  Hole = Hole
  NoFile = NoFile
  Body <- SharedBody
  TmpName <- SharedTmp
  ChunkSize = 2
  Faults = {"unlink", "silent_disk", "net", "body", "cancel", "late", "crash"}
SPECIFICATION FairSpec
INVARIANTS ManifestClosed TmpOwned
PROPERTIES AnsweredAfterBody
CHECK_DEADLOCK FALSE
