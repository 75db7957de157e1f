\* Two uploads and a retry, never two at a time on one temporary file; everything
\* may fail except that no file error is dropped.
CONSTANTS
  r1 = r1  r2 = r2  r3 = r3
  a = a  b = b  c = c
  p1 = p1  p2 = p2
  Requests = {r1, r2, r3}
  Units = {a, b, c}
  Hole = Hole
  NoFile = NoFile
  Body <- RetryBody
  TmpName <- RetryTmp
  ChunkSize = 2
  Faults = {"disk", "unlink", "net", "body", "cancel", "crash"}
SPECIFICATION ExclusiveSpec
INVARIANTS TypeOK OkImpliesStored ManifestReassembles
PROPERTIES ImplementsObjectStore
CHECK_DEADLOCK FALSE
