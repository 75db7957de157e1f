\* Two objects, two attempts at each, one change of a file at any moment.
CONSTANTS
  b1 = b1  b2 = b2  o1 = o1 o2 = o2
  None = None  Refused = Refused  Absent = Absent  Unreadable = Unreadable  Batch = Batch
  Numbers = {"0", "8"}
  Endpoints = {"e1"}
  SecretKeys = {"nsec", "zero"}
  Signers = {"nsec"}
  IrohBuilt = TRUE
  Objects = {o1, o2}
  Values <- MCValues
  Contents <- MCContents
  Envs <- MCEnvs
  StoreOf <- MCStoreOf
  Faults = {"net", "race"}
  MaxTries = 2
  MaxEdits = 1
SYMMETRY MCSymmetry
SPECIFICATION Spec
INVARIANTS TypeOK MergeIsDocumented ForcedTogether PushedMeansPullable PushedForEverybody
CHECK_DEADLOCK FALSE
