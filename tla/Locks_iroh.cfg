\* The lists of the iroh transport.
CONSTANTS
  ann1 = ann1  ann2 = ann2  ben1 = ben1  ben2 = ben2  cat = cat
  ann = ann  ben = ben  p = p  q = q  shared = shared  other = other
  Clients = {ann1, ann2, ben1, ben2, cat}
  Paths = {p, q}
  Users = {ann, ben}
  Repos = {shared, other}
  Clones <- IrohClones
  Admins = {ben}
  Texts <- MCTexts
  MaxLocks = 3
SPECIFICATION Spec
INVARIANT ListHonoursPath
CHECK_DEADLOCK FALSE
