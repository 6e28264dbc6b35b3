SPECIFICATION ChangesSpec
CONSTANTS
  Apps = {a1, a2}
  Plates = {p1, p2, p3}
  Receipts = {r1}
  NoPlate = NoPlate
  NoReceipt = NoReceipt
  Nobody = Nobody
  Handlers = {h1}
  Owners = {o1}
  Officers = {c1, c2}
  MaxAsks = 2
  Jobs <- Deciders
  MayDie = TRUE
SYMMETRY SymmetricSets
PROPERTY SwapKept
