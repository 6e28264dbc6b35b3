SPECIFICATION FairSpec
CONSTANTS
  Apps = {a1, a2}
  Plates = {p1, p2}
  Receipts = {r1}
  NoPlate = NoPlate
  NoReceipt = NoReceipt
  Nobody = Nobody
  Handlers = {h1, h2}
  Jobs <- Desk
  MayDie = FALSE
PROPERTIES PassKept DecisionFinal RegisterSpec OverdueReleased
