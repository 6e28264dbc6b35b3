SPECIFICATION Spec
CONSTANTS
  Apps = {a1, a2, a3}
  Plates = {p1, p2}
  Receipts = {r1, r2}
  NoPlate = NoPlate
  NoReceipt = NoReceipt
  Nobody = Nobody
  Handlers = {h1, h2, h3}
  Jobs <- Deciding
  MayDie = TRUE
SYMMETRY SymmetricSets
CONSTRAINT RejectsAlone
INVARIANTS ReceiptUsedOnce NeverHalfPaid NoUnpaidPass PaidNeverExpired
PROPERTIES PaymentKept
