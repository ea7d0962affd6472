\* A sale answered with 201 is in the ledger.
CONSTANTS
  Requests = {r1, r2}
  Products = {p1}
  Quantities = {1, 2}
  Thresholds = {0, 1}
  DefaultThreshold = 1
  MaxStock = 3
  NoOne = NoOne
SPECIFICATION Spec
INVARIANT CreatedMeansSold
