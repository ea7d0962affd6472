\* Three overlapping requests on one product, and what a fair server owes them.
CONSTANTS
  Requests = {r1, r2, r3}
  Products = {p1}
  Quantities = {1, 2}
  Thresholds = {0, 1}
  DefaultThreshold = 1
  MaxStock = 2
  NoOne = NoOne
SPECIFICATION FairSpec
INVARIANTS TypeOK Conservation ReferentialIntegrity SalesAnswered
PROPERTIES ImplementsLedger SaleFacts EveryRequestEnds
