\* Two workers that may crash serve one merchant.
CONSTANTS
  Products = {p1}
  NoProduct = NoProduct
  MaxErrors = 2
  AnalyticsEnabled = FALSE
  Workers = {w1, w2}
  NoOutcome = NoOutcome
  Missing = Missing
  Typed = {"cancel", "record sale", "1", "2"}
  Quantities = {1}
  Thresholds = {}
  DefaultThreshold = 0
  MaxStock = 2
  MaxReceived = 0
  Crashes = TRUE
SPECIFICATION Spec
SYMMETRY Symmetry
INVARIANTS SessionWellFormed ToldIsSold
PROPERTIES TransitionLegal SaleWasPrompted
