\* Two workers answer one prompt.
CONSTANTS
  Products = {p1}
  NoProduct = NoProduct
  MaxErrors = 3
  AnalyticsEnabled = FALSE
  Workers = {w1, w2}
  NoOutcome = NoOutcome
  Missing = Missing
  Typed = {"record sale", "1"}
  Quantities = {1}
  Thresholds = {}
  DefaultThreshold = 0
  MaxStock = 2
  MaxReceived = 0
  Crashes = FALSE
SPECIFICATION Spec
PROPERTY SoldOnce
