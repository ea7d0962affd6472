\* One worker, every text: the atomic dialogue.
CONSTANTS
  Products = {p1}
  NoProduct = NoProduct
  MaxErrors = 2
  AnalyticsEnabled = TRUE
  Workers = {w1}
  NoOutcome = NoOutcome
  Missing = Missing
  Typed = {"cancel", "add product", "record sale", "check stock", "daily report",
           "nan", "0", "1", "2"}
  Quantities = {1}
  Thresholds = {1}
  DefaultThreshold = 0
  MaxStock = 2
  MaxReceived = 1
  Crashes = FALSE
SPECIFICATION Spec
INVARIANTS TypeOK StrikesCounted
PROPERTIES ImplementsDialogue SoldOnce
