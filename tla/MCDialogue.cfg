\* Every text, two products.
CONSTANTS
  Products = {p1, p2}
  NoProduct = NoProduct
  MaxErrors = 3
  AnalyticsEnabled = TRUE
  Typed = {"cancel", "add product", "record sale", "check stock", "daily report",
           "yes", "no", "sugar", "nan", "0", "1", "2"}
  Quantities = {1}
  Thresholds = {1}
  DefaultThreshold = 0
  MaxStock = 2
  MaxReceived = 2
SPECIFICATION Spec
SYMMETRY Symmetry
INVARIANT SessionWellFormed
PROPERTIES SaleIsPrompted
