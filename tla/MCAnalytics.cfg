\* Questions, numbers and the override; one tool of each sort.
CONSTANTS
  Products = {p1, p2}
  NoProduct = NoProduct
  MaxErrors = 2
  AnalyticsEnabled = TRUE
  Tools = {"get_product_price", "get_sales_summary", "get_low_stock_items"}
  Resolving = {"get_product_price"}
  Dated = {"get_sales_summary"}
  OtherTool = "get_weather"
  NoTool = "no tool"
  Typed = {"cancel", "sugar", "1", "2"}
SPECIFICATION FairSpec
INVARIANTS TypeOK BoundedExposure ContextIsExecuted
PROPERTIES FailureKeepsContext HandledAsFSM EveryTextEnds
