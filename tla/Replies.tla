------------------------------- MODULE Replies ------------------------------
(***************************************************************************)
(* What the flows hand to localization.py and what its templates ask for:  *)
(* a result is a key of MessageKey and the parameters beside it, of which  *)
(* only the names are kept and whether they are numbers or text.  The      *)
(* English and the Swahili template of a key name the same parameters.     *)
(* No variables.                                                           *)
(***************************************************************************)
EXTENDS Integers

Result(key, numbers, texts) == [key |-> key, numbers |-> numbers, texts |-> texts]

Bare(keys) == {Result(k, {}, {}) : k \in keys}

-----------------------------------------------------------------------------
(* Templates.                                                              *)

(* The locales that the table admits and that have templates. *)
SupportedLocales == {"en", "sw"}

(* The templates of the flows: those without a parameter, and the others   *)
(* with their parameters.                                                  *)
FlowFixed ==
  {"FLOW_CANCELLED", "TOO_MANY_INVALID", "UNKNOWN_INTENT", "START_SALE", "START_STOCK_CHECK",
   "REPORT_GENERATING", "START_ADD_PRODUCT", "ASK_PRICE", "ASK_STOCK_QUANTITY",
   "PRODUCT_CANCELLED", "ASK_SALE_QUANTITY", "ASK_QUANTITY", "PRODUCT_NOT_FOUND",
   "SALE_CANCELLED", "STOCK_NOT_FOUND", "PRODUCT_NAME_INVALID", "PRICE_INVALID",
   "PRICE_NON_POSITIVE", "QUANTITY_INVALID", "QUANTITY_NEGATIVE", "CONFIRMATION_INVALID",
   "INVALID_CHOICE", "QUANTITY_TOO_LOW", "SESSION_CONTEXT_LOST", "SHOP_NOT_FOUND"}

FlowPlaceholders ==
  [CONFIRM_PRODUCT |-> {"product_name", "price", "quantity"},
   PRODUCT_ADDED |-> {"product_name", "price", "quantity"},
   PRODUCT_CHOICES |-> {"choices", "count"},
   CONFIRM_SALE |-> {"product_name", "quantity", "total"},
   SALE_RECORDED |-> {"product_name", "quantity", "remaining_stock"},
   STOCK_REMAINING |-> {"product_name", "quantity"},
   UNKNOWN_ERROR |-> {"message"},
   INSUFFICIENT_STOCK |-> {"available", "product_name"},
   LOW_STOCK_ALERT |-> {"remaining_stock", "product_name"}]

(* The same for analytics. *)
AnalyticsFixed ==
  {"ANALYTICS_LOW_STOCK_ITEMS_EMPTY", "ANALYTICS_INVALID_PROPOSAL",
   "ANALYTICS_PROVIDER_UNAVAILABLE", "ANALYTICS_INFRASTRUCTURE_ERROR"}

AnalyticsPlaceholders ==
  [ANALYTICS_SALES_SUMMARY |-> {"period_name", "total_revenue", "transaction_count"},
   ANALYTICS_SALES_SUMMARY_EMPTY |-> {"period_name"},
   ANALYTICS_STOCK_LEVEL |-> {"product_name", "quantity", "price"},
   ANALYTICS_STOCK_LEVEL_LOW |-> {"product_name", "quantity", "price", "threshold"},
   ANALYTICS_TOP_PRODUCTS |-> {"period_name", "products_summary"},
   ANALYTICS_TOP_PRODUCTS_EMPTY |-> {"period_name"},
   ANALYTICS_LOW_STOCK_ITEMS |-> {"count", "items_summary"},
   ANALYTICS_SALES_TREND |->
     {"period_name", "comparison_period_name", "current_revenue", "previous_revenue",
      "revenue_change", "current_transactions", "previous_transactions", "transaction_change"},
   ANALYTICS_SALES_TREND_EMPTY |-> {"period_name"},
   ANALYTICS_SLOW_MOVING_ITEMS |-> {"period_name", "count", "items_summary"},
   ANALYTICS_SLOW_MOVING_ITEMS_EMPTY |-> {"period_name"},
   ANALYTICS_PRODUCT_PRICE |-> {"product_name", "price", "sku"},
   ANALYTICS_DOMAIN_ERROR |-> {"message"}]

(* The parameters that a template formats as .2f, which text cannot be. *)
Amounts(key) ==
  CASE key \in {"CONFIRM_PRODUCT", "PRODUCT_ADDED"} -> {"price"}
    [] key = "CONFIRM_SALE" -> {"total"}
    [] OTHER -> {}

(***************************************************************************)
(* render_message: a key without a template, a parameter that is missing   *)
(* and text where a number has to be raise; choices and count are made of  *)
(* the candidates, or of none.                                             *)
(***************************************************************************)
Renders(r) ==
  LET made  == IF r.key = "PRODUCT_CHOICES" THEN {"choices", "count"} ELSE {}
      given == r.numbers \union r.texts \union made
      Filled(templates) == r.key \in DOMAIN templates /\ templates[r.key] \subseteq given
  IN \/ r.key \in FlowFixed \union AnalyticsFixed
     \/ /\ Filled(FlowPlaceholders) \/ Filled(AnalyticsPlaceholders)
        /\ Amounts(r.key) \subseteq r.numbers

-----------------------------------------------------------------------------
(* Results of the engine and of its flows.                                 *)

(* An InvalidInputError has a key or not, and a message when it brings no  *)
(* parameters of its own.                                                  *)
Refusals ==
  LET keys == {"UNKNOWN_INTENT", "INVALID_CHOICE", "SESSION_CONTEXT_LOST", "QUANTITY_TOO_LOW",
               "PRODUCT_NAME_INVALID", "PRICE_INVALID", "PRICE_NON_POSITIVE",
               "QUANTITY_INVALID", "QUANTITY_NEGATIVE", "CONFIRMATION_INVALID",
               "UNKNOWN_ERROR"}
  IN {Result(k, {}, {"message"}) : k \in keys}
     \union {Result("INSUFFICIENT_STOCK", {"available"}, {"product_name"})}
     \union Bare({"TOO_MANY_INVALID"})

(* What the steps say that do without the shop. *)
EngineResults ==
  Bare({"FLOW_CANCELLED", "START_SALE", "START_STOCK_CHECK", "START_ADD_PRODUCT"})

ProductResult(key) == Result(key, {"price", "quantity"}, {"product_name"})

AddProductResults ==
  Bare({"ASK_PRICE", "ASK_STOCK_QUANTITY", "PRODUCT_CANCELLED"})
    \union {ProductResult("CONFIRM_PRODUCT")}

SaleResults ==
  Bare({"ASK_QUANTITY", "SALE_CANCELLED"})
    \union {Result("CONFIRM_SALE", {"quantity", "total"}, {"product_name"})}

\* Seeded fault: the reply to a sale leaves out what remains.
SaleRecordedShort == Result("SALE_RECORDED", {"quantity"}, {"product_name"})

SaleRecorded == Result("SALE_RECORDED", {"quantity", "remaining_stock"}, {"product_name"})

(* A parameter that is a list, which no template shows as it is. *)
Choices == Result("PRODUCT_CHOICES", {}, {"candidates"})

StockRemaining == Result("STOCK_REMAINING", {"quantity"}, {"product_name"})

SearchResults ==
  Bare({"ASK_SALE_QUANTITY", "PRODUCT_NOT_FOUND", "STOCK_NOT_FOUND"})
    \union {Choices, StockRemaining}

LowStockAlert == Result("LOW_STOCK_ALERT", {"remaining_stock"}, {"product_name"})

-----------------------------------------------------------------------------
(* AnalyticsFormatter.                                                     *)

(* _format_sales_summary and the others, for a tool that has answered. *)
FormatAnswer(tool, low) ==
  CASE tool = "get_sales_summary" ->
         Result("ANALYTICS_SALES_SUMMARY", {"transaction_count"}, {"period_name", "total_revenue"})
    [] tool = "get_stock_level" /\ low ->
         Result("ANALYTICS_STOCK_LEVEL_LOW", {"quantity", "threshold"}, {"product_name", "price"})
    [] tool = "get_stock_level" /\ ~ low ->
         Result("ANALYTICS_STOCK_LEVEL", {"quantity"}, {"product_name", "price"})
    [] tool = "get_top_products" ->
         Result("ANALYTICS_TOP_PRODUCTS", {}, {"period_name", "products_summary"})
    [] tool = "get_low_stock_items" ->
         Result("ANALYTICS_LOW_STOCK_ITEMS", {"count"}, {"items_summary"})
    [] tool = "get_sales_trend" ->
         Result("ANALYTICS_SALES_TREND", {"current_transactions", "previous_transactions"},
                {"period_name", "comparison_period_name", "current_revenue", "previous_revenue",
                 "revenue_change", "transaction_change"})
    [] tool = "get_slow_moving_items" ->
         Result("ANALYTICS_SLOW_MOVING_ITEMS", {"count"}, {"period_name", "items_summary"})
    [] tool = "get_product_price" ->
         Result("ANALYTICS_PRODUCT_PRICE", {}, {"product_name", "price", "sku"})
    [] OTHER -> Result("UNKNOWN_ERROR", {}, {"message"})

(* An answer in which is_result_empty finds nothing. *)
FormatEmpty(tool) ==
  CASE tool = "get_low_stock_items" -> Result("ANALYTICS_LOW_STOCK_ITEMS_EMPTY", {}, {})
    [] tool = "get_top_products" -> Result("ANALYTICS_TOP_PRODUCTS_EMPTY", {}, {"period_name"})
    [] tool = "get_sales_trend" -> Result("ANALYTICS_SALES_TREND_EMPTY", {}, {"period_name"})
    [] tool = "get_slow_moving_items" ->
         Result("ANALYTICS_SLOW_MOVING_ITEMS_EMPTY", {}, {"period_name"})
    [] OTHER -> Result("ANALYTICS_SALES_SUMMARY_EMPTY", {}, {"period_name"})

AnalyticsTools ==
  {"get_sales_summary", "get_stock_level", "get_top_products", "get_low_stock_items",
   "get_sales_trend", "get_slow_moving_items", "get_product_price"}

(* The tools for which is_result_empty can be true. *)
EmptyTools == AnalyticsTools \ {"get_stock_level", "get_product_price"}

(***************************************************************************)
(* format_outcome, for every outcome of the orchestrator but               *)
(* GUARDRAIL_REJECTED, which nothing makes and whose keys have no template.*)
(***************************************************************************)
AnalyticsResults ==
  {FormatAnswer(tool, low) : tool \in AnalyticsTools, low \in BOOLEAN}
    \union {FormatEmpty(tool) : tool \in EmptyTools}
    \union {Choices}
    \union {Result("ANALYTICS_INVALID_PROPOSAL", {}, {"message"}),
            Result("ANALYTICS_DOMAIN_ERROR", {}, {"message"})}
    \union Bare({"PRODUCT_NOT_FOUND", "ANALYTICS_PROVIDER_UNAVAILABLE",
                 "ANALYTICS_INFRASTRUCTURE_ERROR", "SESSION_CONTEXT_LOST"})
=============================================================================
