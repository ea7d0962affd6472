------------------------------ MODULE ShopsProofs -----------------------------
(***************************************************************************)
(* Proofs about Shops, for any phones, workers, requests and alerts: a     *)
(* phone has one shop, who loses the race for it has met another's, an     *)
(* alert finds it, a change that is answered took place, and every reply   *)
(* can be rendered.                                                        *)
(***************************************************************************)
EXTENDS Shops, TLAPS

HasShop(p) == \E s \in shops : s.phone = p

IsShop(p, id) == \E s \in shops : s.phone = p /\ s.id = id

(* Where the requests of each kind can be; a reply that cannot be rendered *)
(* and an alert without a shop are not among it.                           *)
MessagePlaces ==
  {"idle", "process", "find", "insert", "inserted", "locale", "save", "render", "raced"}
RestPlaces ==
  {"idle", "find", "insert", "inserted", "update", "updated", "refresh", "done", "conflict",
   "raced", "failed"}
AlertPlaces == {"idle", "queued", "render"}

InPlace ==
  /\ \A r \in Messages : at[r] \in MessagePlaces
  /\ \A r \in Rest : at[r] \in RestPlaces
  /\ \A r \in Alerts : at[r] \in AlertPlaces

OnePhone == \A s, t \in shops : s.phone = t.phone => s = t

(* Every id that is kept somewhere is the one of the phone's shop. *)
References ==
  /\ \A p \in Phones : remembered[p] # NoOne => IsShop(p, remembered[p])
  /\ \A r \in Requests :
       /\ known[r] # NoOne => IsShop(Phone[r], known[r])
       /\ answer[r] # NoRow => IsShop(Phone[r], answer[r].id)

(***************************************************************************)
(* The uncommitted INSERT of a phone has no row before it, and a request   *)
(* that is about to insert has made none.                                  *)
(***************************************************************************)
Inserting ==
  \A r \in Requests :
    /\ at[r] = "inserted" => ~ HasShop(Phone[r])
    /\ at[r] \in {"insert", "inserted"} \/ (r \in Rest /\ at[r] = "idle") => ~ IsShop(Phone[r], r)
    /\ at[r] = "queued" => HasShop(Phone[r])

Speaking ==
  \A r \in Messages :
    at[r] \in {"find", "insert", "inserted", "locale", "save", "render"} => says[r] # "none"

(* What a REST request has seen: the locale of now, the one that it loaded *)
(* before it decides on an UPDATE, the one that it asked for when it is    *)
(* about to answer, and the one that it answers with.                      *)
Witnessed ==
  \A r \in Rest :
    /\ Active(r) => LocaleOf(Phone[r]) \in seen[r]
    /\ at[r] = "update" => found[r] \in seen[r]
    /\ at[r] \in {"refresh", "done"} /\ asked[r].op = "change" => asked[r].locale \in seen[r]
    /\ answer[r] # NoRow => at[r] = "done" /\ answer[r].locale \in seen[r]

ShopsInv ==
  TypeOK /\ InPlace /\ OnePhone /\ References /\ Inserting /\ Speaking /\ Witnessed

-----------------------------------------------------------------------------
(* Every result has what its template asks for.                            *)

LEMMA BareRenders ==
  ASSUME NEW keys, keys \subseteq FlowFixed \union AnalyticsFixed, NEW x \in Bare(keys)
  PROVE  Renders(x)
BY DEF Bare, Result, Renders

LEMMA EngineRenders ==
  ASSUME NEW x \in EngineResults PROVE Renders(x)
BY BareRenders DEF EngineResults, FlowFixed

LEMMA RefusalRenders ==
  ASSUME NEW x \in Refusals PROVE Renders(x)
<1>1. CASE x.key \in FlowFixed
  BY <1>1 DEF Renders
<1>2. CASE x = Result("UNKNOWN_ERROR", {}, {"message"})
  BY <1>2 DEF Renders, Result, FlowPlaceholders, Amounts
<1>3. CASE x = Result("INSUFFICIENT_STOCK", {"available"}, {"product_name"})
  BY <1>3 DEF Renders, Result, FlowPlaceholders, Amounts
<1> QED BY <1>1, <1>2, <1>3 DEF Refusals, Bare, Result, FlowFixed

LEMMA ProductResultRenders ==
  ASSUME NEW key \in {"CONFIRM_PRODUCT", "PRODUCT_ADDED"}
  PROVE  Renders(ProductResult(key))
BY DEF ProductResult, Result, Renders, FlowPlaceholders, Amounts

LEMMA AddProductRenders ==
  ASSUME NEW x \in AddProductResults PROVE Renders(x)
BY BareRenders, ProductResultRenders DEF AddProductResults, FlowFixed

LEMMA SaleRenders ==
  ASSUME NEW x \in SaleResults PROVE Renders(x)
<1>1. Renders(Result("CONFIRM_SALE", {"quantity", "total"}, {"product_name"}))
  BY DEF Result, Renders, FlowPlaceholders, Amounts
<1> QED BY <1>1, BareRenders DEF SaleResults, FlowFixed

LEMMA SaleRecordedRenders == Renders(SaleRecorded)
BY DEF SaleRecorded, Result, Renders, FlowPlaceholders, Amounts

LEMMA ChoicesRender == Renders(Choices)
BY DEF Choices, Result, Renders, FlowPlaceholders, Amounts

LEMMA SearchRenders ==
  ASSUME NEW x \in SearchResults PROVE Renders(x)
<1>1. Renders(StockRemaining)
  BY DEF StockRemaining, Result, Renders, FlowPlaceholders, Amounts
<1> QED BY <1>1, ChoicesRender, BareRenders DEF SearchResults, FlowFixed

LEMMA AlertRenders == Renders(LowStockAlert)
BY DEF LowStockAlert, Result, Renders, FlowPlaceholders, Amounts

LEMMA AnswerRenders ==
  ASSUME NEW tool \in AnalyticsTools, NEW low \in BOOLEAN
  PROVE  Renders(FormatAnswer(tool, low))
<1> USE DEF Result, Renders, FormatAnswer, AnalyticsPlaceholders, Amounts
<1>1. CASE tool = "get_sales_summary"
  BY <1>1
<1>2. CASE tool = "get_stock_level"
  BY <1>2
<1>3. CASE tool = "get_top_products"
  BY <1>3
<1>4. CASE tool = "get_low_stock_items"
  BY <1>4
<1>5. CASE tool = "get_sales_trend"
  BY <1>5
<1>6. CASE tool = "get_slow_moving_items"
  BY <1>6
<1>7. CASE tool = "get_product_price"
  BY <1>7
<1> QED BY <1>1, <1>2, <1>3, <1>4, <1>5, <1>6, <1>7 DEF AnalyticsTools

LEMMA EmptyRenders ==
  ASSUME NEW tool PROVE Renders(FormatEmpty(tool))
BY DEF Result, Renders, FormatEmpty, AnalyticsFixed, AnalyticsPlaceholders, Amounts

LEMMA AnalyticsRenders ==
  ASSUME NEW x \in AnalyticsResults PROVE Renders(x)
<1>1. Renders(Result("ANALYTICS_INVALID_PROPOSAL", {}, {"message"}))
  BY DEF Result, Renders, AnalyticsFixed
<1>2. Renders(Result("ANALYTICS_DOMAIN_ERROR", {}, {"message"}))
  BY DEF Result, Renders, AnalyticsPlaceholders, Amounts
<1>3. {"PRODUCT_NOT_FOUND", "ANALYTICS_PROVIDER_UNAVAILABLE",
       "ANALYTICS_INFRASTRUCTURE_ERROR", "SESSION_CONTEXT_LOST"}
        \subseteq FlowFixed \union AnalyticsFixed
  BY DEF FlowFixed, AnalyticsFixed
<1> QED BY <1>1, <1>2, <1>3, AnswerRenders, EmptyRenders, ChoicesRender, BareRenders
        DEF AnalyticsResults

LEMMA ResultsRender ==
  ASSUME NEW class \in Classes \ {"none"}, NEW x \in ResultsOf(class)
  PROVE  Renders(x)
<1>1. CASE class = "quiet"
  BY <1>1, EngineRenders, RefusalRenders, AddProductRenders, SaleRenders DEF ResultsOf
<1>2. CASE class = "lookup"
  BY <1>2, SearchRenders, AnalyticsRenders DEF ResultsOf
<1>3. CASE class = "once"
  BY <1>3, BareRenders, ProductResultRenders DEF ResultsOf, FlowFixed
<1>4. CASE class = "sale"
  BY <1>4, SaleRecordedRenders DEF ResultsOf
<1> QED BY <1>1, <1>2, <1>3, <1>4 DEF Classes

-----------------------------------------------------------------------------
(* The shop of a phone.                                                    *)

LEMMA TheShop ==
  ASSUME OnePhone, NEW p
  PROVE  /\ \A s \in shops : s.phone = p => ShopOf(p) = s
         /\ HasShop(p) => ShopOf(p) \in shops /\ ShopOf(p).phone = p
         /\ ~ HasShop(p) => ShopOf(p) = NoRow
         /\ HasShop(p) <=> RowsOf(p) # {}
<1>1. \A s \in shops : s.phone = p => s \in RowsOf(p)
  BY DEF RowsOf
<1>2. \A s \in RowsOf(p) : s \in shops /\ s.phone = p
  BY DEF RowsOf
<1>3. HasShop(p) <=> RowsOf(p) # {}
  BY <1>1, <1>2 DEF HasShop
<1>4. RowsOf(p) # {} => ShopOf(p) \in RowsOf(p)
  BY DEF ShopOf
<1>5. RowsOf(p) = {} => ShopOf(p) = NoRow
  BY DEF ShopOf
<1> QED BY <1>1, <1>2, <1>3, <1>4, <1>5 DEF OnePhone

LEMMA TheShopAfter ==
  ASSUME OnePhone', NEW p
  PROVE  /\ \A s \in shops' : s.phone = p => ShopOf(p)' = s
         /\ HasShop(p)' => ShopOf(p)' \in shops' /\ ShopOf(p)'.phone = p
         /\ ~ HasShop(p)' => ShopOf(p)' = NoRow
<1>1. \A s \in shops' : s.phone = p => s \in RowsOf(p)'
  BY DEF RowsOf
<1>2. \A s \in RowsOf(p)' : s \in shops' /\ s.phone = p
  BY DEF RowsOf
<1>3. HasShop(p)' <=> RowsOf(p)' # {}
  BY <1>1, <1>2 DEF HasShop
<1>4. RowsOf(p)' # {} => ShopOf(p)' \in RowsOf(p)'
  BY DEF ShopOf
<1>5. RowsOf(p)' = {} => ShopOf(p)' = NoRow
  BY DEF ShopOf
<1> QED BY <1>1, <1>2, <1>3, <1>4, <1>5 DEF OnePhone

LEMMA TheLocale ==
  ASSUME TypeOK, OnePhone, NEW p
  PROVE  LocaleOf(p) \in SupportedLocales
<1>1. NoRow.locale \in SupportedLocales
  BY DEF NoRow, SupportedLocales
<1>2. \A s \in shops : s.locale \in SupportedLocales
  BY DEF TypeOK, Rows
<1> QED BY <1>1, <1>2, TheShop DEF LocaleOf

LEMMA TheId ==
  ASSUME TypeOK, OnePhone, NEW p
  PROVE  /\ ShopOf(p).id \in Requests \union {NoOne}
         /\ ShopOf(p).id # NoOne => IsShop(p, ShopOf(p).id)
         /\ HasShop(p) => ShopOf(p).id # NoOne
         /\ \A id : IsShop(p, id) => ShopOf(p).id = id
<1>1. NoRow.id = NoOne
  BY DEF NoRow
<1>2. \A s \in shops : s.id \in Requests
  BY DEF TypeOK, Rows
<1>3. NoOne \notin Requests
  BY ShopsAssumption
<1> QED BY <1>1, <1>2, <1>3, TheShop DEF IsShop, HasShop

(* Steps that leave the table alone leave what is said of it. *)
LEMMA SameTable ==
  ASSUME shops' = shops
  PROVE  /\ \A p : HasShop(p)' <=> HasShop(p)
         /\ \A p, id : IsShop(p, id)' <=> IsShop(p, id)
         /\ \A p : ShopOf(p)' = ShopOf(p) /\ LocaleOf(p)' = LocaleOf(p)
         /\ OnePhone => OnePhone'
BY DEF HasShop, IsShop, ShopOf, LocaleOf, RowsOf, OnePhone

-----------------------------------------------------------------------------
LEMMA InitInv ==
  ASSUME Init PROVE ShopsInv
<1> USE DEF Init
<1>1. TypeOK
  BY ShopsAssumption DEF TypeOK, Rows, Asking, SupportedLocales, Places, Classes
<1>2. InPlace
  BY ShopsAssumption DEF InPlace, MessagePlaces, RestPlaces, AlertPlaces, Requests
<1>3. OnePhone /\ References
  BY DEF OnePhone, References
<1>4. Inserting /\ Speaking /\ Witnessed
  BY DEF Inserting, Speaking, Witnessed, IsShop, Active, Requests
<1> QED BY <1>1, <1>2, <1>3, <1>4 DEF ShopsInv

LEMMA BeginMessageInv ==
  ASSUME ShopsInv, NEW r \in Messages, BeginMessage(r) PROVE ShopsInv'
<1> USE ShopsAssumption DEF ShopsInv, BeginMessage, Goto, End, data, work, Requests
<1>0. shops' = shops /\ r \in Requests
  OBVIOUS
<1>1. TypeOK'
  BY <1>0, TheId, TheLocale, TheShop DEF TypeOK, Places, Ended, Classes, InPlace,
     MessagePlaces, RestPlaces, AlertPlaces, Asking, SupportedLocales
<1>2. InPlace'
  BY <1>0, ResultsRender, AlertRenders DEF TypeOK, InPlace, MessagePlaces, RestPlaces,
     AlertPlaces, Asking
<1>3. OnePhone' /\ References'
  BY <1>0, SameTable, TheId, TheShop DEF TypeOK, References
<1>4. Inserting'
  BY <1>0, SameTable, TheId, TheShop DEF TypeOK, Inserting, InPlace, MessagePlaces,
     RestPlaces, AlertPlaces
<1>5. Speaking'
  BY <1>0 DEF TypeOK, Speaking, InPlace, MessagePlaces, RestPlaces, AlertPlaces
<1>6. Witnessed'
  BY <1>0, SameTable, TheShop DEF TypeOK, Witnessed, Active, Ended, InPlace, RestPlaces,
     MessagePlaces, AlertPlaces
<1> QED BY <1>1, <1>2, <1>3, <1>4, <1>5, <1>6

LEMMA BeginRestInv ==
  ASSUME ShopsInv, NEW r \in Rest, BeginRest(r) PROVE ShopsInv'
<1> USE ShopsAssumption DEF ShopsInv, BeginRest, Goto, End, data, work, Requests
<1>0. shops' = shops /\ r \in Requests
  OBVIOUS
<1>1. TypeOK'
  BY <1>0, TheId, TheLocale, TheShop DEF TypeOK, Places, Ended, Classes, InPlace,
     MessagePlaces, RestPlaces, AlertPlaces, Asking, SupportedLocales
<1>2. InPlace'
  BY <1>0, ResultsRender, AlertRenders DEF TypeOK, InPlace, MessagePlaces, RestPlaces,
     AlertPlaces, Asking
<1>3. OnePhone' /\ References'
  BY <1>0, SameTable, TheId, TheShop DEF TypeOK, References
<1>4. Inserting'
  BY <1>0, SameTable, TheId, TheShop DEF TypeOK, Inserting, InPlace, MessagePlaces,
     RestPlaces, AlertPlaces
<1>5. Speaking'
  BY <1>0 DEF TypeOK, Speaking, InPlace, MessagePlaces, RestPlaces, AlertPlaces
<1>6. Witnessed'
  BY <1>0, SameTable, TheShop DEF TypeOK, Witnessed, Active, Ended, InPlace, RestPlaces,
     MessagePlaces, AlertPlaces
<1> QED BY <1>1, <1>2, <1>3, <1>4, <1>5, <1>6

LEMMA ProcessInv ==
  ASSUME ShopsInv, NEW r \in Messages, Process(r) PROVE ShopsInv'
<1> USE ShopsAssumption DEF ShopsInv, Process, Goto, End, data, work, Requests
<1>0. shops' = shops /\ r \in Requests
  OBVIOUS
<1>1. TypeOK'
  BY <1>0, TheId, TheLocale, TheShop DEF TypeOK, Places, Ended, Classes, InPlace,
     MessagePlaces, RestPlaces, AlertPlaces, Asking, SupportedLocales
<1>2. InPlace'
  BY <1>0, ResultsRender, AlertRenders DEF TypeOK, InPlace, MessagePlaces, RestPlaces,
     AlertPlaces, Asking
<1>3. OnePhone' /\ References'
  BY <1>0, SameTable, TheId, TheShop DEF TypeOK, References
<1>4. Inserting'
  BY <1>0, SameTable, TheId, TheShop DEF TypeOK, Inserting, InPlace, MessagePlaces,
     RestPlaces, AlertPlaces
<1>5. Speaking'
  BY <1>0 DEF TypeOK, Speaking, InPlace, MessagePlaces, RestPlaces, AlertPlaces
<1>6. Witnessed'
  BY <1>0, SameTable, TheShop DEF TypeOK, Witnessed, Active, Ended, InPlace, RestPlaces,
     MessagePlaces, AlertPlaces
<1> QED BY <1>1, <1>2, <1>3, <1>4, <1>5, <1>6

LEMMA ProcessSaleInv ==
  ASSUME ShopsInv, NEW r \in Messages, ProcessSale(r) PROVE ShopsInv'
<1> USE ShopsAssumption DEF ShopsInv, ProcessSale, Goto, End, data, work, Requests
<1>0. shops' = shops /\ r \in Requests
  OBVIOUS
<1>1. TypeOK'
  BY <1>0, TheId, TheLocale, TheShop DEF TypeOK, Places, Ended, Classes, InPlace,
     MessagePlaces, RestPlaces, AlertPlaces, Asking, SupportedLocales
<1>2. InPlace'
  BY <1>0, ResultsRender, AlertRenders DEF TypeOK, InPlace, MessagePlaces, RestPlaces,
     AlertPlaces, Asking
<1>3. OnePhone' /\ References'
  BY <1>0, SameTable, TheId, TheShop DEF TypeOK, References
<1>n. HasShop(Phone[r])
  BY <1>0 DEF References, IsShop, HasShop
<1>4. Inserting'
  BY <1>0, <1>n, SameTable DEF TypeOK, Inserting, InPlace, MessagePlaces, RestPlaces,
     AlertPlaces
<1>5. Speaking'
  BY <1>0 DEF TypeOK, Speaking, InPlace, MessagePlaces, RestPlaces, AlertPlaces
<1>6. Witnessed'
  BY <1>0, SameTable, TheShop DEF TypeOK, Witnessed, Active, Ended, InPlace, RestPlaces,
     MessagePlaces, AlertPlaces
<1> QED BY <1>1, <1>2, <1>3, <1>4, <1>5, <1>6

LEMMA FindForMessageInv ==
  ASSUME ShopsInv, NEW r \in Requests, FindForMessage(r) PROVE ShopsInv'
<1> USE ShopsAssumption DEF ShopsInv, FindForMessage, Goto, End, data, work, Requests
<1>0. shops' = shops /\ r \in Requests
  OBVIOUS
<1>1. TypeOK'
  BY <1>0, TheId, TheLocale, TheShop DEF TypeOK, Places, Ended, Classes, InPlace,
     MessagePlaces, RestPlaces, AlertPlaces, Asking, SupportedLocales
<1>2. InPlace'
  BY <1>0, ResultsRender, AlertRenders DEF TypeOK, InPlace, MessagePlaces, RestPlaces,
     AlertPlaces, Asking
<1>3. OnePhone' /\ References'
  BY <1>0, SameTable, TheId, TheShop DEF TypeOK, References
<1>n. RowsOf(Phone[r]) = {} => ~ IsShop(Phone[r], r)
  BY TheShop DEF HasShop, IsShop
<1>4. Inserting'
  BY <1>0, <1>n, SameTable DEF TypeOK, Inserting, InPlace, MessagePlaces, RestPlaces,
     AlertPlaces
<1>5. Speaking'
  BY <1>0 DEF TypeOK, Speaking, InPlace, MessagePlaces, RestPlaces, AlertPlaces
<1>6. Witnessed'
  BY <1>0, SameTable, TheShop DEF TypeOK, Witnessed, Active, Ended, InPlace, RestPlaces,
     MessagePlaces, AlertPlaces
<1> QED BY <1>1, <1>2, <1>3, <1>4, <1>5, <1>6

LEMMA InsertInv ==
  ASSUME ShopsInv, NEW r \in Messages \union Rest, Insert(r) PROVE ShopsInv'
<1> USE ShopsAssumption DEF ShopsInv, Insert, Goto, End, data, work, Requests
<1>0. shops' = shops /\ r \in Requests
  OBVIOUS
<1>1. TypeOK'
  BY <1>0, TheId, TheLocale, TheShop DEF TypeOK, Places, Ended, Classes, InPlace,
     MessagePlaces, RestPlaces, AlertPlaces, Asking, SupportedLocales
<1>2. InPlace'
  BY <1>0, ResultsRender, AlertRenders DEF TypeOK, InPlace, MessagePlaces, RestPlaces,
     AlertPlaces, Asking
<1>3. OnePhone' /\ References'
  BY <1>0, SameTable, TheId, TheShop DEF TypeOK, References
<1>4. Inserting'
  BY <1>0, SameTable, TheId, TheShop DEF TypeOK, Inserting, InPlace, MessagePlaces,
     RestPlaces, AlertPlaces
<1>5. Speaking'
  BY <1>0 DEF TypeOK, Speaking, InPlace, MessagePlaces, RestPlaces, AlertPlaces
<1>6. Witnessed'
  BY <1>0, SameTable, TheShop DEF TypeOK, Witnessed, Active, Ended, InPlace, RestPlaces,
     MessagePlaces, AlertPlaces
<1> QED BY <1>1, <1>2, <1>3, <1>4, <1>5, <1>6

LEMMA InsertFailsInv ==
  ASSUME ShopsInv, NEW r \in Messages \union Rest, InsertFails(r) PROVE ShopsInv'
<1> USE ShopsAssumption DEF ShopsInv, InsertFails, Goto, End, data, work, Requests
<1>0. shops' = shops /\ r \in Requests
  OBVIOUS
<1>1. TypeOK'
  BY <1>0, TheId, TheLocale, TheShop DEF TypeOK, Places, Ended, Classes, InPlace,
     MessagePlaces, RestPlaces, AlertPlaces, Asking, SupportedLocales
<1>2. InPlace'
  BY <1>0, ResultsRender, AlertRenders DEF TypeOK, InPlace, MessagePlaces, RestPlaces,
     AlertPlaces, Asking
<1>3. OnePhone' /\ References'
  BY <1>0, SameTable, TheId, TheShop DEF TypeOK, References
<1>4. Inserting'
  BY <1>0, SameTable, TheId, TheShop DEF TypeOK, Inserting, InPlace, MessagePlaces,
     RestPlaces, AlertPlaces
<1>5. Speaking'
  BY <1>0 DEF TypeOK, Speaking, InPlace, MessagePlaces, RestPlaces, AlertPlaces
<1>6. Witnessed'
  BY <1>0, SameTable, TheShop DEF TypeOK, Witnessed, Active, Ended, InPlace, RestPlaces,
     MessagePlaces, AlertPlaces
<1> QED BY <1>1, <1>2, <1>3, <1>4, <1>5, <1>6

LEMMA FindForChangeInv ==
  ASSUME ShopsInv, NEW r \in Requests, FindForChange(r) PROVE ShopsInv'
<1> USE ShopsAssumption DEF ShopsInv, FindForChange, Goto, End, data, work, Requests
<1>0. shops' = shops /\ r \in Requests
  OBVIOUS
<1>1. TypeOK'
  BY <1>0, TheId, TheLocale, TheShop DEF TypeOK, Places, Ended, Classes, InPlace,
     MessagePlaces, RestPlaces, AlertPlaces, Asking, SupportedLocales
<1>2. InPlace'
  BY <1>0, ResultsRender, AlertRenders DEF TypeOK, InPlace, MessagePlaces, RestPlaces,
     AlertPlaces, Asking
<1>3. OnePhone' /\ References'
  BY <1>0, SameTable, TheId, TheShop DEF TypeOK, References
<1>n. RowsOf(Phone[r]) = {} => ~ IsShop(Phone[r], r)
  BY TheShop DEF HasShop, IsShop
<1>4. Inserting'
  BY <1>0, <1>n, SameTable DEF TypeOK, Inserting, InPlace, MessagePlaces, RestPlaces,
     AlertPlaces
<1>5. Speaking'
  BY <1>0 DEF TypeOK, Speaking, InPlace, MessagePlaces, RestPlaces, AlertPlaces
<1>6. Witnessed'
  BY <1>0, SameTable, TheShop DEF TypeOK, Witnessed, Active, Ended, InPlace, RestPlaces,
     MessagePlaces, AlertPlaces
<1> QED BY <1>1, <1>2, <1>3, <1>4, <1>5, <1>6

LEMMA NoUpdateInv ==
  ASSUME ShopsInv, NEW r \in Rest, NoUpdate(r) PROVE ShopsInv'
<1> USE ShopsAssumption DEF ShopsInv, NoUpdate, Goto, End, data, work, Requests
<1>0. shops' = shops /\ r \in Requests
  OBVIOUS
<1>1. TypeOK'
  BY <1>0, TheId, TheLocale, TheShop DEF TypeOK, Places, Ended, Classes, InPlace,
     MessagePlaces, RestPlaces, AlertPlaces, Asking, SupportedLocales
<1>2. InPlace'
  BY <1>0, ResultsRender, AlertRenders DEF TypeOK, InPlace, MessagePlaces, RestPlaces,
     AlertPlaces, Asking
<1>3. OnePhone' /\ References'
  BY <1>0, SameTable, TheId, TheShop DEF TypeOK, References
<1>4. Inserting'
  BY <1>0, SameTable, TheId, TheShop DEF TypeOK, Inserting, InPlace, MessagePlaces,
     RestPlaces, AlertPlaces
<1>5. Speaking'
  BY <1>0 DEF TypeOK, Speaking, InPlace, MessagePlaces, RestPlaces, AlertPlaces
<1>6. Witnessed'
  BY <1>0, SameTable, TheShop DEF TypeOK, Witnessed, Active, Ended, InPlace, RestPlaces,
     MessagePlaces, AlertPlaces
<1> QED BY <1>1, <1>2, <1>3, <1>4, <1>5, <1>6

LEMMA UpdateInv ==
  ASSUME ShopsInv, NEW r \in Rest, Update(r) PROVE ShopsInv'
<1> USE ShopsAssumption DEF ShopsInv, Update, Goto, End, data, work, Requests
<1>0. shops' = shops /\ r \in Requests
  OBVIOUS
<1>1. TypeOK'
  BY <1>0, TheId, TheLocale, TheShop DEF TypeOK, Places, Ended, Classes, InPlace,
     MessagePlaces, RestPlaces, AlertPlaces, Asking, SupportedLocales
<1>2. InPlace'
  BY <1>0, ResultsRender, AlertRenders DEF TypeOK, InPlace, MessagePlaces, RestPlaces,
     AlertPlaces, Asking
<1>3. OnePhone' /\ References'
  BY <1>0, SameTable, TheId, TheShop DEF TypeOK, References
<1>4. Inserting'
  BY <1>0, SameTable, TheId, TheShop DEF TypeOK, Inserting, InPlace, MessagePlaces,
     RestPlaces, AlertPlaces
<1>5. Speaking'
  BY <1>0 DEF TypeOK, Speaking, InPlace, MessagePlaces, RestPlaces, AlertPlaces
<1>6. Witnessed'
  BY <1>0, SameTable, TheShop DEF TypeOK, Witnessed, Active, Ended, InPlace, RestPlaces,
     MessagePlaces, AlertPlaces
<1> QED BY <1>1, <1>2, <1>3, <1>4, <1>5, <1>6

LEMMA RefreshInv ==
  ASSUME ShopsInv, NEW r \in Rest, Refresh(r) PROVE ShopsInv'
<1> USE ShopsAssumption DEF ShopsInv, Refresh, Goto, End, data, work, Requests
<1>0. shops' = shops /\ r \in Requests
  OBVIOUS
<1>1. TypeOK'
  BY <1>0, TheId, TheLocale, TheShop DEF TypeOK, Places, Ended, Classes, InPlace,
     MessagePlaces, RestPlaces, AlertPlaces, Asking, SupportedLocales
<1>2. InPlace'
  BY <1>0, ResultsRender, AlertRenders DEF TypeOK, InPlace, MessagePlaces, RestPlaces,
     AlertPlaces, Asking
<1>3. OnePhone' /\ References'
  BY <1>0, SameTable, TheId, TheShop DEF TypeOK, References
<1>4. Inserting'
  BY <1>0, SameTable, TheId, TheShop DEF TypeOK, Inserting, InPlace, MessagePlaces,
     RestPlaces, AlertPlaces
<1>5. Speaking'
  BY <1>0 DEF TypeOK, Speaking, InPlace, MessagePlaces, RestPlaces, AlertPlaces
<1>6. Witnessed'
  BY <1>0, SameTable DEF LocaleOf, TypeOK, Witnessed, Active, Ended, InPlace, RestPlaces,
     MessagePlaces, AlertPlaces
<1> QED BY <1>1, <1>2, <1>3, <1>4, <1>5, <1>6

LEMMA ReadLocaleInv ==
  ASSUME ShopsInv, NEW r \in Messages, ReadLocale(r) PROVE ShopsInv'
<1> USE ShopsAssumption DEF ShopsInv, ReadLocale, Goto, End, data, work, Requests
<1>0. shops' = shops /\ r \in Requests
  OBVIOUS
<1>1. TypeOK'
  BY <1>0, TheId, TheLocale, TheShop DEF TypeOK, Places, Ended, Classes, InPlace,
     MessagePlaces, RestPlaces, AlertPlaces, Asking, SupportedLocales
<1>2. InPlace'
  BY <1>0, ResultsRender, AlertRenders DEF TypeOK, InPlace, MessagePlaces, RestPlaces,
     AlertPlaces, Asking
<1>3. OnePhone' /\ References'
  BY <1>0, SameTable, TheId, TheShop DEF TypeOK, References
<1>4. Inserting'
  BY <1>0, SameTable, TheId, TheShop DEF TypeOK, Inserting, InPlace, MessagePlaces,
     RestPlaces, AlertPlaces
<1>5. Speaking'
  BY <1>0 DEF TypeOK, Speaking, InPlace, MessagePlaces, RestPlaces, AlertPlaces
<1>6. Witnessed'
  BY <1>0, SameTable, TheShop DEF TypeOK, Witnessed, Active, Ended, InPlace, RestPlaces,
     MessagePlaces, AlertPlaces
<1> QED BY <1>1, <1>2, <1>3, <1>4, <1>5, <1>6

LEMMA SaveInv ==
  ASSUME ShopsInv, NEW r \in Messages, Save(r) PROVE ShopsInv'
<1> USE ShopsAssumption DEF ShopsInv, Save, Goto, End, data, work, Requests
<1>0. shops' = shops /\ r \in Requests
  OBVIOUS
<1>1. TypeOK'
  BY <1>0, TheId, TheLocale, TheShop DEF TypeOK, Places, Ended, Classes, InPlace,
     MessagePlaces, RestPlaces, AlertPlaces, Asking, SupportedLocales
<1>2. InPlace'
  BY <1>0, ResultsRender, AlertRenders DEF TypeOK, InPlace, MessagePlaces, RestPlaces,
     AlertPlaces, Asking
<1>3. OnePhone' /\ References'
  BY <1>0, SameTable, TheId, TheShop DEF TypeOK, References
<1>4. Inserting'
  BY <1>0, SameTable, TheId, TheShop DEF TypeOK, Inserting, InPlace, MessagePlaces,
     RestPlaces, AlertPlaces
<1>5. Speaking'
  BY <1>0 DEF TypeOK, Speaking, InPlace, MessagePlaces, RestPlaces, AlertPlaces
<1>6. Witnessed'
  BY <1>0, SameTable, TheShop DEF TypeOK, Witnessed, Active, Ended, InPlace, RestPlaces,
     MessagePlaces, AlertPlaces
<1> QED BY <1>1, <1>2, <1>3, <1>4, <1>5, <1>6

LEMMA SaveRefusedInv ==
  ASSUME ShopsInv, NEW r \in Messages, SaveRefused(r) PROVE ShopsInv'
<1> USE ShopsAssumption DEF ShopsInv, SaveRefused, Goto, End, data, work, Requests
<1>0. shops' = shops /\ r \in Requests
  OBVIOUS
<1>1. TypeOK'
  BY <1>0, TheId, TheLocale, TheShop DEF TypeOK, Places, Ended, Classes, InPlace,
     MessagePlaces, RestPlaces, AlertPlaces, Asking, SupportedLocales
<1>2. InPlace'
  BY <1>0, ResultsRender, AlertRenders DEF TypeOK, InPlace, MessagePlaces, RestPlaces,
     AlertPlaces, Asking
<1>3. OnePhone' /\ References'
  BY <1>0, SameTable, TheId, TheShop DEF TypeOK, References
<1>4. Inserting'
  BY <1>0, SameTable, TheId, TheShop DEF TypeOK, Inserting, InPlace, MessagePlaces,
     RestPlaces, AlertPlaces
<1>5. Speaking'
  BY <1>0 DEF TypeOK, Speaking, InPlace, MessagePlaces, RestPlaces, AlertPlaces
<1>6. Witnessed'
  BY <1>0, SameTable, TheShop DEF TypeOK, Witnessed, Active, Ended, InPlace, RestPlaces,
     MessagePlaces, AlertPlaces
<1> QED BY <1>1, <1>2, <1>3, <1>4, <1>5, <1>6

LEMMA RenderInv ==
  ASSUME ShopsInv, NEW r \in Messages \union Alerts, Render(r) PROVE ShopsInv'
<1> USE ShopsAssumption DEF ShopsInv, Render, Goto, End, data, work, Requests
<1>0. shops' = shops /\ r \in Requests
  OBVIOUS
<1>1. TypeOK'
  BY <1>0, TheId, TheLocale, TheShop DEF TypeOK, Places, Ended, Classes, InPlace,
     MessagePlaces, RestPlaces, AlertPlaces, Asking, SupportedLocales
<1>n. \A result \in IF r \in Alerts THEN {LowStockAlert} ELSE ResultsOf(says[r]) : Renders(result)
  <2>1. CASE r \in Alerts
    BY <2>1, AlertRenders
  <2>2. CASE r \notin Alerts
    BY <1>0, <2>2, ResultsRender DEF Speaking, TypeOK
  <2> QED BY <2>1, <2>2
<1>2. InPlace'
  BY <1>0, <1>n DEF TypeOK, InPlace, MessagePlaces, RestPlaces, AlertPlaces, Asking
<1>3. OnePhone' /\ References'
  BY <1>0, SameTable, TheId, TheShop DEF TypeOK, References
<1>4. Inserting'
  BY <1>0, SameTable, TheId, TheShop DEF TypeOK, Inserting, InPlace, MessagePlaces,
     RestPlaces, AlertPlaces
<1>5. Speaking'
  BY <1>0 DEF TypeOK, Speaking, InPlace, MessagePlaces, RestPlaces, AlertPlaces
<1>6. Witnessed'
  BY <1>0, SameTable, TheShop DEF TypeOK, Witnessed, Active, Ended, InPlace, RestPlaces,
     MessagePlaces, AlertPlaces
<1> QED BY <1>1, <1>2, <1>3, <1>4, <1>5, <1>6

LEMMA TakeAlertInv ==
  ASSUME ShopsInv, NEW r \in Alerts, TakeAlert(r) PROVE ShopsInv'
<1> USE ShopsAssumption DEF ShopsInv, TakeAlert, Goto, End, data, work, Requests
<1>0. shops' = shops /\ r \in Requests
  OBVIOUS
<1>1. TypeOK'
  BY <1>0, TheId, TheLocale, TheShop DEF TypeOK, Places, Ended, Classes, InPlace,
     MessagePlaces, RestPlaces, AlertPlaces, Asking, SupportedLocales
<1>n. RowsOf(Phone[r]) # {}
  BY <1>0, TheShop DEF Inserting
<1>2. InPlace'
  BY <1>0, <1>n DEF TypeOK, InPlace, MessagePlaces, RestPlaces, AlertPlaces, Asking
<1>3. OnePhone' /\ References'
  BY <1>0, SameTable, TheId, TheShop DEF TypeOK, References
<1>4. Inserting'
  BY <1>0, SameTable, TheId, TheShop DEF TypeOK, Inserting, InPlace, MessagePlaces,
     RestPlaces, AlertPlaces
<1>5. Speaking'
  BY <1>0 DEF TypeOK, Speaking, InPlace, MessagePlaces, RestPlaces, AlertPlaces
<1>6. Witnessed'
  BY <1>0, SameTable, TheShop DEF TypeOK, Witnessed, Active, Ended, InPlace, RestPlaces,
     MessagePlaces, AlertPlaces
<1> QED BY <1>1, <1>2, <1>3, <1>4, <1>5, <1>6

LEMMA FailInv ==
  ASSUME ShopsInv, NEW r \in Requests, Fail(r) PROVE ShopsInv'
<1> USE ShopsAssumption DEF ShopsInv, Fail, Goto, End, data, work, Requests
<1>0. shops' = shops /\ r \in Requests
  OBVIOUS
<1>1. TypeOK'
  BY <1>0, TheId, TheLocale, TheShop DEF TypeOK, Places, Ended, Classes, InPlace,
     MessagePlaces, RestPlaces, AlertPlaces, Asking, SupportedLocales
<1>2. InPlace'
  BY <1>0, ResultsRender, AlertRenders DEF TypeOK, InPlace, MessagePlaces, RestPlaces,
     AlertPlaces, Asking
<1>3. OnePhone' /\ References'
  BY <1>0, SameTable, TheId, TheShop DEF TypeOK, References
<1>4. Inserting'
  BY <1>0, SameTable, TheId, TheShop DEF TypeOK, Inserting, InPlace, MessagePlaces,
     RestPlaces, AlertPlaces
<1>5. Speaking'
  BY <1>0 DEF TypeOK, Speaking, InPlace, MessagePlaces, RestPlaces, AlertPlaces
<1>6. Witnessed'
  BY <1>0, SameTable, TheShop DEF TypeOK, Witnessed, Active, Ended, InPlace, RestPlaces,
     MessagePlaces, AlertPlaces
<1> QED BY <1>1, <1>2, <1>3, <1>4, <1>5, <1>6

-----------------------------------------------------------------------------
(* The commits.                                                            *)

LEMMA CommitInsertInv ==
  ASSUME ShopsInv, NEW r \in Messages \union Rest, CommitInsert(r) PROVE ShopsInv'
<1> USE ShopsAssumption DEF ShopsInv, CommitInsert, Commit, Goto, Requests
<1>1. /\ r \in Requests /\ shops' = shops \union {NewRow(r)} /\ claim[Phone[r]] = r
      /\ at[r] = "inserted" /\ ~ HasShop(Phone[r])
  BY DEF TypeOK, Inserting
<1>2. NewRow(r) \in Rows /\ NewRow(r).id = r /\ NewRow(r).phone = Phone[r]
  BY <1>1 DEF NewRow, Rows, TypeOK, Asking, SupportedLocales
<1>3. \A p : /\ HasShop(p) => HasShop(p)'
             /\ HasShop(p)' => HasShop(p) \/ p = Phone[r]
  BY <1>1, <1>2 DEF HasShop
<1>4. \A p, id : /\ IsShop(p, id) => IsShop(p, id)'
                 /\ IsShop(p, id)' => IsShop(p, id) \/ (p = Phone[r] /\ id = r)
  BY <1>1, <1>2 DEF IsShop
<1>5. IsShop(Phone[r], r)' /\ HasShop(Phone[r])'
  BY <1>1, <1>2 DEF IsShop, HasShop
<1>6. OnePhone'
  BY <1>1, <1>2 DEF OnePhone, HasShop
<1>7. /\ ShopOf(Phone[r])' = NewRow(r)
      /\ \A p : p # Phone[r] => ShopOf(p)' = ShopOf(p)
  <2>1. ShopOf(Phone[r])' = NewRow(r)
    BY <1>1, <1>2, <1>6, TheShopAfter
  <2>2. ASSUME NEW p, p # Phone[r] PROVE ShopOf(p)' = ShopOf(p)
    <3>1. RowsOf(p)' = RowsOf(p)
      BY <1>1, <1>2, <2>2 DEF RowsOf
    <3> QED BY <3>1 DEF ShopOf
  <2> QED BY <2>1, <2>2
<1>8. TypeOK'
  BY <1>1, <1>2 DEF TypeOK, Places, Ended, InPlace, MessagePlaces, RestPlaces, AlertPlaces,
     NewRow, Asking, SupportedLocales
<1>9. InPlace'
  BY <1>1 DEF TypeOK, InPlace, MessagePlaces, RestPlaces, AlertPlaces
<1>10. References'
  BY <1>1, <1>4, <1>5 DEF TypeOK, References
<1>11. Inserting'
  <2>1. ASSUME NEW q \in Requests, q # r, at[q] = "inserted" PROVE Phone[q] # Phone[r]
    BY <1>1, <2>1 DEF TypeOK
  <2>2. ASSUME NEW q \in Requests, q # r
        PROVE  /\ at'[q] = at[q]
               /\ at[q] = "inserted" => ~ HasShop(Phone[q])'
               /\ ~ IsShop(Phone[q], q) => ~ IsShop(Phone[q], q)'
               /\ HasShop(Phone[q]) => HasShop(Phone[q])'
    <3>1. at'[q] = at[q]
      BY <1>1, <2>2 DEF TypeOK
    <3>2. at[q] = "inserted" => ~ HasShop(Phone[q])'
      BY <1>1, <1>2, <2>1, <2>2 DEF Inserting, HasShop
    <3>3. ~ IsShop(Phone[q], q) => ~ IsShop(Phone[q], q)'
      BY <1>4, <2>2
    <3>4. HasShop(Phone[q]) => HasShop(Phone[q])'
      BY <1>1 DEF HasShop
    <3> QED BY <3>1, <3>2, <3>3, <3>4
  <2>3. at'[r] \in {"locale", "refresh"}
    BY <1>1 DEF TypeOK
  <2>4. \A s \in shops : s \in shops'
    BY <1>1
  <2> QED BY <2>2, <2>3, <2>4 DEF Inserting
<1>12. Speaking'
  BY <1>1 DEF TypeOK, Speaking
<1>13. Witnessed'
  BY <1>1, <1>2, <1>7 DEF TypeOK, Witnessed, Active, Ended, LocaleOf, NewRow, InPlace,
     RestPlaces, MessagePlaces
<1> QED BY <1>6, <1>8, <1>9, <1>10, <1>11, <1>12, <1>13

LEMMA CommitUpdateInv ==
  ASSUME ShopsInv, NEW r \in Rest, CommitUpdate(r) PROVE ShopsInv'
<1> USE ShopsAssumption DEF ShopsInv, CommitUpdate, Commit, Goto, Requests
<1> DEFINE New(s) == IF s.phone = Phone[r] THEN [s EXCEPT !.locale = asked[r].locale] ELSE s
<1>1. /\ r \in Requests /\ shops' = {New(s) : s \in shops} /\ claim[Phone[r]] = r
      /\ at[r] = "updated" /\ asked[r].locale \in SupportedLocales
  BY DEF TypeOK, Asking
<1>2. \A s \in shops : /\ New(s) \in Rows /\ New(s).id = s.id /\ New(s).phone = s.phone
                       /\ New(s).locale = IF s.phone = Phone[r] THEN asked[r].locale ELSE s.locale
  BY <1>1 DEF TypeOK, Rows
<1> HIDE DEF New
<1>3. \A p : HasShop(p)' <=> HasShop(p)
  BY <1>1, <1>2 DEF HasShop
<1>4. \A p, id : IsShop(p, id)' <=> IsShop(p, id)
  BY <1>1, <1>2 DEF IsShop
<1>5. OnePhone'
  BY <1>1, <1>2 DEF OnePhone
<1>6. \A p : LocaleOf(p)' = IF p = Phone[r] /\ HasShop(p) THEN asked[r].locale ELSE LocaleOf(p)
  <2>1. ASSUME NEW p, HasShop(p) PROVE ShopOf(p)' = New(ShopOf(p))
    BY <1>1, <1>2, <1>5, <2>1, TheShop, TheShopAfter
  <2>2. ASSUME NEW p, ~ HasShop(p) PROVE ShopOf(p)' = ShopOf(p)
    BY <1>3, <1>5, <2>2, TheShop, TheShopAfter DEF NoRow
  <2>3. ASSUME NEW p, HasShop(p) PROVE ShopOf(p) \in shops /\ ShopOf(p).phone = p
    BY <2>3, TheShop
  <2> QED BY <1>2, <2>1, <2>2, <2>3 DEF LocaleOf
<1>7. TypeOK'
  BY <1>1, <1>2 DEF TypeOK, Places, Ended
<1>8. InPlace'
  BY <1>1 DEF TypeOK, InPlace, MessagePlaces, RestPlaces, AlertPlaces
<1>9. References'
  BY <1>1, <1>4 DEF TypeOK, References
<1>10. Inserting'
  <2>1. ASSUME NEW q \in Requests, \E s \in shops : s.phone = Phone[q] /\ s.id # q
        PROVE  \E s \in shops' : s.phone = Phone[q] /\ s.id # q
    BY <1>1, <1>2, <2>1
  <2> QED BY <1>1, <1>3, <1>4, <2>1 DEF TypeOK, Inserting
<1>11. Speaking'
  BY <1>1 DEF TypeOK, Speaking
<1>12. Witnessed'
  BY <1>1, <1>6 DEF TypeOK, Witnessed, Active, Ended, InPlace, RestPlaces
<1> QED BY <1>5, <1>7, <1>8, <1>9, <1>10, <1>11, <1>12

LEMMA ExpireInv ==
  ASSUME ShopsInv, NEW p \in Phones, Expire(p) PROVE ShopsInv'
<1> USE DEF ShopsInv, Expire, work
<1>1. TypeOK'
  BY DEF TypeOK
<1>2. InPlace' /\ OnePhone' /\ References' /\ Speaking'
  BY SameTable DEF TypeOK, InPlace, References, Speaking
<1>3. Inserting' /\ Witnessed'
  BY SameTable DEF Inserting, Witnessed, Active
<1> QED BY <1>1, <1>2, <1>3

LEMMA StutterInv ==
  ASSUME ShopsInv, UNCHANGED vars PROVE ShopsInv'
<1> USE DEF ShopsInv, vars, data, work
<1>1. TypeOK'
  BY DEF TypeOK
<1>2. InPlace' /\ OnePhone' /\ References' /\ Speaking'
  BY SameTable DEF InPlace, References, Speaking
<1>3. Inserting' /\ Witnessed'
  BY SameTable DEF Inserting, Witnessed, Active
<1> QED BY <1>1, <1>2, <1>3

LEMMA NextInv ==
  ASSUME ShopsInv, [Next]_vars PROVE ShopsInv'
<1>1. ASSUME NEW r \in Messages, MessageStep(r) PROVE ShopsInv'
  BY <1>1, BeginMessageInv, ProcessInv, ProcessSaleInv, FindForMessageInv, InsertInv,
     InsertFailsInv, CommitInsertInv, ReadLocaleInv, SaveInv, SaveRefusedInv, RenderInv
     DEF MessageStep, Write, Requests
<1>2. ASSUME NEW r \in Rest, RestStep(r) PROVE ShopsInv'
  BY <1>2, BeginRestInv, FindForChangeInv, InsertInv, InsertFailsInv, CommitInsertInv,
     NoUpdateInv, UpdateInv, CommitUpdateInv, RefreshInv DEF RestStep, Write, Requests
<1>3. ASSUME NEW r \in Alerts, TakeAlert(r) \/ Render(r) PROVE ShopsInv'
  BY <1>3, TakeAlertInv, RenderInv
<1>4. ASSUME NEW r \in Requests, Fail(r) PROVE ShopsInv'
  BY <1>4, FailInv
<1>5. ASSUME NEW p \in Phones, Expire(p) PROVE ShopsInv'
  BY <1>5, ExpireInv
<1> QED BY <1>1, <1>2, <1>3, <1>4, <1>5, StutterInv DEF Next

-----------------------------------------------------------------------------
(***************************************************************************)
(* What a request goes on with is the phone's shop, and who is about to    *)
(* commit one holds the phone: the inductive invariant of get_shop_id,     *)
(* create_shop, update_locale and of the alert.                            *)
(***************************************************************************)
THEOREM ShopsInductive == Spec => []ShopsInv
<1>1. Init => ShopsInv
  BY InitInv
<1>2. ShopsInv /\ [Next]_vars => ShopsInv'
  BY NextInv
<1> QED BY <1>1, <1>2, PTL DEF Spec

(* A request is where the code of its kind can be, and the row of a phone  *)
(* is written by the one request that has claimed it.                      *)
THEOREM ShopsTyped == Spec => []TypeOK
<1>1. ShopsInv => TypeOK
  BY DEF ShopsInv
<1> QED BY <1>1, ShopsInductive, PTL

(***************************************************************************)
(* A phone has one shop, and every id that a session, a message or a       *)
(* response has is that shop's, however many conversations and requests    *)
(* look for it at once.                                                    *)
(***************************************************************************)
THEOREM PhoneHasOneShop == Spec => []OneShop
<1>1. ShopsInv => OneShop
  BY TheId DEF ShopsInv, References, OnePhone, OneShop
<1> QED BY <1>1, ShopsInductive, PTL

(***************************************************************************)
(* update_locale answers with a locale that the shop had since the request *)
(* began, and the one that was asked for was the shop's as well.           *)
(***************************************************************************)
THEOREM AnsweredLocaleWasShops == Spec => []LocaleWasShops
<1>1. ShopsInv => LocaleWasShops
  BY DEF ShopsInv, Witnessed, LocaleWasShops
<1> QED BY <1>1, ShopsInductive, PTL

(* render_message raises for no result of the engine, of its flows, of the *)
(* analytics formatter or of the alert.                                    *)
THEOREM RepliesRender == Spec => []EveryReplyRenders
<1>1. ShopsInv => EveryReplyRenders
  BY DEF ShopsInv, InPlace, MessagePlaces, RestPlaces, AlertPlaces, EveryReplyRenders, Requests
<1> QED BY <1>1, ShopsInductive, PTL

(* _process_low_stock_alert finds the shop of the sale that sent it.       *)
THEOREM AlertsFindShops == Spec => []AlertFindsShop
<1>1. ShopsInv => AlertFindsShop
  BY DEF ShopsInv, InPlace, MessagePlaces, RestPlaces, AlertPlaces, AlertFindsShop, Requests
<1> QED BY <1>1, ShopsInductive, PTL
=============================================================================
