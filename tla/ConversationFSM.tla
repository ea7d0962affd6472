---------------------------- MODULE ConversationFSM ----------------------------
(***************************************************************************)
(* FSMEngine.process_message and the flows it dispatches to, as a relation *)
(* from a session, a text and the shelf to the outcomes the engine can     *)
(* have.  A text that the flow accepts, one that it refuses and one at     *)
(* which it raises something else than InvalidInputError are told apart;   *)
(* the wording of replies is not.                                          *)
(*                                                                         *)
(* What depends on data that is not kept (trigram similarity, the model's  *)
(* answer, the age of the last analytics call) is a choice.  A database, a *)
(* broker or a provider that fails is a step of ConversationWorkers.       *)
(***************************************************************************)
EXTENDS Integers, FiniteSets

CONSTANTS
  Products,          \* product ids, as in StockLedger
  NoProduct,         \* no product is chosen
  MaxErrors,         \* settings.max_fsm_errors
  AnalyticsEnabled   \* settings.analytics_enabled and a provider's key

ASSUME FSMAssumption ==
  /\ NoProduct \notin Products
  /\ MaxErrors \in Nat \ {0}
  /\ AnalyticsEnabled \in BOOLEAN

(* SessionState, less START_ADD_PRODUCT, which nothing enters, and         *)
(* REPORT_PENDING, which its handler leaves before it returns.             *)
SessionStates ==
  {"IDLE",
   "ADD_PRODUCT_NAME", "ADD_PRODUCT_PRICE", "ADD_PRODUCT_QTY", "CONFIRM_ADD_PRODUCT",
   "RECORD_SALE_PRODUCT", "RECORD_SALE_PRODUCT_SELECTION", "RECORD_SALE_QTY",
   "CONFIRM_SALE",
   "CHECK_STOCK_PRODUCT", "CHECK_STOCK_PRODUCT_SELECTION",
   "ANALYTICS_PRODUCT_SELECTION"}

NoQty == -1

(* UserSession.  A name, a price, a shop and the two analytics contexts    *)
(* are there or not; history and the time stamps are left out.             *)
Sessions ==
  [state : SessionStates, errors : 0..MaxErrors - 1, shop : BOOLEAN,
   product : Products \union {NoProduct}, name : BOOLEAN, price : BOOLEAN,
   qty : Nat \union {NoQty}, candidates : SUBSET Products,
   pending : BOOLEAN, prior : BOOLEAN]

NewSession ==
  [state |-> "IDLE", errors |-> 0, shop |-> FALSE, product |-> NoProduct,
   name |-> FALSE, price |-> FALSE, qty |-> NoQty, candidates |-> {},
   pending |-> FALSE, prior |-> FALSE]

-----------------------------------------------------------------------------
(* Texts, one for each way in which the parsers tell texts apart *)

Texts == {"cancel", "add product", "record sale", "check stock", "daily report",
          "yes", "no", "sugar", "nan", "0", "1", "2"}

Override(t) == t = "cancel"

IntentOf(t) ==
  CASE t = "add product"  -> "ADD_PRODUCT"
    [] t = "record sale"  -> "RECORD_SALE"
    [] t = "daily report" -> "GENERATE_REPORT"
    [] t = "check stock"  -> "CHECK_STOCK"
    [] OTHER              -> "UNKNOWN"

IsDigits(t) == t \in {"0", "1", "2"}

(* int(t), and NoQty when t is no number. *)
Number(t) == CASE t = "0" -> 0 [] t = "1" -> 1 [] t = "2" -> 2 [] OTHER -> NoQty

(* A product name has at least two characters, and a digit is one. *)
IsName(t) == ~IsDigits(t)
IsPrice(t) == t \in {"1", "2"}

(* Decimal("nan") is parsed, and comparing it with 0 raises outside the try. *)
PriceRaises(t) == t = "nan"

Confirms(t) == t \in {"yes", "1"}
Declines(t) == t \in {"no", "2"}

-----------------------------------------------------------------------------
(* Outcomes *)

NoEffect == [op |-> "none", product |-> NoProduct, amount |-> 0]
Sale(p, n) == [op |-> "sell", product |-> p, amount |-> n]
Addition(n) == [op |-> "add", product |-> NoProduct, amount |-> n]
DailyReport == [op |-> "report", product |-> NoProduct, amount |-> 0]

Accepted(s, effect) ==
  [session |-> [s EXCEPT !.errors = 0], reply |-> "accepted", effect |-> effect]

Moved(s) == Accepted(s, NoEffect)

(* An exception that process_message does not catch: the session is not *)
(* saved and nobody answers.                                             *)
Raised(s) == [session |-> s, reply |-> "none", effect |-> NoEffect]

\* Seeded fault: the context of the flow that is left is kept.
ClearKeeping(s) == [s EXCEPT !.state = "IDLE", !.errors = 0]

(* The transition to IDLE and _clear_context_preserving_history. *)
Clear(s) == [NewSession EXCEPT !.shop = s.shop]

\* Seeded fault: the flow is given up one refusal too late.
RefusedLate(s) ==
  IF s.errors + 1 > MaxErrors
  THEN [session |-> Clear(s), reply |-> "refused", effect |-> NoEffect]
  ELSE [session |-> [s EXCEPT !.errors = @ + 1], reply |-> "refused",
        effect |-> NoEffect]

\* Seeded fault: a refusal is not counted.
RefusedUncounted(s) == [session |-> s, reply |-> "refused", effect |-> NoEffect]

(* An InvalidInputError: ask again, or give up the flow. *)
Refused(s) ==
  IF s.errors + 1 >= MaxErrors
  THEN [session |-> Clear(s), reply |-> "refused", effect |-> NoEffect]
  ELSE [session |-> [s EXCEPT !.errors = @ + 1], reply |-> "refused",
        effect |-> NoEffect]

In(s, state) == [s EXCEPT !.state = state]

(* The candidates that a search can offer, limit rows at most. *)
Choices(shelf, limit) ==
  {C \in SUBSET shelf.live : C # {} /\ Cardinality(C) <= limit}

Chosen(s, p) == [s EXCEPT !.product = p, !.name = TRUE, !.price = TRUE]

(* _resolve_product_choice: a number between 1 and the length of the list. *)
ValidChoice(s, t) == Number(t) \in 1..Cardinality(s.candidates)

-----------------------------------------------------------------------------
(* IDLE *)

(***************************************************************************)
(* AnalyticsFlow.handle_query: the answer becomes the prior call, or the   *)
(* merchant has to choose a product, or nothing is learnt.                 *)
(***************************************************************************)
HandleQuery(s, shelf) ==
  LET inShop == [s EXCEPT !.shop = TRUE] IN
  {Moved(inShop), Moved([inShop EXCEPT !.prior = TRUE])}
    \union {Moved([inShop EXCEPT !.state = "ANALYTICS_PRODUCT_SELECTION",
                                 !.candidates = C, !.pending = TRUE]) :
              C \in Choices(shelf, 5)}

(* A number is a follow-up only while the last analytics call is fresh. *)
HandleUnknown(s, t, shelf) ==
  LET routed  == HandleQuery(s, shelf)
      refused == {Refused(s)}
  IN
  IF ~AnalyticsEnabled THEN refused
  ELSE IF ~IsDigits(t) THEN routed
  ELSE IF s.prior THEN routed \union refused
  ELSE refused

HandleIdle(s, t, shelf) ==
  LET intent == IntentOf(t) IN
  CASE intent = "ADD_PRODUCT" -> {Moved(In(s, "ADD_PRODUCT_NAME"))}
    [] intent = "RECORD_SALE" -> {Moved(In(s, "RECORD_SALE_PRODUCT"))}
    [] intent = "CHECK_STOCK" -> {Moved(In(s, "CHECK_STOCK_PRODUCT"))}
    [] intent = "GENERATE_REPORT" -> {Accepted([s EXCEPT !.shop = TRUE], DailyReport)}
    [] intent = "UNKNOWN" -> HandleUnknown(s, t, shelf)

-----------------------------------------------------------------------------
(* AddProductFlow *)

HandleName(s, t) ==
  IF IsName(t) THEN Moved([In(s, "ADD_PRODUCT_PRICE") EXCEPT !.name = TRUE])
  ELSE Refused(s)

HandlePrice(s, t) ==
  CASE PriceRaises(t) -> Raised(s)
    [] IsPrice(t)     -> Moved([In(s, "ADD_PRODUCT_QTY") EXCEPT !.price = TRUE])
    [] OTHER          -> Refused(s)

HandleQty(s, t) ==
  IF s.name /\ s.price /\ Number(t) >= 0
  THEN Moved([In(s, "CONFIRM_ADD_PRODUCT") EXCEPT !.qty = Number(t)])
  ELSE Refused(s)

(* _persist_product_db is committed by its own calls of commit. *)
HandleConfirm(s, t) ==
  CASE Declines(t) -> Moved(Clear(s))
    [] Confirms(t) /\ s.name /\ s.price /\ s.qty # NoQty ->
         Accepted([Clear(s) EXCEPT !.shop = TRUE], Addition(s.qty))
    [] OTHER -> Refused(s)

-----------------------------------------------------------------------------
(* RecordSaleFlow *)

(* A name that nothing resembles is answered, and is no invalid input. *)
HandleSaleProductName(s, shelf) ==
  LET inShop == [s EXCEPT !.shop = TRUE] IN
  {Moved(inShop)}
    \union {Moved(Chosen(In(inShop, "RECORD_SALE_QTY"), p)) : p \in shelf.live}
    \union {Moved([In(inShop, "RECORD_SALE_PRODUCT_SELECTION") EXCEPT
                     !.candidates = C]) : C \in Choices(shelf, 3)}

\* Seeded fault: the candidates stay when one of them is chosen.
SelectionKeeping(s, t) ==
  IF ValidChoice(s, t)
  THEN {Moved(Chosen(In(s, "RECORD_SALE_QTY"), p)) : p \in s.candidates}
  ELSE {Refused(s)}

HandleSaleProductSelection(s, t) ==
  IF ValidChoice(s, t)
  THEN {Moved([Chosen(In(s, "RECORD_SALE_QTY"), p) EXCEPT !.candidates = {}]) :
          p \in s.candidates}
  ELSE {Refused(s)}

(* get_stock raises for a product that never received stock. *)
HandleSaleProductQty(s, t, shelf) ==
  CASE Number(t) <= 0 -> Refused(s)
    [] Number(t) > 0 /\ ~(s.product # NoProduct /\ s.name /\ s.price
                          /\ s.product \in shelf.stocked) -> Raised(s)
    [] OTHER ->
         IF Number(t) > shelf.quantity[s.product] THEN Refused(s)
         ELSE Moved([In(s, "CONFIRM_SALE") EXCEPT !.qty = Number(t)])

\* Seeded fault: the quantity is parsed again from the text that confirms.
HandleConfirmSaleParsing(s, t, shelf) ==
  CASE Declines(t) -> Moved(Clear(s))
    [] ~Declines(t) /\ ~Confirms(t) -> Refused(s)
    [] OTHER ->
         IF ~(s.shop /\ s.product # NoProduct /\ s.name /\ s.qty # NoQty)
         THEN Raised(s)
         ELSE IF s.product \notin shelf.live \intersect shelf.stocked THEN Refused(s)
         ELSE IF s.qty > shelf.quantity[s.product] THEN Raised(s)
         ELSE Accepted(Clear(s), Sale(s.product, IF IsDigits(t) THEN Number(t) ELSE s.qty))

\* Seeded fault: the context is not cleared when the sale is recorded.
HandleConfirmSaleKeeping(s, t, shelf) ==
  CASE Declines(t) -> Moved(Clear(s))
    [] ~Declines(t) /\ ~Confirms(t) -> Refused(s)
    [] OTHER ->
         IF ~(s.shop /\ s.product # NoProduct /\ s.name /\ s.qty # NoQty)
         THEN Raised(s)
         ELSE IF s.product \notin shelf.live \intersect shelf.stocked THEN Refused(s)
         ELSE IF s.qty > shelf.quantity[s.product] THEN Raised(s)
         ELSE Accepted(s, Sale(s.product, s.qty))

(***************************************************************************)
(* InsufficientStockException is none of the exceptions that the flow      *)
(* turns into an InvalidInputError.                                        *)
(***************************************************************************)
HandleConfirmSale(s, t, shelf) ==
  CASE Declines(t) -> Moved(Clear(s))
    [] ~Declines(t) /\ ~Confirms(t) -> Refused(s)
    [] OTHER ->
         IF ~(s.shop /\ s.product # NoProduct /\ s.name /\ s.qty # NoQty)
         THEN Raised(s)
         ELSE IF s.product \notin shelf.live \intersect shelf.stocked THEN Refused(s)
         ELSE IF s.qty > shelf.quantity[s.product] THEN Raised(s)
         ELSE Accepted(Clear(s), Sale(s.product, s.qty))

-----------------------------------------------------------------------------
(* StockLookupFlow *)

Inventory(s, p, shelf) ==
  IF p \in shelf.stocked THEN Moved([Clear(s) EXCEPT !.shop = TRUE]) ELSE Raised(s)

HandleStockName(s, t, shelf) ==
  LET inShop == [s EXCEPT !.shop = TRUE] IN
  IF ~IsName(t) THEN {Refused(s)}
  ELSE {Moved([inShop EXCEPT !.candidates = {}])}
         \union {Inventory(s, p, shelf) : p \in shelf.live}
         \union {Moved([In(inShop, "CHECK_STOCK_PRODUCT_SELECTION") EXCEPT
                          !.candidates = C]) : C \in Choices(shelf, 3)}

HandleStockProductSelection(s, t, shelf) ==
  IF ValidChoice(s, t) THEN {Inventory(s, p, shelf) : p \in s.candidates}
  ELSE {Refused(s)}

-----------------------------------------------------------------------------
(* AnalyticsFlow.handle_product_selection: the tool is run, whatever comes *)
(* of it, and the choice is over.                                          *)

HandleProductSelection(s, t) ==
  LET over == [In(s, "IDLE") EXCEPT !.pending = FALSE, !.candidates = {}] IN
  IF ~ValidChoice(s, t) THEN {Refused(s)}
  ELSE IF ~s.pending THEN {Moved(Clear(s))}
  ELSE {Moved(over), Moved([over EXCEPT !.prior = TRUE])}

-----------------------------------------------------------------------------

(* The handler map, with the universal override before it. *)
ProcessMessage(s, t, shelf) ==
  CASE Override(t) -> {Moved(Clear(s))}
    [] ~Override(t) /\ s.state = "IDLE" -> HandleIdle(s, t, shelf)
    [] ~Override(t) /\ s.state = "ADD_PRODUCT_NAME" -> {HandleName(s, t)}
    [] ~Override(t) /\ s.state = "ADD_PRODUCT_PRICE" -> {HandlePrice(s, t)}
    [] ~Override(t) /\ s.state = "ADD_PRODUCT_QTY" -> {HandleQty(s, t)}
    [] ~Override(t) /\ s.state = "CONFIRM_ADD_PRODUCT" -> {HandleConfirm(s, t)}
    [] ~Override(t) /\ s.state = "RECORD_SALE_PRODUCT" ->
         HandleSaleProductName(s, shelf)
    [] ~Override(t) /\ s.state = "RECORD_SALE_PRODUCT_SELECTION" ->
         HandleSaleProductSelection(s, t)
    [] ~Override(t) /\ s.state = "RECORD_SALE_QTY" ->
         {HandleSaleProductQty(s, t, shelf)}
    [] ~Override(t) /\ s.state = "CONFIRM_SALE" -> {HandleConfirmSale(s, t, shelf)}
    [] ~Override(t) /\ s.state = "CHECK_STOCK_PRODUCT" -> HandleStockName(s, t, shelf)
    [] ~Override(t) /\ s.state = "CHECK_STOCK_PRODUCT_SELECTION" ->
         HandleStockProductSelection(s, t, shelf)
    [] ~Override(t) /\ s.state = "ANALYTICS_PRODUCT_SELECTION" ->
         HandleProductSelection(s, t)

-----------------------------------------------------------------------------

Edges ==
  ({"IDLE"} \X {"ADD_PRODUCT_NAME", "RECORD_SALE_PRODUCT", "CHECK_STOCK_PRODUCT",
                "ANALYTICS_PRODUCT_SELECTION"})
    \union (SessionStates \X {"IDLE"})
    \union {<<"ADD_PRODUCT_NAME", "ADD_PRODUCT_PRICE">>,
            <<"ADD_PRODUCT_PRICE", "ADD_PRODUCT_QTY">>,
            <<"ADD_PRODUCT_QTY", "CONFIRM_ADD_PRODUCT">>,
            <<"RECORD_SALE_PRODUCT", "RECORD_SALE_PRODUCT_SELECTION">>,
            <<"RECORD_SALE_PRODUCT", "RECORD_SALE_QTY">>,
            <<"RECORD_SALE_PRODUCT_SELECTION", "RECORD_SALE_QTY">>,
            <<"RECORD_SALE_QTY", "CONFIRM_SALE">>,
            <<"CHECK_STOCK_PRODUCT", "CHECK_STOCK_PRODUCT_SELECTION">>}

(* What a session has to hold for its state's handler to find what it needs *)
(* and nothing that another flow left behind.                               *)
HasNothing(s) ==
  s.product = NoProduct /\ ~s.name /\ ~s.price /\ s.qty = NoQty

WellFormed(s) ==
  /\ s \in Sessions
  /\ s.pending <=> s.state = "ANALYTICS_PRODUCT_SELECTION"
  /\ (s.candidates # {}) <=>
       s.state \in {"RECORD_SALE_PRODUCT_SELECTION", "CHECK_STOCK_PRODUCT_SELECTION",
                    "ANALYTICS_PRODUCT_SELECTION"}
  /\ s.state \in {"RECORD_SALE_PRODUCT_SELECTION", "RECORD_SALE_QTY", "CONFIRM_SALE"} =>
       s.shop
  /\ s.state \in {"RECORD_SALE_QTY", "CONFIRM_SALE"} =>
       s.product # NoProduct /\ s.name /\ s.price
  /\ s.state = "CONFIRM_SALE" => s.qty > 0
  /\ s.state = "RECORD_SALE_QTY" => s.qty = NoQty
  /\ s.state \in {"ADD_PRODUCT_PRICE", "ADD_PRODUCT_QTY", "CONFIRM_ADD_PRODUCT"} =>
       s.name /\ s.product = NoProduct
  /\ s.state = "ADD_PRODUCT_PRICE" => ~s.price /\ s.qty = NoQty
  /\ s.state = "ADD_PRODUCT_QTY" => s.price /\ s.qty = NoQty
  /\ s.state = "CONFIRM_ADD_PRODUCT" => s.price /\ s.qty >= 0
  /\ s.state \in {"IDLE", "ADD_PRODUCT_NAME", "RECORD_SALE_PRODUCT",
                  "RECORD_SALE_PRODUCT_SELECTION", "CHECK_STOCK_PRODUCT",
                  "CHECK_STOCK_PRODUCT_SELECTION", "ANALYTICS_PRODUCT_SELECTION"} =>
       HasNothing(s)
=============================================================================
