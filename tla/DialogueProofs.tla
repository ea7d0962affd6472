----------------------------- MODULE DialogueProofs ----------------------------
(***************************************************************************)
(* Proofs about ConversationFSM and Dialogue, for any products, stock and  *)
(* texts, and any number of refusals that is allowed.  First what the      *)
(* handlers make of a well-formed session, what they may do to the tables  *)
(* and where they move the merchant; then that the session is always one   *)
(* that the handler of its state can work with, and that a sale is what    *)
(* its prompt said.                                                        *)
(***************************************************************************)
EXTENDS Dialogue, TLAPS

Shelves == [live : SUBSET Products, stocked : SUBSET Products,
            quantity : [Products -> Int]]

-----------------------------------------------------------------------------
(* The sessions that the handlers make of a well-formed one *)

(* A text is a number from 0 upwards, or it is no number. *)
LEMMA NumberType ==
  ASSUME NEW t
  PROVE  Number(t) \in Nat \union {NoQty}
BY DEF Number, NoQty

LEMMA NewIsWellFormed == WellFormed(NewSession) /\ NewSession.state = "IDLE"
BY FSMAssumption
   DEF WellFormed, NewSession, Sessions, SessionStates, HasNothing, NoQty

(* The shop may be known in every state. *)
LEMMA ShopIsFree ==
  ASSUME NEW s, WellFormed(s), NEW b \in BOOLEAN, s.state = "IDLE" \/ b
  PROVE  WellFormed([s EXCEPT !.shop = b]) /\ [s EXCEPT !.shop = b].state = s.state
BY DEF WellFormed, Sessions, SessionStates, HasNothing, NoQty

(* _clear_context_preserving_history leaves nothing of the flow. *)
LEMMA ClearIsWellFormed ==
  ASSUME NEW s, WellFormed(s)
  PROVE  /\ WellFormed(Clear(s))
         /\ WellFormed([Clear(s) EXCEPT !.shop = TRUE])
         /\ Clear(s).state = "IDLE"
<1>1. s.shop \in BOOLEAN
  BY DEF WellFormed, Sessions
<1>2. WellFormed(Clear(s)) /\ Clear(s).state = "IDLE"
  BY <1>1, NewIsWellFormed, ShopIsFree DEF Clear
<1> QED BY <1>2, ShopIsFree

(* An accepted text resets the counter, and changes nothing else. *)
LEMMA AcceptedSession ==
  ASSUME NEW s, WellFormed(s), NEW e
  PROVE  WellFormed(Accepted(s, e).session)
BY FSMAssumption
   DEF WellFormed, Accepted, Sessions, SessionStates, HasNothing, NoQty

LEMMA MovedSession ==
  ASSUME NEW s, WellFormed(s)
  PROVE  WellFormed(Moved(s).session)
BY AcceptedSession DEF Moved

(* A refused text counts, or ends the flow. *)
LEMMA RefusedSession ==
  ASSUME NEW s, WellFormed(s)
  PROVE  WellFormed(Refused(s).session)
<1>1. CASE s.errors + 1 >= MaxErrors
  BY <1>1, ClearIsWellFormed DEF Refused
<1>2. CASE ~(s.errors + 1 >= MaxErrors)
  BY <1>2, FSMAssumption
     DEF Refused, WellFormed, Sessions, SessionStates, HasNothing, NoQty
<1> QED BY <1>1, <1>2

LEMMA RaisedSession ==
  ASSUME NEW s, WellFormed(s)
  PROVE  WellFormed(Raised(s).session)
BY DEF Raised

-----------------------------------------------------------------------------
(* The handlers, one lemma for each flow *)

LEMMA QuerySession ==
  ASSUME NEW s, WellFormed(s), s.state = "IDLE", NEW shelf \in Shelves,
         NEW o \in HandleQuery(s, shelf)
  PROVE  WellFormed(o.session)
<1> DEFINE inShop == [s EXCEPT !.shop = TRUE]
<1>1. WellFormed(inShop) /\ inShop.state = "IDLE"
  BY ShopIsFree
<1> HIDE DEF inShop
<1>2. WellFormed([inShop EXCEPT !.prior = TRUE])
  BY <1>1 DEF WellFormed, Sessions, HasNothing, NoQty
<1>3. ASSUME NEW C \in Choices(shelf, 5)
      PROVE  WellFormed([inShop EXCEPT !.state = "ANALYTICS_PRODUCT_SELECTION",
                                       !.candidates = C, !.pending = TRUE])
  <2>1. C \subseteq Products /\ C # {}
    BY DEF Choices, Shelves
  <2> QED BY <1>1, <2>1 DEF WellFormed, Sessions, SessionStates, HasNothing, NoQty
<1> USE DEF inShop
<1>4. \/ o = Moved(inShop)
      \/ o = Moved([inShop EXCEPT !.prior = TRUE])
      \/ \E C \in Choices(shelf, 5) :
           o = Moved([inShop EXCEPT !.state = "ANALYTICS_PRODUCT_SELECTION",
                                    !.candidates = C, !.pending = TRUE])
  BY DEF HandleQuery
<1> HIDE DEF inShop
<1> QED BY <1>1, <1>2, <1>3, <1>4, MovedSession

LEMMA IdleSession ==
  ASSUME NEW s, WellFormed(s), s.state = "IDLE", NEW t, NEW shelf \in Shelves,
         NEW o \in HandleIdle(s, t, shelf)
  PROVE  WellFormed(o.session)
<1>1. /\ WellFormed(In(s, "ADD_PRODUCT_NAME"))
      /\ WellFormed(In(s, "RECORD_SALE_PRODUCT"))
      /\ WellFormed(In(s, "CHECK_STOCK_PRODUCT"))
      /\ WellFormed([s EXCEPT !.shop = TRUE])
  BY DEF In, WellFormed, Sessions, SessionStates, HasNothing, NoQty
<1>2. \/ o = Moved(In(s, "ADD_PRODUCT_NAME"))
      \/ o = Moved(In(s, "RECORD_SALE_PRODUCT"))
      \/ o = Moved(In(s, "CHECK_STOCK_PRODUCT"))
      \/ o = Accepted([s EXCEPT !.shop = TRUE], DailyReport)
      \/ o \in HandleUnknown(s, t, shelf)
  <2>1. IntentOf(t) \in {"ADD_PRODUCT", "RECORD_SALE", "CHECK_STOCK",
                         "GENERATE_REPORT", "UNKNOWN"}
    BY DEF IntentOf
  <2> QED BY <2>1 DEF HandleIdle
<1>3. CASE o \in HandleUnknown(s, t, shelf)
  <2>1. o \in HandleQuery(s, shelf) \/ o = Refused(s)
    BY <1>3 DEF HandleUnknown
  <2> QED BY <2>1, QuerySession, RefusedSession
<1> QED BY <1>1, <1>2, <1>3, MovedSession, AcceptedSession

LEMMA AddProductSession ==
  ASSUME NEW s, WellFormed(s), NEW t, NEW o,
         \/ s.state = "ADD_PRODUCT_NAME" /\ o = HandleName(s, t)
         \/ s.state = "ADD_PRODUCT_PRICE" /\ o = HandlePrice(s, t)
         \/ s.state = "ADD_PRODUCT_QTY" /\ o = HandleQty(s, t)
         \/ s.state = "CONFIRM_ADD_PRODUCT" /\ o = HandleConfirm(s, t)
  PROVE  WellFormed(o.session)
<1>1. CASE s.state = "ADD_PRODUCT_NAME" /\ o = HandleName(s, t)
  <2>1. WellFormed([In(s, "ADD_PRODUCT_PRICE") EXCEPT !.name = TRUE])
    BY <1>1 DEF In, WellFormed, Sessions, SessionStates, HasNothing, NoQty
  <2> QED BY <1>1, <2>1, MovedSession, RefusedSession DEF HandleName
<1>2. CASE s.state = "ADD_PRODUCT_PRICE" /\ o = HandlePrice(s, t)
  <2>1. WellFormed([In(s, "ADD_PRODUCT_QTY") EXCEPT !.price = TRUE])
    BY <1>2 DEF In, WellFormed, Sessions, SessionStates, HasNothing, NoQty
  <2> QED BY <1>2, <2>1, MovedSession, RefusedSession, RaisedSession DEF HandlePrice
<1>3. CASE s.state = "ADD_PRODUCT_QTY" /\ o = HandleQty(s, t)
  <2>1. CASE Number(t) >= 0
    <3>1. Number(t) \in Nat
      BY <2>1, NumberType DEF NoQty
    <3>2. ASSUME NEW n \in Nat
          PROVE  WellFormed([In(s, "CONFIRM_ADD_PRODUCT") EXCEPT !.qty = n])
      <4> DEFINE at == In(s, "CONFIRM_ADD_PRODUCT")
      <4>1. /\ at \in Sessions /\ at.state = "CONFIRM_ADD_PRODUCT"
            /\ at.name /\ at.price /\ at.product = NoProduct
            /\ ~at.pending /\ at.candidates = {}
        BY <1>3 DEF In, WellFormed, Sessions, SessionStates
      <4> HIDE DEF at
      <4>2. WellFormed([at EXCEPT !.qty = n])
        BY <4>1 DEF WellFormed, Sessions, SessionStates
      <4> QED BY <4>2 DEF at
    <3> QED BY <1>3, <3>1, <3>2, MovedSession, RefusedSession DEF HandleQty
  <2>2. CASE ~(Number(t) >= 0)
    BY <1>3, <2>2, RefusedSession DEF HandleQty
  <2> QED BY <2>1, <2>2
<1>4. CASE s.state = "CONFIRM_ADD_PRODUCT" /\ o = HandleConfirm(s, t)
  BY <1>4, ClearIsWellFormed, MovedSession, AcceptedSession, RefusedSession
     DEF HandleConfirm
<1> QED BY <1>1, <1>2, <1>3, <1>4

(* A product is chosen: the session holds it and asks for the quantity. *)
LEMMA ChosenSession ==
  ASSUME NEW s \in Sessions, s.shop, ~s.pending, s.qty = NoQty, NEW p \in Products
  PROVE  /\ s.candidates = {} => WellFormed(Chosen(In(s, "RECORD_SALE_QTY"), p))
         /\ WellFormed([Chosen(In(s, "RECORD_SALE_QTY"), p) EXCEPT !.candidates = {}])
<1> DEFINE at == [In(s, "RECORD_SALE_QTY") EXCEPT !.product = p]
<1>1. /\ at \in Sessions /\ at.state = "RECORD_SALE_QTY" /\ at.shop /\ ~at.pending
      /\ at.qty = NoQty /\ at.product = p /\ at.candidates = s.candidates
  BY DEF In, Sessions, SessionStates
<1>2. p # NoProduct
  BY FSMAssumption
<1> HIDE DEF at
<1>3. /\ at.candidates = {} => WellFormed([at EXCEPT !.name = TRUE, !.price = TRUE])
      /\ WellFormed([at EXCEPT !.name = TRUE, !.price = TRUE, !.candidates = {}])
  BY <1>1, <1>2 DEF WellFormed, Sessions, SessionStates
<1> QED BY <1>1, <1>3 DEF Chosen, at

(* _get_shop_id is called before the search. *)
LEMMA RecordSaleNameSession ==
  ASSUME NEW s, WellFormed(s), s.state = "RECORD_SALE_PRODUCT", NEW shelf \in Shelves,
         NEW o \in HandleSaleProductName(s, shelf)
  PROVE  WellFormed(o.session)
<1> DEFINE inShop == [s EXCEPT !.shop = TRUE]
<1>1. /\ WellFormed(inShop) /\ inShop.state = "RECORD_SALE_PRODUCT" /\ inShop.shop
  BY ShopIsFree DEF WellFormed, Sessions
<1>2. shelf.live \subseteq Products
  BY DEF Shelves
<1>3. \/ o = Moved(inShop)
      \/ \E p \in shelf.live : o = Moved(Chosen(In(inShop, "RECORD_SALE_QTY"), p))
      \/ \E C \in Choices(shelf, 3) :
           o = Moved([In(inShop, "RECORD_SALE_PRODUCT_SELECTION") EXCEPT !.candidates = C])
  BY DEF HandleSaleProductName
<1> HIDE DEF inShop
<1>4. /\ inShop \in Sessions /\ ~inShop.pending /\ inShop.qty = NoQty
      /\ inShop.candidates = {}
  BY <1>1 DEF WellFormed, HasNothing
<1>5. ASSUME NEW C \in Choices(shelf, 3)
      PROVE  WellFormed([In(inShop, "RECORD_SALE_PRODUCT_SELECTION") EXCEPT
                           !.candidates = C])
  <2>1. C \subseteq Products /\ C # {}
    BY <1>2 DEF Choices
  <2> QED BY <1>1, <2>1 DEF In, WellFormed, Sessions, SessionStates, HasNothing, NoQty
<1>6. ASSUME NEW p \in shelf.live
      PROVE  WellFormed(Chosen(In(inShop, "RECORD_SALE_QTY"), p))
  BY <1>1, <1>2, <1>4, ChosenSession
<1> QED BY <1>1, <1>3, <1>5, <1>6, MovedSession

LEMMA RecordSaleSelectionSession ==
  ASSUME NEW s, WellFormed(s), s.state = "RECORD_SALE_PRODUCT_SELECTION", NEW t,
         NEW o \in HandleSaleProductSelection(s, t)
  PROVE  WellFormed(o.session)
<1>1. /\ s \in Sessions /\ s.shop /\ ~s.pending /\ s.qty = NoQty
      /\ s.candidates \subseteq Products
  BY DEF WellFormed, HasNothing, Sessions
<1>2. \/ o = Refused(s)
      \/ \E p \in s.candidates :
           o = Moved([Chosen(In(s, "RECORD_SALE_QTY"), p) EXCEPT !.candidates = {}])
  BY DEF HandleSaleProductSelection
<1>3. ASSUME NEW p \in s.candidates
      PROVE  WellFormed([Chosen(In(s, "RECORD_SALE_QTY"), p) EXCEPT !.candidates = {}])
  BY <1>1, ChosenSession
<1> QED BY <1>2, <1>3, MovedSession, RefusedSession

LEMMA SaleQtyOutcome ==
  ASSUME NEW s, NEW t, NEW shelf
  PROVE  LET o == HandleSaleProductQty(s, t, shelf) IN
         \/ o = Refused(s)
         \/ o = Raised(s)
         \/ /\ Number(t) \in Nat /\ Number(t) > 0
            /\ o = Moved([In(s, "CONFIRM_SALE") EXCEPT !.qty = Number(t)])
<1>1. CASE Number(t) <= 0
  <2>1. ~(Number(t) > 0)
    BY <1>1, NumberType DEF NoQty
  <2> QED BY <1>1, <2>1 DEF HandleSaleProductQty
<1>2. CASE ~(Number(t) <= 0)
  <2>1. Number(t) \in Nat /\ Number(t) > 0
    BY <1>2, NumberType DEF NoQty
  <2> QED BY <1>2, <2>1 DEF HandleSaleProductQty
<1> QED BY <1>1, <1>2

LEMMA RecordSaleQtySession ==
  ASSUME NEW s, WellFormed(s), s.state = "RECORD_SALE_QTY", NEW t, NEW shelf
  PROVE  WellFormed(HandleSaleProductQty(s, t, shelf).session)
<1>1. ASSUME NEW n \in Nat, n > 0
      PROVE  WellFormed([In(s, "CONFIRM_SALE") EXCEPT !.qty = n])
  <2> DEFINE at == In(s, "CONFIRM_SALE")
  <2>1. /\ at \in Sessions /\ at.state = "CONFIRM_SALE" /\ at.shop
        /\ at.product # NoProduct /\ at.name /\ at.price
        /\ ~at.pending /\ at.candidates = {}
    BY DEF In, WellFormed, Sessions, SessionStates
  <2> HIDE DEF at
  <2>2. WellFormed([at EXCEPT !.qty = n])
    BY <1>1, <2>1 DEF WellFormed, Sessions, SessionStates
  <2> QED BY <2>2 DEF at
<1> QED BY <1>1, SaleQtyOutcome, MovedSession, RefusedSession, RaisedSession

LEMMA ConfirmSaleSession ==
  ASSUME NEW s, WellFormed(s), NEW t, NEW shelf
  PROVE  WellFormed(HandleConfirmSale(s, t, shelf).session)
<1>1. HandleConfirmSale(s, t, shelf)
        \in {Moved(Clear(s)), Refused(s), Raised(s),
             Accepted(Clear(s), Sale(s.product, s.qty))}
  BY DEF HandleConfirmSale
<1> QED BY <1>1, ClearIsWellFormed, AcceptedSession, MovedSession, RefusedSession,
           RaisedSession

LEMMA InventorySession ==
  ASSUME NEW s, WellFormed(s), NEW p, NEW shelf
  PROVE  WellFormed(Inventory(s, p, shelf).session)
BY ClearIsWellFormed, MovedSession, RaisedSession DEF Inventory

LEMMA StockNameSession ==
  ASSUME NEW s, WellFormed(s), s.state = "CHECK_STOCK_PRODUCT", NEW t,
         NEW shelf \in Shelves, NEW o \in HandleStockName(s, t, shelf)
  PROVE  WellFormed(o.session)
<1> DEFINE inShop == [s EXCEPT !.shop = TRUE]
<1>1. WellFormed(inShop) /\ inShop.state = "CHECK_STOCK_PRODUCT"
  BY ShopIsFree
<1>2. \/ o = Refused(s)
      \/ o = Moved([inShop EXCEPT !.candidates = {}])
      \/ \E p \in shelf.live : o = Inventory(s, p, shelf)
      \/ \E C \in Choices(shelf, 3) :
           o = Moved([In(inShop, "CHECK_STOCK_PRODUCT_SELECTION") EXCEPT !.candidates = C])
  BY DEF HandleStockName
<1> HIDE DEF inShop
<1>3. WellFormed([inShop EXCEPT !.candidates = {}])
  BY <1>1 DEF WellFormed, Sessions, HasNothing, NoQty
<1>4. ASSUME NEW C \in Choices(shelf, 3)
      PROVE  WellFormed([In(inShop, "CHECK_STOCK_PRODUCT_SELECTION") EXCEPT
                           !.candidates = C])
  <2>1. C \subseteq Products /\ C # {}
    BY DEF Choices, Shelves
  <2> QED BY <1>1, <2>1 DEF In, WellFormed, Sessions, SessionStates, HasNothing, NoQty
<1> QED BY <1>2, <1>3, <1>4, MovedSession, RefusedSession, InventorySession

LEMMA StockSelectionSession ==
  ASSUME NEW s, WellFormed(s), NEW t, NEW shelf,
         NEW o \in HandleStockProductSelection(s, t, shelf)
  PROVE  WellFormed(o.session)
<1>1. o = Refused(s) \/ \E p \in s.candidates : o = Inventory(s, p, shelf)
  BY DEF HandleStockProductSelection
<1> QED BY <1>1, RefusedSession, InventorySession

LEMMA AnalyticsSelectionSession ==
  ASSUME NEW s, WellFormed(s), s.state = "ANALYTICS_PRODUCT_SELECTION", NEW t,
         NEW o \in HandleProductSelection(s, t)
  PROVE  WellFormed(o.session)
<1> DEFINE over == [In(s, "IDLE") EXCEPT !.pending = FALSE, !.candidates = {}]
<1>1. WellFormed(over) /\ over.state = "IDLE"
  BY DEF In, WellFormed, Sessions, SessionStates, HasNothing, NoQty
<1>2. \/ o = Refused(s) \/ o = Moved(Clear(s))
      \/ o = Moved(over) \/ o = Moved([over EXCEPT !.prior = TRUE])
  BY DEF HandleProductSelection
<1> HIDE DEF over
<1>3. WellFormed([over EXCEPT !.prior = TRUE])
  BY <1>1 DEF WellFormed, Sessions, HasNothing, NoQty
<1> QED BY <1>1, <1>2, <1>3, MovedSession, RefusedSession, ClearIsWellFormed

-----------------------------------------------------------------------------
(* The engine *)

LEMMA ProcessMessageSession ==
  ASSUME NEW s, WellFormed(s), NEW t, NEW shelf \in Shelves,
         NEW o \in ProcessMessage(s, t, shelf)
  PROVE  WellFormed(o.session)
<1>1. CASE Override(t)
  <2>1. o = Moved(Clear(s))
    BY <1>1 DEF ProcessMessage
  <2> QED BY <2>1, ClearIsWellFormed, MovedSession
<1>2. CASE ~Override(t)
  <2>1. s.state \in SessionStates
    BY DEF WellFormed, Sessions
  <2>2. \/ s.state = "IDLE" /\ o \in HandleIdle(s, t, shelf)
        \/ s.state = "ADD_PRODUCT_NAME" /\ o = HandleName(s, t)
        \/ s.state = "ADD_PRODUCT_PRICE" /\ o = HandlePrice(s, t)
        \/ s.state = "ADD_PRODUCT_QTY" /\ o = HandleQty(s, t)
        \/ s.state = "CONFIRM_ADD_PRODUCT" /\ o = HandleConfirm(s, t)
        \/ s.state = "RECORD_SALE_PRODUCT" /\ o \in HandleSaleProductName(s, shelf)
        \/ /\ s.state = "RECORD_SALE_PRODUCT_SELECTION"
           /\ o \in HandleSaleProductSelection(s, t)
        \/ s.state = "RECORD_SALE_QTY" /\ o = HandleSaleProductQty(s, t, shelf)
        \/ s.state = "CONFIRM_SALE" /\ o = HandleConfirmSale(s, t, shelf)
        \/ s.state = "CHECK_STOCK_PRODUCT" /\ o \in HandleStockName(s, t, shelf)
        \/ /\ s.state = "CHECK_STOCK_PRODUCT_SELECTION"
           /\ o \in HandleStockProductSelection(s, t, shelf)
        \/ /\ s.state = "ANALYTICS_PRODUCT_SELECTION"
           /\ o \in HandleProductSelection(s, t)
    BY <1>2, <2>1 DEF ProcessMessage, SessionStates
  <2> QED BY <2>2, IdleSession, AddProductSession, RecordSaleNameSession,
             RecordSaleSelectionSession, RecordSaleQtySession, ConfirmSaleSession,
             StockNameSession, StockSelectionSession, AnalyticsSelectionSession
<1> QED BY <1>1, <1>2

-----------------------------------------------------------------------------
(* What a text may do to the tables *)

(* A sale is only made of the session at CONFIRM_SALE, and ends it; a       *)
(* product is only created at CONFIRM_ADD_PRODUCT, with the quantity that   *)
(* the session holds, and ends the flow.                                    *)
EffectOf(s, o) ==
  /\ o.effect.op = "sell" =>
       /\ s.state = "CONFIRM_SALE"
       /\ o.effect.product = s.product /\ o.effect.amount = s.qty
       /\ o.session.state = "IDLE"
  /\ o.effect.op = "add" =>
       /\ s.state = "CONFIRM_ADD_PRODUCT"
       /\ o.effect.amount = s.qty
       /\ o.session = [Clear(s) EXCEPT !.shop = TRUE]

LEMMA QuietOutcomes ==
  ASSUME NEW s, NEW r
  PROVE  EffectOf(s, Moved(r)) /\ EffectOf(s, Refused(r)) /\ EffectOf(s, Raised(r))
<1>1. /\ Moved(r).effect = NoEffect /\ Raised(r).effect = NoEffect
      /\ Refused(r).effect = NoEffect
  BY DEF Moved, Accepted, Raised, Refused
<1>2. NoEffect.op = "none"
  BY DEF NoEffect
<1> QED BY <1>1, <1>2 DEF EffectOf

LEMMA IdleEffect ==
  ASSUME NEW s, NEW t, NEW shelf, NEW o \in HandleIdle(s, t, shelf)
  PROVE  EffectOf(s, o)
<1>1. IntentOf(t) \in {"ADD_PRODUCT", "RECORD_SALE", "CHECK_STOCK",
                       "GENERATE_REPORT", "UNKNOWN"}
  BY DEF IntentOf
<1>2. CASE IntentOf(t) = "UNKNOWN"
  <2>1. o \in HandleUnknown(s, t, shelf)
    BY <1>2 DEF HandleIdle
  <2>2. o = Refused(s) \/ \E r : o = Moved(r)
    BY <2>1 DEF HandleUnknown, HandleQuery
  <2> QED BY <2>2, QuietOutcomes
<1>3. CASE IntentOf(t) = "GENERATE_REPORT"
  <2>1. o.effect = DailyReport
    BY <1>3 DEF HandleIdle, Accepted
  <2> QED BY <2>1 DEF EffectOf, DailyReport
<1>4. CASE IntentOf(t) \in {"ADD_PRODUCT", "RECORD_SALE", "CHECK_STOCK"}
  <2>1. \E r : o = Moved(r)
    BY <1>4 DEF HandleIdle
  <2> QED BY <2>1, QuietOutcomes
<1> QED BY <1>1, <1>2, <1>3, <1>4

LEMMA ConfirmEffect ==
  ASSUME NEW s, NEW t, s.state = "CONFIRM_ADD_PRODUCT"
  PROVE  EffectOf(s, HandleConfirm(s, t))
<1>1. \/ HandleConfirm(s, t) \in {Moved(Clear(s)), Refused(s)}
      \/ HandleConfirm(s, t) = Accepted([Clear(s) EXCEPT !.shop = TRUE], Addition(s.qty))
  BY DEF HandleConfirm
<1> DEFINE c == [Clear(s) EXCEPT !.shop = TRUE]
           done == Accepted(c, Addition(s.qty))
<1>2. done.effect.op = "add" /\ done.effect.amount = s.qty
  BY DEF Accepted, Addition
<1>3. done.session = c
  <2>1. done.session = [c EXCEPT !.errors = 0]
    BY DEF Accepted
  <2>2. c = [NewSession EXCEPT !.shop = TRUE]
    BY DEF Clear, NewSession
  <2>3. [c EXCEPT !.errors = 0] = c
    BY <2>2 DEF NewSession
  <2> QED BY <2>1, <2>3
<1>4. EffectOf(s, done)
  BY <1>2, <1>3 DEF EffectOf
<1> QED BY <1>1, <1>4, QuietOutcomes

LEMMA ConfirmSaleEffect ==
  ASSUME NEW s, WellFormed(s), NEW t, NEW shelf, s.state = "CONFIRM_SALE"
  PROVE  EffectOf(s, HandleConfirmSale(s, t, shelf))
<1> DEFINE done == Accepted(Clear(s), Sale(s.product, s.qty))
<1>1. HandleConfirmSale(s, t, shelf) \in {Moved(Clear(s)), Refused(s), Raised(s), done}
  BY DEF HandleConfirmSale
<1>2. /\ done.effect.op = "sell" /\ done.effect.product = s.product
      /\ done.effect.amount = s.qty
  BY DEF Accepted, Sale
<1>3. done.session.state = "IDLE"
  <2> DEFINE c == Clear(s)
  <2>1. c \in Sessions /\ c.state = "IDLE"
    BY ClearIsWellFormed DEF WellFormed
  <2> HIDE DEF c
  <2>2. [c EXCEPT !.errors = 0].state = "IDLE"
    BY <2>1 DEF Sessions
  <2> QED BY <2>2 DEF Accepted, c
<1> HIDE DEF done
<1>4. EffectOf(s, done)
  BY <1>2, <1>3 DEF EffectOf
<1> QED BY <1>1, <1>4, QuietOutcomes

LEMMA ProcessMessageEffect ==
  ASSUME NEW s, WellFormed(s), NEW t, NEW shelf \in Shelves,
         NEW o \in ProcessMessage(s, t, shelf)
  PROVE  EffectOf(s, o)
<1>1. s.state \in SessionStates
  BY DEF WellFormed, Sessions
<1>2. \/ s.state = "IDLE" /\ o \in HandleIdle(s, t, shelf)
      \/ s.state = "CONFIRM_ADD_PRODUCT" /\ o = HandleConfirm(s, t)
      \/ s.state = "CONFIRM_SALE" /\ o = HandleConfirmSale(s, t, shelf)
      \/ o = Refused(s) \/ o = Raised(s) \/ \E r : o = Moved(r)
  <2>1. CASE Override(t)
    BY <2>1 DEF ProcessMessage
  <2>2. CASE ~Override(t) /\ s.state \in {"IDLE", "CONFIRM_ADD_PRODUCT", "CONFIRM_SALE"}
    BY <2>2 DEF ProcessMessage
  <2>3. CASE ~Override(t) /\ s.state = "ADD_PRODUCT_NAME"
    BY <2>3 DEF ProcessMessage, HandleName
  <2>4. CASE ~Override(t) /\ s.state = "ADD_PRODUCT_PRICE"
    BY <2>4 DEF ProcessMessage, HandlePrice
  <2>5. CASE ~Override(t) /\ s.state = "ADD_PRODUCT_QTY"
    BY <2>5 DEF ProcessMessage, HandleQty
  <2>6. CASE ~Override(t) /\ s.state = "RECORD_SALE_PRODUCT"
    BY <2>6 DEF ProcessMessage, HandleSaleProductName
  <2>7. CASE ~Override(t) /\ s.state = "RECORD_SALE_PRODUCT_SELECTION"
    BY <2>7 DEF ProcessMessage, HandleSaleProductSelection
  <2>8. CASE ~Override(t) /\ s.state = "RECORD_SALE_QTY"
    <3>1. o = HandleSaleProductQty(s, t, shelf)
      BY <2>8 DEF ProcessMessage
    <3> QED BY <3>1, SaleQtyOutcome
  <2>9. CASE ~Override(t) /\ s.state = "CHECK_STOCK_PRODUCT"
    BY <2>9 DEF ProcessMessage, HandleStockName, Inventory
  <2>10. CASE ~Override(t) /\ s.state = "CHECK_STOCK_PRODUCT_SELECTION"
    BY <2>10 DEF ProcessMessage, HandleStockProductSelection, Inventory
  <2>11. CASE ~Override(t) /\ s.state = "ANALYTICS_PRODUCT_SELECTION"
    BY <2>11 DEF ProcessMessage, HandleProductSelection
  <2> QED BY <1>1, <2>1, <2>2, <2>3, <2>4, <2>5, <2>6, <2>7, <2>8, <2>9, <2>10, <2>11
          DEF SessionStates
<1> QED BY <1>2, IdleEffect, ConfirmEffect, ConfirmSaleEffect, QuietOutcomes

-----------------------------------------------------------------------------
(* Where a text may move the merchant, and what the outcome is *)

Effects ==
  [op : {"none", "sell", "add", "report"}, product : Products \union {NoProduct},
   amount : Nat]

EdgeOf(s, r) == r.state = s.state \/ <<s.state, r.state>> \in Edges

StepOf(s, o) ==
  /\ o.session \in Sessions /\ EdgeOf(s, o.session)
  /\ o.reply \in {"accepted", "refused", "none"}
  /\ o.effect \in Effects
  /\ o.effect.op = "sell" => o.effect.product \in Products
  /\ o.reply = "none" => o.effect = NoEffect
  /\ o.reply = "refused" => o = Refused(s)
  /\ o = [session |-> o.session, reply |-> o.reply, effect |-> o.effect]

LEMMA AcceptedStep ==
  ASSUME NEW s, NEW r \in Sessions, EdgeOf(s, r), NEW e \in Effects,
         e.op = "sell" => e.product \in Products
  PROVE  StepOf(s, Accepted(r, e))
<1>1. [r EXCEPT !.errors = 0] \in Sessions /\ [r EXCEPT !.errors = 0].state = r.state
  BY FSMAssumption DEF Sessions
<1> QED BY <1>1 DEF StepOf, EdgeOf, Accepted

LEMMA MovedStep ==
  ASSUME NEW s, NEW r \in Sessions, EdgeOf(s, r)
  PROVE  StepOf(s, Moved(r))
<1>1. NoEffect \in Effects /\ NoEffect.op # "sell"
  BY DEF NoEffect, Effects
<1> QED BY <1>1, AcceptedStep DEF Moved

(* Every state leads back to IDLE. *)
LEMMA ClearEdge ==
  ASSUME NEW s, WellFormed(s)
  PROVE  /\ Clear(s) \in Sessions /\ EdgeOf(s, Clear(s))
         /\ [Clear(s) EXCEPT !.shop = TRUE] \in Sessions
         /\ EdgeOf(s, [Clear(s) EXCEPT !.shop = TRUE])
<1>1. Clear(s) \in Sessions /\ Clear(s).state = "IDLE" /\ s.state \in SessionStates
  BY ClearIsWellFormed DEF WellFormed, Sessions
<1>2. /\ [Clear(s) EXCEPT !.shop = TRUE] \in Sessions
      /\ [Clear(s) EXCEPT !.shop = TRUE].state = "IDLE"
  BY <1>1 DEF Sessions
<1> QED BY <1>1, <1>2 DEF EdgeOf, Edges

LEMMA RefusedStep ==
  ASSUME NEW s, WellFormed(s)
  PROVE  StepOf(s, Refused(s))
<1>1. NoEffect \in Effects /\ NoEffect.op # "sell"
  BY DEF NoEffect, Effects
<1>2. CASE s.errors + 1 >= MaxErrors
  BY <1>1, <1>2, ClearEdge DEF Refused, StepOf
<1>3. CASE ~ (s.errors + 1 >= MaxErrors)
  <2>1. s \in Sessions
    BY DEF WellFormed
  <2>2. /\ [s EXCEPT !.errors = @ + 1] \in Sessions
        /\ [s EXCEPT !.errors = @ + 1].state = s.state
    BY <1>3, <2>1, FSMAssumption DEF Sessions
  <2> QED BY <1>1, <1>3, <2>2 DEF Refused, StepOf, EdgeOf
<1> QED BY <1>2, <1>3

LEMMA RaisedStep ==
  ASSUME NEW s, WellFormed(s)
  PROVE  StepOf(s, Raised(s))
<1>1. NoEffect \in Effects /\ NoEffect.op # "sell"
  BY DEF NoEffect, Effects
<1> QED BY <1>1 DEF Raised, StepOf, EdgeOf, WellFormed

LEMMA IdleStep ==
  ASSUME NEW s, WellFormed(s), s.state = "IDLE", NEW t, NEW shelf \in Shelves,
         NEW o \in HandleIdle(s, t, shelf)
  PROVE  StepOf(s, o)
<1>1. s \in Sessions
  BY DEF WellFormed
<1> DEFINE inShop == [s EXCEPT !.shop = TRUE]
           asked == [inShop EXCEPT !.prior = TRUE]
           offered(C) == [inShop EXCEPT !.state = "ANALYTICS_PRODUCT_SELECTION",
                                        !.candidates = C, !.pending = TRUE]
<1>2. inShop \in Sessions /\ inShop.state = "IDLE" /\ asked \in Sessions
      /\ asked.state = "IDLE"
  BY <1>1 DEF Sessions
<1>3. ASSUME NEW C \in Choices(shelf, 5)
      PROVE  offered(C) \in Sessions /\ offered(C).state = "ANALYTICS_PRODUCT_SELECTION"
  <2>1. C \subseteq Products
    BY DEF Choices, Shelves
  <2> HIDE DEF inShop
  <2> QED BY <1>2, <2>1 DEF Sessions, SessionStates
<1>4. ASSUME NEW x \in {"ADD_PRODUCT_NAME", "RECORD_SALE_PRODUCT", "CHECK_STOCK_PRODUCT"}
      PROVE  In(s, x) \in Sessions /\ EdgeOf(s, In(s, x))
  BY <1>1 DEF In, Sessions, SessionStates, EdgeOf, Edges
<1>5. \/ \E x \in {"ADD_PRODUCT_NAME", "RECORD_SALE_PRODUCT", "CHECK_STOCK_PRODUCT"} :
           o = Moved(In(s, x))
      \/ o = Accepted(inShop, DailyReport)
      \/ o = Moved(inShop) \/ o = Moved(asked) \/ o = Refused(s)
      \/ \E C \in Choices(shelf, 5) : o = Moved(offered(C))
  <2>1. IntentOf(t) \in {"ADD_PRODUCT", "RECORD_SALE", "CHECK_STOCK",
                         "GENERATE_REPORT", "UNKNOWN"}
    BY DEF IntentOf
  <2> QED BY <2>1 DEF HandleIdle, HandleUnknown, HandleQuery
<1>6. DailyReport \in Effects /\ DailyReport.op # "sell"
  BY DEF DailyReport, Effects
<1> HIDE DEF inShop, asked, offered
<1>7. EdgeOf(s, inShop) /\ EdgeOf(s, asked)
  BY <1>2 DEF EdgeOf
<1>8. \A C \in Choices(shelf, 5) : EdgeOf(s, offered(C))
  BY <1>3 DEF EdgeOf, Edges
<1> QED BY <1>2, <1>3, <1>4, <1>5, <1>6, <1>7, <1>8, MovedStep, AcceptedStep, RefusedStep

LEMMA AddProductStep ==
  ASSUME NEW s, WellFormed(s), NEW t, NEW o,
         \/ s.state = "ADD_PRODUCT_NAME" /\ o = HandleName(s, t)
         \/ s.state = "ADD_PRODUCT_PRICE" /\ o = HandlePrice(s, t)
         \/ s.state = "ADD_PRODUCT_QTY" /\ o = HandleQty(s, t)
         \/ s.state = "CONFIRM_ADD_PRODUCT" /\ o = HandleConfirm(s, t)
  PROVE  StepOf(s, o)
<1>1. s \in Sessions
  BY DEF WellFormed
<1>2. CASE s.state = "ADD_PRODUCT_NAME" /\ o = HandleName(s, t)
  <2> DEFINE r == [In(s, "ADD_PRODUCT_PRICE") EXCEPT !.name = TRUE]
  <2>1. r \in Sessions /\ EdgeOf(s, r)
    BY <1>1, <1>2 DEF In, Sessions, SessionStates, EdgeOf, Edges
  <2> QED BY <1>2, <2>1, MovedStep, RefusedStep DEF HandleName
<1>3. CASE s.state = "ADD_PRODUCT_PRICE" /\ o = HandlePrice(s, t)
  <2> DEFINE r == [In(s, "ADD_PRODUCT_QTY") EXCEPT !.price = TRUE]
  <2>1. r \in Sessions /\ EdgeOf(s, r)
    BY <1>1, <1>3 DEF In, Sessions, SessionStates, EdgeOf, Edges
  <2> QED BY <1>3, <2>1, MovedStep, RefusedStep, RaisedStep DEF HandlePrice
<1>4. CASE s.state = "ADD_PRODUCT_QTY" /\ o = HandleQty(s, t)
  <2> DEFINE r == [In(s, "CONFIRM_ADD_PRODUCT") EXCEPT !.qty = Number(t)]
  <2>1. Number(t) \in Nat \union {NoQty}
    BY NumberType
  <2>2. r \in Sessions /\ EdgeOf(s, r)
    BY <1>1, <1>4, <2>1 DEF In, Sessions, SessionStates, EdgeOf, Edges
  <2>3. o = Moved(r) \/ o = Refused(s)
    BY <1>4 DEF HandleQty
  <2> QED BY <2>2, <2>3, MovedStep, RefusedStep
<1>5. CASE s.state = "CONFIRM_ADD_PRODUCT" /\ o = HandleConfirm(s, t)
  <2>1. s.qty \in Nat
    BY <1>1, <1>5 DEF WellFormed, Sessions, NoQty
  <2>2. Addition(s.qty) \in Effects /\ Addition(s.qty).op # "sell"
    BY <2>1 DEF Addition, Effects
  <2>3. \/ o = Moved(Clear(s)) \/ o = Refused(s)
        \/ o = Accepted([Clear(s) EXCEPT !.shop = TRUE], Addition(s.qty))
    BY <1>5 DEF HandleConfirm
  <2> QED BY <2>2, <2>3, ClearEdge, MovedStep, AcceptedStep, RefusedStep
<1> QED BY <1>2, <1>3, <1>4, <1>5

LEMMA RecordSaleStep ==
  ASSUME NEW s, WellFormed(s), NEW t, NEW shelf \in Shelves, NEW o,
         \/ s.state = "RECORD_SALE_PRODUCT" /\ o \in HandleSaleProductName(s, shelf)
         \/ s.state = "RECORD_SALE_PRODUCT_SELECTION" /\ o \in HandleSaleProductSelection(s, t)
         \/ s.state = "RECORD_SALE_QTY" /\ o = HandleSaleProductQty(s, t, shelf)
         \/ s.state = "CONFIRM_SALE" /\ o = HandleConfirmSale(s, t, shelf)
  PROVE  StepOf(s, o)
<1>1. s \in Sessions /\ shelf.live \subseteq Products
  BY DEF WellFormed, Shelves
<1>2. CASE s.state = "RECORD_SALE_PRODUCT" /\ o \in HandleSaleProductName(s, shelf)
  <2> DEFINE inShop == [s EXCEPT !.shop = TRUE]
             chosen(p) == Chosen(In(inShop, "RECORD_SALE_QTY"), p)
             offered(C) == [In(inShop, "RECORD_SALE_PRODUCT_SELECTION") EXCEPT !.candidates = C]
  <2>1. inShop \in Sessions /\ inShop.state = "RECORD_SALE_PRODUCT"
    BY <1>1, <1>2 DEF Sessions
  <2>2. \/ o = Moved(inShop)
        \/ \E p \in shelf.live : o = Moved(chosen(p))
        \/ \E C \in Choices(shelf, 3) : o = Moved(offered(C))
    BY <1>2 DEF HandleSaleProductName
  <2> HIDE DEF inShop
  <2>3. ASSUME NEW p \in shelf.live
        PROVE  chosen(p) \in Sessions /\ EdgeOf(s, chosen(p))
    BY <1>1, <1>2, <2>1 DEF Chosen, In, Sessions, SessionStates, EdgeOf, Edges
  <2>4. ASSUME NEW C \in Choices(shelf, 3)
        PROVE  offered(C) \in Sessions /\ EdgeOf(s, offered(C))
    <3>1. C \subseteq Products
      BY <1>1 DEF Choices
    <3> QED BY <1>2, <2>1, <3>1 DEF In, Sessions, SessionStates, EdgeOf, Edges
  <2>5. EdgeOf(s, inShop)
    BY <1>2, <2>1 DEF EdgeOf
  <2> HIDE DEF chosen, offered
  <2> QED BY <2>1, <2>2, <2>3, <2>4, <2>5, MovedStep
<1>3. CASE /\ s.state = "RECORD_SALE_PRODUCT_SELECTION"
           /\ o \in HandleSaleProductSelection(s, t)
  <2> DEFINE chosen(p) == [Chosen(In(s, "RECORD_SALE_QTY"), p) EXCEPT !.candidates = {}]
  <2>1. o = Refused(s) \/ \E p \in s.candidates : o = Moved(chosen(p))
    BY <1>3 DEF HandleSaleProductSelection
  <2>2. ASSUME NEW p \in s.candidates
        PROVE  chosen(p) \in Sessions /\ EdgeOf(s, chosen(p))
    BY <1>1, <1>3 DEF Chosen, In, Sessions, SessionStates, EdgeOf, Edges
  <2> HIDE DEF chosen
  <2> QED BY <2>1, <2>2, MovedStep, RefusedStep
<1>4. CASE s.state = "RECORD_SALE_QTY" /\ o = HandleSaleProductQty(s, t, shelf)
  <2> DEFINE r == [In(s, "CONFIRM_SALE") EXCEPT !.qty = Number(t)]
  <2>1. \/ o = Refused(s) \/ o = Raised(s) \/ (Number(t) \in Nat /\ o = Moved(r))
    BY <1>4, SaleQtyOutcome
  <2>2. Number(t) \in Nat => r \in Sessions /\ EdgeOf(s, r)
    BY <1>1, <1>4 DEF In, Sessions, SessionStates, EdgeOf, Edges
  <2> HIDE DEF r
  <2> QED BY <2>1, <2>2, MovedStep, RefusedStep, RaisedStep
<1>5. CASE s.state = "CONFIRM_SALE" /\ o = HandleConfirmSale(s, t, shelf)
  <2>1. s.product \in Products /\ s.qty \in Nat
    BY <1>1, <1>5 DEF WellFormed, Sessions, NoQty
  <2>2. Sale(s.product, s.qty) \in Effects /\ Sale(s.product, s.qty).product \in Products
    BY <2>1 DEF Sale, Effects
  <2>3. \/ o = Moved(Clear(s)) \/ o = Refused(s) \/ o = Raised(s)
        \/ o = Accepted(Clear(s), Sale(s.product, s.qty))
    BY <1>5 DEF HandleConfirmSale
  <2> QED BY <2>2, <2>3, ClearEdge, MovedStep, AcceptedStep, RefusedStep, RaisedStep
<1> QED BY <1>2, <1>3, <1>4, <1>5

LEMMA InventoryStep ==
  ASSUME NEW s, WellFormed(s), NEW p, NEW shelf
  PROVE  StepOf(s, Inventory(s, p, shelf))
BY ClearEdge, MovedStep, RaisedStep DEF Inventory

LEMMA StockStep ==
  ASSUME NEW s, WellFormed(s), NEW t, NEW shelf \in Shelves, NEW o,
         \/ s.state = "CHECK_STOCK_PRODUCT" /\ o \in HandleStockName(s, t, shelf)
         \/ /\ s.state = "CHECK_STOCK_PRODUCT_SELECTION"
            /\ o \in HandleStockProductSelection(s, t, shelf)
  PROVE  StepOf(s, o)
<1>1. CASE s.state = "CHECK_STOCK_PRODUCT" /\ o \in HandleStockName(s, t, shelf)
  <2> DEFINE inShop == [s EXCEPT !.shop = TRUE]
             none == [inShop EXCEPT !.candidates = {}]
             offered(C) == [In(inShop, "CHECK_STOCK_PRODUCT_SELECTION") EXCEPT !.candidates = C]
  <2>1. inShop \in Sessions /\ inShop.state = "CHECK_STOCK_PRODUCT"
    BY <1>1 DEF WellFormed, Sessions
  <2>2. \/ o = Refused(s) \/ o = Moved(none)
        \/ \E p \in shelf.live : o = Inventory(s, p, shelf)
        \/ \E C \in Choices(shelf, 3) : o = Moved(offered(C))
    BY <1>1 DEF HandleStockName
  <2> HIDE DEF inShop
  <2>3. none \in Sessions /\ EdgeOf(s, none)
    BY <1>1, <2>1 DEF Sessions, EdgeOf
  <2>4. ASSUME NEW C \in Choices(shelf, 3)
        PROVE  offered(C) \in Sessions /\ EdgeOf(s, offered(C))
    <3>1. C \subseteq Products
      BY DEF Choices, Shelves
    <3> QED BY <1>1, <2>1, <3>1 DEF In, Sessions, SessionStates, EdgeOf, Edges
  <2> HIDE DEF none, offered
  <2> QED BY <2>2, <2>3, <2>4, MovedStep, RefusedStep, InventoryStep
<1>2. CASE /\ s.state = "CHECK_STOCK_PRODUCT_SELECTION"
           /\ o \in HandleStockProductSelection(s, t, shelf)
  <2>1. o = Refused(s) \/ \E p \in s.candidates : o = Inventory(s, p, shelf)
    BY <1>2 DEF HandleStockProductSelection
  <2> QED BY <2>1, RefusedStep, InventoryStep
<1> QED BY <1>1, <1>2

LEMMA AnalyticsStep ==
  ASSUME NEW s, WellFormed(s), s.state = "ANALYTICS_PRODUCT_SELECTION", NEW t,
         NEW o \in HandleProductSelection(s, t)
  PROVE  StepOf(s, o)
<1> DEFINE over == [In(s, "IDLE") EXCEPT !.pending = FALSE, !.candidates = {}]
           asked == [over EXCEPT !.prior = TRUE]
<1>1. over \in Sessions /\ over.state = "IDLE"
  BY DEF WellFormed, In, Sessions, SessionStates
<1>2. o = Refused(s) \/ o = Moved(Clear(s)) \/ o = Moved(over) \/ o = Moved(asked)
  BY DEF HandleProductSelection
<1> HIDE DEF over
<1>3. asked \in Sessions /\ asked.state = "IDLE"
  BY <1>1 DEF Sessions
<1> HIDE DEF asked
<1>4. EdgeOf(s, over) /\ EdgeOf(s, asked)
  BY <1>1, <1>3 DEF EdgeOf, Edges, SessionStates
<1> QED BY <1>1, <1>2, <1>3, <1>4, ClearEdge, MovedStep, RefusedStep

LEMMA ProcessMessageStep ==
  ASSUME NEW s, WellFormed(s), NEW t, NEW shelf \in Shelves,
         NEW o \in ProcessMessage(s, t, shelf)
  PROVE  StepOf(s, o)
<1>1. CASE Override(t)
  <2>1. o = Moved(Clear(s))
    BY <1>1 DEF ProcessMessage
  <2> QED BY <2>1, ClearEdge, MovedStep
<1>2. CASE ~Override(t)
  <2>1. s.state \in SessionStates
    BY DEF WellFormed, Sessions
  <2>2. \/ s.state = "IDLE" /\ o \in HandleIdle(s, t, shelf)
        \/ s.state = "ADD_PRODUCT_NAME" /\ o = HandleName(s, t)
        \/ s.state = "ADD_PRODUCT_PRICE" /\ o = HandlePrice(s, t)
        \/ s.state = "ADD_PRODUCT_QTY" /\ o = HandleQty(s, t)
        \/ s.state = "CONFIRM_ADD_PRODUCT" /\ o = HandleConfirm(s, t)
        \/ s.state = "RECORD_SALE_PRODUCT" /\ o \in HandleSaleProductName(s, shelf)
        \/ /\ s.state = "RECORD_SALE_PRODUCT_SELECTION"
           /\ o \in HandleSaleProductSelection(s, t)
        \/ s.state = "RECORD_SALE_QTY" /\ o = HandleSaleProductQty(s, t, shelf)
        \/ s.state = "CONFIRM_SALE" /\ o = HandleConfirmSale(s, t, shelf)
        \/ s.state = "CHECK_STOCK_PRODUCT" /\ o \in HandleStockName(s, t, shelf)
        \/ /\ s.state = "CHECK_STOCK_PRODUCT_SELECTION"
           /\ o \in HandleStockProductSelection(s, t, shelf)
        \/ /\ s.state = "ANALYTICS_PRODUCT_SELECTION"
           /\ o \in HandleProductSelection(s, t)
    BY <1>2, <2>1 DEF ProcessMessage, SessionStates
  <2> QED BY <2>2, IdleStep, AddProductStep, RecordSaleStep, StockStep, AnalyticsStep
<1> QED BY <1>1, <1>2

(* Who changes the tables is answered. *)
LEMMA ProcessMessageAnswers ==
  ASSUME NEW s, WellFormed(s), NEW t, NEW shelf \in Shelves,
         NEW o \in ProcessMessage(s, t, shelf), o.effect.op \in {"sell", "add"}
  PROVE  o.reply # "none"
BY ProcessMessageStep DEF StepOf, NoEffect

-----------------------------------------------------------------------------
(* The invariant *)

(* While a product waits for its stock, the session is at its prompt. *)
DialogueInv ==
  /\ Ledger!LedgerTypeOK
  /\ WellFormed(session)
  /\ adding \in Products \union {NoProduct}
  /\ adding # NoProduct => session.state = "CONFIRM_ADD_PRODUCT"

LEMMA ShelfType ==
  ASSUME DialogueInv
  PROVE  Shelf \in Shelves
BY DEF DialogueInv, Ledger!LedgerTypeOK, Shelf, Shelves

LEMMA InitInv ==
  ASSUME Init
  PROVE  DialogueInv
<1>1. Ledger!LedgerTypeOK
  BY DialogueAssumption DEF Init, Ledger!Init, Ledger!LedgerTypeOK
<1> QED BY <1>1, NewIsWellFormed DEF Init, DialogueInv

(* The operations on the tables keep their types. *)
LEMMA CreateType ==
  ASSUME Ledger!LedgerTypeOK, NEW p \in Products, Ledger!Create(p)
  PROVE  Ledger!LedgerTypeOK'
BY DEF Ledger!Create, Ledger!LedgerTypeOK

LEMMA ReceiveType ==
  ASSUME Ledger!LedgerTypeOK, NEW p \in Products, NEW n \in Nat, Ledger!Receive(p, n)
  PROVE  Ledger!LedgerTypeOK'
<1>1. MaxStock \in Nat
  BY DialogueAssumption
<1>2. quantity[p] \in 0..MaxStock /\ received[p] \in Nat
  BY DEF Ledger!LedgerTypeOK
<1>3. quantity[p] + n \in 0..MaxStock /\ received[p] + n \in Nat
  BY <1>1, <1>2 DEF Ledger!Receive
<1> QED BY <1>3 DEF Ledger!Receive, Ledger!LedgerTypeOK

LEMMA SellType ==
  ASSUME Ledger!LedgerTypeOK, NEW p \in Products, NEW n \in Nat, Ledger!Sell(p, n)
  PROVE  Ledger!LedgerTypeOK'
<1>1. MaxStock \in Nat
  BY DialogueAssumption
<1>2. quantity[p] \in 0..MaxStock /\ sold[p] \in Nat
  BY DEF Ledger!LedgerTypeOK
<1>3. quantity[p] - n \in 0..MaxStock /\ sold[p] + n \in Nat
  BY <1>1, <1>2 DEF Ledger!Sell
<1> QED BY <1>3 DEF Ledger!Sell, Ledger!LedgerTypeOK

LEMMA RestType ==
  ASSUME Ledger!LedgerTypeOK, RestCommits
  PROVE  Ledger!LedgerTypeOK' /\ sold' = sold
<1>1. PICK p \in Products :
        \/ Ledger!Create(p) \/ Ledger!Delete(p)
        \/ \E n \in Quantities : Ledger!Receive(p, n) \/ Ledger!Deduct(p, n)
        \/ \E n \in Thresholds : Ledger!SetThreshold(p, n)
  BY DEF RestCommits
<1>2. CASE Ledger!Create(p)
  BY <1>2, CreateType DEF Ledger!Create
<1>3. CASE Ledger!Delete(p)
  BY <1>3 DEF Ledger!Delete, Ledger!LedgerTypeOK
<1>4. ASSUME NEW n \in Quantities, Ledger!Receive(p, n)
      PROVE  Ledger!LedgerTypeOK' /\ sold' = sold
  BY <1>4, ReceiveType, DialogueAssumption DEF Ledger!Receive
<1>5. ASSUME NEW n \in Quantities, Ledger!Deduct(p, n)
      PROVE  Ledger!LedgerTypeOK' /\ sold' = sold
  <2>1. MaxStock \in Nat /\ n \in Nat
    BY DialogueAssumption
  <2>2. quantity[p] \in 0..MaxStock /\ removed[p] \in Nat
    BY DEF Ledger!LedgerTypeOK
  <2>3. quantity[p] - n \in 0..MaxStock /\ removed[p] + n \in Nat
    BY <1>5, <2>1, <2>2 DEF Ledger!Deduct
  <2> QED BY <1>5, <2>3 DEF Ledger!Deduct, Ledger!LedgerTypeOK
<1>6. ASSUME NEW n \in Thresholds, Ledger!SetThreshold(p, n)
      PROVE  Ledger!LedgerTypeOK' /\ sold' = sold
  BY <1>6, DialogueAssumption DEF Ledger!SetThreshold, Ledger!LedgerTypeOK
<1> QED BY <1>1, <1>2, <1>3, <1>4, <1>5, <1>6

-----------------------------------------------------------------------------
(* Every step keeps the invariant, and sells only what the prompt said *)

SaleStep ==
  \A p \in Products :
    sold'[p] # sold[p] =>
      /\ session.state = "CONFIRM_SALE" /\ session.product = p
      /\ sold'[p] = sold[p] + session.qty
      /\ session'.state = "IDLE"

LEMMA SayStep ==
  ASSUME DialogueInv, NEW t \in Typed, Say(t)
  PROVE  DialogueInv' /\ SaleStep
<1>1. PICK o \in ProcessMessage(session, t, Shelf) :
        /\ Effect(o.effect)
        /\ session' = o.session
  BY DEF Say
<1>2. WellFormed(session) /\ Shelf \in Shelves
  BY ShelfType DEF DialogueInv
<1>3. WellFormed(o.session) /\ EffectOf(session, o)
  BY <1>2, ProcessMessageSession, ProcessMessageEffect
<1>4. adding = NoProduct /\ adding' = NoProduct
  BY DEF Say
<1>5. Ledger!LedgerTypeOK
  BY DEF DialogueInv
<1>6. Ledger!LedgerTypeOK' /\ SaleStep
  <2>1. CASE o.effect.op = "sell"
    <3> DEFINE q == session.product
               n == session.qty
    <3>1. /\ session.state = "CONFIRM_SALE" /\ session'.state = "IDLE"
          /\ Ledger!Sell(q, n)
      BY <1>1, <1>3, <2>1 DEF Effect, EffectOf
    <3>2. q \in Products /\ n \in Nat
      BY <1>2, <3>1 DEF WellFormed, Sessions, NoQty
    <3>3. Ledger!LedgerTypeOK'
      BY <1>5, <3>1, <3>2, SellType
    <3>4. ASSUME NEW p \in Products, sold'[p] # sold[p]
          PROVE  p = q /\ sold'[p] = sold[p] + n
      BY <1>5, <3>1, <3>2, <3>4 DEF Ledger!Sell, Ledger!LedgerTypeOK
    <3> QED BY <3>1, <3>3, <3>4 DEF SaleStep
  <2>2. CASE o.effect.op = "add"
    <3>1. PICK p \in Products : Ledger!Create(p)
      BY <1>1, <2>2 DEF Effect
    <3> QED BY <1>5, <3>1, CreateType DEF SaleStep, Ledger!Create
  <2>3. CASE o.effect.op \notin {"sell", "add"}
    <3>1. UNCHANGED shelves
      BY <1>1, <2>3 DEF Effect
    <3> QED BY <1>5, <3>1 DEF SaleStep, shelves, Ledger!LedgerTypeOK
  <2> QED BY <2>1, <2>2, <2>3
<1> QED BY <1>1, <1>3, <1>4, <1>6 DEF DialogueInv

LEMMA StartAddingStep ==
  ASSUME DialogueInv, NEW t \in Typed, StartAdding(t)
  PROVE  DialogueInv' /\ SaleStep
<1>1. PICK o \in ProcessMessage(session, t, Shelf) : o.effect.op = "add"
  BY DEF StartAdding
<1>2. session.state = "CONFIRM_ADD_PRODUCT"
  <2>1. EffectOf(session, o)
    BY ShelfType, ProcessMessageEffect DEF DialogueInv
  <2> QED BY <1>1, <2>1 DEF EffectOf
<1>3. PICK p \in Products : Ledger!Create(p) /\ adding' = p
  BY DEF StartAdding
<1>4. session' = session
  BY DEF StartAdding
<1>5. Ledger!LedgerTypeOK' /\ SaleStep
  BY <1>3, CreateType DEF DialogueInv, SaleStep, Ledger!Create
<1> QED BY <1>2, <1>3, <1>4, <1>5 DEF DialogueInv

LEMMA FinishAddingStep ==
  ASSUME DialogueInv, FinishAdding
  PROVE  DialogueInv' /\ SaleStep
<1>1. /\ adding \in Products /\ adding' = NoProduct
      /\ Ledger!Receive(adding, session.qty)
      /\ session' = [Clear(session) EXCEPT !.shop = TRUE]
  BY DEF FinishAdding, DialogueInv
<1>2. session.qty \in Nat
  BY DEF FinishAdding, DialogueInv, WellFormed, Sessions, NoQty
<1>3. Ledger!LedgerTypeOK' /\ SaleStep
  BY <1>1, <1>2, ReceiveType DEF DialogueInv, SaleStep, Ledger!Receive
<1>4. WellFormed(session')
  BY <1>1, ClearIsWellFormed DEF DialogueInv
<1> QED BY <1>1, <1>3, <1>4 DEF DialogueInv

LEMMA OtherStep ==
  ASSUME DialogueInv, GiveUpAdding \/ Expire \/ Elsewhere \/ UNCHANGED dialogue
  PROVE  DialogueInv' /\ SaleStep
<1>1. CASE GiveUpAdding \/ Expire \/ UNCHANGED dialogue
  <2>1. UNCHANGED shelves /\ session' \in {session, NewSession}
    BY <1>1 DEF GiveUpAdding, Expire, dialogue
  <2>2. Ledger!LedgerTypeOK' /\ SaleStep
    BY <2>1 DEF DialogueInv, SaleStep, shelves, Ledger!LedgerTypeOK
  <2>3. WellFormed(session')
    BY <2>1, NewIsWellFormed DEF DialogueInv
  <2>4. adding' = NoProduct \/ (adding' = adding /\ session' = session)
    BY <1>1 DEF GiveUpAdding, Expire, dialogue
  <2> QED BY <2>2, <2>3, <2>4 DEF DialogueInv
<1>2. CASE Elsewhere
  BY <1>2, RestType DEF Elsewhere, DialogueInv, SaleStep
<1> QED BY <1>1, <1>2

LEMMA StepInv ==
  ASSUME DialogueInv, [Next]_dialogue
  PROVE  DialogueInv' /\ SaleStep
BY SayStep, StartAddingStep, FinishAddingStep, OtherStep DEF Next

(***************************************************************************)
(* The tables keep their types and the session is well-formed, for any     *)
(* products, quantities and texts (FSMEngine.process_message).             *)
(***************************************************************************)
THEOREM DialogueInductive == Spec => []DialogueInv
<1>1. Init => DialogueInv
  BY InitInv
<1>2. DialogueInv /\ [Next]_dialogue => DialogueInv'
  BY StepInv
<1> QED BY <1>1, <1>2, PTL DEF Spec

(***************************************************************************)
(* No text, and no order of texts, leaves a session that the handler of    *)
(* its state cannot work with (the flows of app/fsm/flows). *)
(***************************************************************************)
THEOREM SessionsWellFormed == Spec => []SessionWellFormed
<1>1. DialogueInv => SessionWellFormed
  BY DEF DialogueInv, SessionWellFormed
<1> QED BY <1>1, DialogueInductive, PTL

(***************************************************************************)
(* A sale is made of what the session held at its prompt, once, and the    *)
(* prompt is over (RecordSaleFlow.handle_confirm_sale_product).            *)
(***************************************************************************)
THEOREM SalesPrompted == Spec => SaleIsPrompted
<1>1. DialogueInv /\ [Next]_dialogue => [SaleStep]_dialogue
  BY StepInv
<1>2. Spec => [][SaleStep]_dialogue
  BY <1>1, DialogueInductive, PTL DEF Spec
<1> QED BY <1>2 DEF SaleIsPrompted, SaleStep
=============================================================================
