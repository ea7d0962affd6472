------------------------------ MODULE StockLedger ------------------------------
(***************************************************************************)
(* What SokoFlow's database promises about stock, with every operation     *)
(* taken to be one indivisible step: a product is created, receives stock, *)
(* is sold, is deducted by hand, changes its low-stock threshold, or is    *)
(* deleted.  StockTransactions, where the same operations are made of      *)
(* statements that take row locks and may fail half-way, is shown to       *)
(* implement this module.                                                  *)
(*                                                                         *)
(* Python: the tables products, inventory and sales (app/models) and the   *)
(* effect of the services that write them (app/services).                  *)
(***************************************************************************)
EXTENDS Integers

CONSTANTS
  Products,          \* product ids; an id is given to one product only
  Quantities,        \* the quantities that requests may name
  Thresholds,        \* the thresholds that requests may name
  DefaultThreshold,  \* server_default of inventory.low_stock_threshold
  MaxStock           \* the largest value of the integer column quantity

VARIABLES
  created,    \* ids that were ever given to a product
  live,       \* rows of products
  stocked,    \* products that have a row in inventory
  quantity,   \* inventory.quantity, 0 where there is no row
  threshold,  \* inventory.low_stock_threshold, the default where there is none
  sold,       \* units in the rows of sales
  received,   \* history: units that came in
  removed     \* history: units deducted by hand, outside a sale

ledger == <<created, live, stocked, quantity, threshold, sold, received, removed>>

-----------------------------------------------------------------------------

(***************************************************************************)
(* Any state the services can have left behind: the stock of a product is  *)
(* what it received so far.                                                *)
(***************************************************************************)
Init ==
  /\ created \in SUBSET Products
  /\ live = created
  /\ stocked \in SUBSET live
  /\ quantity \in [Products -> 0..MaxStock]
  /\ \A p \in Products : p \notin stocked => quantity[p] = 0
  /\ threshold = [p \in Products |-> DefaultThreshold]
  /\ sold = [p \in Products |-> 0]
  /\ received = quantity
  /\ removed = [p \in Products |-> 0]

Create(p) ==
  /\ p \notin created
  /\ created' = created \union {p}
  /\ live' = live \union {p}
  /\ UNCHANGED <<stocked, quantity, threshold, sold, received, removed>>

Receive(p, n) ==
  /\ p \in live
  /\ quantity[p] + n <= MaxStock
  /\ stocked' = stocked \union {p}
  /\ quantity' = [quantity EXCEPT ![p] = @ + n]
  /\ received' = [received EXCEPT ![p] = @ + n]
  /\ UNCHANGED <<created, live, threshold, sold, removed>>

Sell(p, n) ==
  /\ p \in live \intersect stocked
  /\ n <= quantity[p]
  /\ quantity' = [quantity EXCEPT ![p] = @ - n]
  /\ sold' = [sold EXCEPT ![p] = @ + n]
  /\ UNCHANGED <<created, live, stocked, threshold, received, removed>>

Deduct(p, n) ==
  /\ p \in stocked
  /\ n <= quantity[p]
  /\ quantity' = [quantity EXCEPT ![p] = @ - n]
  /\ removed' = [removed EXCEPT ![p] = @ + n]
  /\ UNCHANGED <<created, live, stocked, threshold, sold, received>>

SetThreshold(p, t) ==
  /\ p \in stocked
  /\ threshold' = [threshold EXCEPT ![p] = t]
  /\ UNCHANGED <<created, live, stocked, quantity, sold, received, removed>>

(* The foreign keys of inventory and sales refuse anything else. *)
Delete(p) ==
  /\ p \in live \ stocked
  /\ sold[p] = 0
  /\ live' = live \ {p}
  /\ UNCHANGED <<created, stocked, quantity, threshold, sold, received, removed>>

Next ==
  \E p \in Products :
    \/ Create(p)
    \/ Delete(p)
    \/ \E n \in Quantities : Receive(p, n) \/ Sell(p, n) \/ Deduct(p, n)
    \/ \E t \in Thresholds : SetThreshold(p, t)

Spec == Init /\ [][Next]_ledger

-----------------------------------------------------------------------------

LedgerTypeOK ==
  /\ created \subseteq Products
  /\ live \subseteq created
  /\ stocked \subseteq Products
  /\ quantity \in [Products -> 0..MaxStock]
  /\ threshold \in [Products -> Nat]
  /\ sold \in [Products -> Nat]
  /\ received \in [Products -> Nat]
  /\ removed \in [Products -> Nat]

(***************************************************************************)
(* Conservation: the quantity on the shelf is what came in, less what was  *)
(* sold and what was deducted by hand (inventory_service.py, the upsert    *)
(* and the deduction; sales_service.record_sale).                          *)
(***************************************************************************)
Conservation ==
  \A p \in Products : quantity[p] + sold[p] + removed[p] = received[p]

(***************************************************************************)
(* The foreign keys: no inventory row and no sale without its product      *)
(* (product_service.delete_product against add_stock and record_sale).     *)
(***************************************************************************)
ReferentialIntegrity ==
  /\ stocked \subseteq live
  /\ \A p \in Products : sold[p] > 0 => p \in stocked
=============================================================================
