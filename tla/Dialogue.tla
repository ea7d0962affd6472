-------------------------------- MODULE Dialogue -------------------------------
(***************************************************************************)
(* What one merchant's conversation promises, with every message taken to  *)
(* be handled at once: a text is read in the state that the text before it *)
(* left, and what it makes happen to the shelf happens together with the   *)
(* session's next state.  Only a new product is two steps, because         *)
(* create_product and add_stock each commit.  ConversationWorkers is shown *)
(* to implement this module as long as one worker at a time serves the     *)
(* merchant and none dies between its commit and its save.                 *)
(***************************************************************************)
EXTENDS ConversationFSM

CONSTANTS
  Typed,             \* the texts that the merchant sends, some of Texts
  Quantities, Thresholds, DefaultThreshold, MaxStock,
                     \* as in StockLedger
  MaxReceived        \* bound: what the REST interface brings of one product

ASSUME DialogueAssumption ==
  /\ Typed \subseteq Texts
  /\ Quantities \subseteq Nat \ {0}
  /\ Thresholds \subseteq Nat
  /\ DefaultThreshold \in Nat
  /\ MaxStock \in Nat
  /\ MaxReceived \in Nat

VARIABLES
  created, live, stocked, quantity, threshold, sold, received, removed,
              \* the committed tables, as in StockLedger
  session,    \* the merchant's session, a new one when none is stored
  adding      \* the product that is created and has not got its stock

shelves == <<created, live, stocked, quantity, threshold, sold, received, removed>>
dialogue == <<shelves, session, adding>>

Ledger == INSTANCE StockLedger

-----------------------------------------------------------------------------

Shelf == [live |-> live, stocked |-> stocked, quantity |-> quantity]

(* What an outcome does to the tables in the transaction of its message. *)
Effect(e) ==
  CASE e.op = "sell" -> Ledger!Sell(e.product, e.amount)
    [] e.op = "add"  -> \E p \in Products : Ledger!Create(p)
    [] OTHER         -> UNCHANGED shelves

Init ==
  /\ Ledger!Init
  /\ session = NewSession
  /\ adding = NoProduct

(* A text is handled, and nothing of it is left to do. *)
Say(t) ==
  /\ adding = NoProduct
  /\ \E o \in ProcessMessage(session, t, Shelf) :
       /\ ~(o.effect.op = "add" /\ o.effect.amount > 0)
       /\ Effect(o.effect)
       /\ session' = o.session
  /\ UNCHANGED adding

(* A product is confirmed that has stock to be added. *)
StartAdding(t) ==
  /\ adding = NoProduct
  /\ \E o \in ProcessMessage(session, t, Shelf) :
       o.effect.op = "add" /\ o.effect.amount > 0
  /\ \E p \in Products : Ledger!Create(p) /\ adding' = p
  /\ UNCHANGED session

FinishAdding ==
  /\ adding # NoProduct
  /\ Ledger!Receive(adding, session.qty)
  /\ session' = [Clear(session) EXCEPT !.shop = TRUE]
  /\ adding' = NoProduct

(* The stock does not come: the product stays, and so does the prompt. *)
GiveUpAdding ==
  /\ adding # NoProduct
  /\ adding' = NoProduct
  /\ session' \in {session, NewSession}
  /\ UNCHANGED shelves

(* session_ttl_seconds without a message. *)
Expire ==
  /\ adding = NoProduct
  /\ session' = NewSession
  /\ UNCHANGED <<shelves, adding>>

(* What the REST interface commits; POST /sales is not committed. *)
RestCommits ==
  \E p \in Products :
    \/ Ledger!Create(p)
    \/ Ledger!Delete(p)
    \/ \E n \in Quantities : \/ received[p] + n <= MaxReceived /\ Ledger!Receive(p, n)
                             \/ Ledger!Deduct(p, n)
    \/ \E n \in Thresholds : Ledger!SetThreshold(p, n)

Elsewhere == RestCommits /\ UNCHANGED <<session, adding>>

Next ==
  \/ \E t \in Typed : Say(t) \/ StartAdding(t)
  \/ FinishAdding
  \/ GiveUpAdding
  \/ Expire
  \/ Elsewhere

Spec == Init /\ [][Next]_dialogue

-----------------------------------------------------------------------------

(***************************************************************************)
(* Whatever a merchant says, in whatever order and with whatever mistakes, *)
(* the session holds what the handler of its state reads and nothing that  *)
(* another flow left there, so that no CorruptedSessionError and no lost   *)
(* context is met (the checks at the head of the flows' handlers).         *)
(***************************************************************************)
SessionWellFormed == WellFormed(session)

(***************************************************************************)
(* A sale is what the confirmation prompt said: the product and the        *)
(* quantity of the session at CONFIRM_SALE, once, and the prompt is over   *)
(* (record_sale.handle_confirm_sale_product).                              *)
(***************************************************************************)
SaleIsPrompted ==
  [][\A p \in Products :
       sold'[p] # sold[p] =>
         /\ session.state = "CONFIRM_SALE" /\ session.product = p
         /\ sold'[p] = sold[p] + session.qty
         /\ session'.state = "IDLE"]_dialogue
=============================================================================
