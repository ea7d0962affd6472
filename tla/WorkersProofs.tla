----------------------------- MODULE WorkersProofs -----------------------------
(***************************************************************************)
(* Proofs about ConversationWorkers.  For any number of workers that may   *)
(* read stale sessions, fail and die: the stored session stays one that    *)
(* its state's handler can work with, the conversation follows the edges   *)
(* of the flows, a sale is one that a stored prompt named, and nobody is   *)
(* told of a sale that was not recorded.  For one worker: refusals are     *)
(* counted as they are made, and, when none of its tasks is lost between   *)
(* commit and save, what it does is a Dialogue, in which a prompt that was *)
(* confirmed records no second sale.                                       *)
(***************************************************************************)
EXTENDS ConversationWorkers, TLAPS

(* What is proved of the handlers, and of the operations on the tables. *)
D ==
  INSTANCE DialogueProofs WITH
    session <- SessionSeen,
    adding <- IF at[TheWorker] = "stock" THEN out[TheWorker].effect.product
              ELSE NoProduct

Sums == INSTANCE SumProofs

-----------------------------------------------------------------------------
(* ConversationFSM and StockLedger are the same in Dialogue and here *)

LEMMA SameTexts == D!Texts = Texts
BY DEF D!Texts, Texts

LEMMA SameSessions ==
  /\ D!NewSession = NewSession /\ D!NoEffect = NoEffect
  /\ D!Sessions = Sessions /\ D!Edges = Edges
  /\ \A s : D!WellFormed(s) <=> WellFormed(s)
BY DEF D!NewSession, NewSession, D!NoEffect, NoEffect, D!Sessions, Sessions,
  D!SessionStates, SessionStates, D!Edges, Edges, D!WellFormed, WellFormed,
  D!HasNothing, HasNothing, D!NoQty, NoQty

LEMMA SameRefusal ==
  ASSUME NEW s
  PROVE  D!Clear(s) = Clear(s) /\ D!Refused(s) = Refused(s)
BY DEF D!Clear, Clear, D!Refused, Refused, D!NewSession, NewSession, D!NoEffect,
  NoEffect, D!NoQty, NoQty

(* The operators that ProcessMessage is made of are all expanded. *)
LEMMA SameProcessMessage ==
  ASSUME NEW s, NEW t, NEW shelf
  PROVE  D!ProcessMessage(s, t, shelf) = ProcessMessage(s, t, shelf)
BY DEF Override, IntentOf, IsDigits, Number, IsName, IsPrice, PriceRaises, Confirms,
  Declines, NoQty, NewSession, NoEffect, Sale, Addition, DailyReport, Accepted, Moved,
  Raised, Clear, Refused, In, Choices, Cardinality, Chosen, ValidChoice, HandleQuery,
  HandleUnknown, HandleIdle, HandleName, HandlePrice, HandleQty, HandleConfirm,
  HandleSaleProductName, HandleSaleProductSelection, HandleSaleProductQty,
  HandleConfirmSale, Inventory, HandleStockName, HandleStockProductSelection,
  HandleProductSelection, ProcessMessage, D!Override, D!IntentOf, D!IsDigits, D!Number,
  D!IsName, D!IsPrice, D!PriceRaises, D!Confirms, D!Declines, D!NoQty, D!NewSession,
  D!NoEffect, D!Sale, D!Addition, D!DailyReport, D!Accepted, D!Moved, D!Raised, D!Clear,
  D!Refused, D!In, D!Choices, D!Cardinality, D!Chosen, D!ValidChoice, D!HandleQuery,
  D!HandleUnknown, D!HandleIdle, D!HandleName, D!HandlePrice, D!HandleQty,
  D!HandleConfirm, D!HandleSaleProductName, D!HandleSaleProductSelection,
  D!HandleSaleProductQty, D!HandleConfirmSale, D!Inventory, D!HandleStockName,
  D!HandleStockProductSelection, D!HandleProductSelection, D!ProcessMessage

LEMMA SameLedger ==
  /\ D!Ledger!LedgerTypeOK <=> Ledger!LedgerTypeOK
  /\ D!Ledger!LedgerTypeOK' <=> Ledger!LedgerTypeOK'
  /\ D!RestCommits <=> RestCommits
  /\ \A p : D!Ledger!Create(p) <=> Ledger!Create(p)
  /\ \A p, n : /\ D!Ledger!Receive(p, n) <=> Ledger!Receive(p, n)
               /\ D!Ledger!Sell(p, n) <=> Ledger!Sell(p, n)
BY DEF D!Ledger!LedgerTypeOK, Ledger!LedgerTypeOK, D!RestCommits, RestCommits,
  D!Ledger!Create, Ledger!Create, D!Ledger!Receive, Ledger!Receive,
  D!Ledger!Sell, Ledger!Sell, D!Ledger!Delete, Ledger!Delete,
  D!Ledger!Deduct, Ledger!Deduct, D!Ledger!SetThreshold, Ledger!SetThreshold

-----------------------------------------------------------------------------
(* What process_message makes of a session *)

Effects ==
  [op : {"none", "sell", "add", "report"}, product : Products \union {NoProduct},
   amount : Nat]

Shelves == [live : SUBSET Products, stocked : SUBSET Products,
            quantity : [Products -> Int]]

EdgeOf(s, r) == r.state = s.state \/ <<s.state, r.state>> \in Edges

OutcomeOf(s, o) ==
  /\ o = [session |-> o.session, reply |-> o.reply, effect |-> o.effect]
  /\ WellFormed(o.session) /\ EdgeOf(s, o.session)
  /\ o.reply \in {"accepted", "refused", "none"} /\ o.effect \in Effects
  /\ o.effect.op \in {"sell", "add"} => o.reply # "none"
  /\ o.effect.op = "sell" =>
       /\ s.state = "CONFIRM_SALE" /\ o.session.state = "IDLE"
       /\ o.effect.product = s.product /\ o.effect.amount = s.qty
       /\ s.product \in Products /\ s.qty \in Nat
  /\ o.effect.op = "add" =>
       /\ s.state = "CONFIRM_ADD_PRODUCT" /\ o.effect.amount = s.qty
       /\ o.session = [Clear(s) EXCEPT !.shop = TRUE]
  /\ o.reply = "refused" => o = Refused(s)

LEMMA MessageOutcome ==
  ASSUME NEW s, WellFormed(s), NEW t, NEW shelf \in Shelves,
         NEW o \in ProcessMessage(s, t, shelf)
  PROVE  OutcomeOf(s, o)
<1>1. D!WellFormed(s) /\ shelf \in D!Shelves /\ o \in D!ProcessMessage(s, t, shelf)
  BY SameSessions, SameProcessMessage DEF Shelves, D!Shelves
<1>2. FSMAssumption /\ Typed \subseteq D!Texts /\ WorkersAssumption
  BY FSMAssumption, WorkersAssumption, SameTexts
<1>3. D!WellFormed(o.session)
  BY <1>1, <1>2, D!ProcessMessageSession
<1>4. D!EffectOf(s, o)
  BY <1>1, <1>2, D!ProcessMessageEffect
<1>5. D!StepOf(s, o)
  BY <1>1, <1>2, D!ProcessMessageStep
<1>6. o.effect.op \in {"sell", "add"} => o.reply # "none"
  BY <1>1, <1>2, D!ProcessMessageAnswers
<1>7. o.effect.op = "sell" => s.product \in Products /\ s.qty \in Nat
  BY <1>4 DEF D!EffectOf, WellFormed, Sessions, NoQty
<1> QED BY <1>3, <1>4, <1>5, <1>6, <1>7, SameSessions, SameRefusal
        DEF D!EffectOf, D!StepOf, D!Effects, Effects, D!EdgeOf, EdgeOf, OutcomeOf

LEMMA NewIsWellFormed == WellFormed(NewSession) /\ NewSession.state = "IDLE"
BY FSMAssumption, WorkersAssumption, SameTexts, SameSessions, D!NewIsWellFormed

-----------------------------------------------------------------------------
(* The invariant *)

(* What a worker has processed belongs to the session that it read. *)
Held(w) ==
  LET s == Resumed(old[w])
      o == out[w]
  IN /\ o \in Outcomes
     /\ WellFormed(o.session)
     /\ EdgeOf(s, o.session)
     /\ o.effect.op = "sell" => o.effect.product \in Products
     /\ o.reply = "refused" => o.session = Refused(s).session
     /\ at[w] = "stock" => o.effect.op = "add" /\ o.effect.product \in Products

(* A prompt that is stored, or was when a worker read it, has been asked. *)
Asked(s) == IsPrompt(s) => <<s.product, s.qty>> \in asked

WorkersInv ==
  /\ TypeOK
  /\ WellFormed(Resumed(stored)) /\ Asked(Resumed(stored))
  /\ \A w \in Workers :
       /\ WellFormed(Resumed(old[w])) /\ Asked(Resumed(old[w]))
       /\ at[w] \in {"stock", "save", "reply"} => Held(w)

LEMMA ShelfType ==
  ASSUME Ledger!LedgerTypeOK
  PROVE  Shelf \in Shelves
BY DEF Ledger!LedgerTypeOK, Shelf, Shelves

(* The operations on the tables keep their types. *)
LEMMA CreateType ==
  ASSUME Ledger!LedgerTypeOK, NEW p \in Products, Ledger!Create(p)
  PROVE  Ledger!LedgerTypeOK'
BY FSMAssumption, WorkersAssumption, SameTexts, SameLedger, D!CreateType

LEMMA ReceiveType ==
  ASSUME Ledger!LedgerTypeOK, NEW p \in Products, NEW n \in Nat, Ledger!Receive(p, n)
  PROVE  Ledger!LedgerTypeOK'
BY FSMAssumption, WorkersAssumption, SameTexts, SameLedger, D!ReceiveType

LEMMA SellType ==
  ASSUME Ledger!LedgerTypeOK, NEW p \in Products, NEW n \in Nat, Ledger!Sell(p, n)
  PROVE  /\ Ledger!LedgerTypeOK'
         /\ sold'[p] - sold[p] = n /\ \A q \in Products : q # p => sold'[q] = sold[q]
<1>1. Ledger!LedgerTypeOK'
  BY FSMAssumption, WorkersAssumption, SameTexts, SameLedger, D!SellType
<1>2. sold' = [sold EXCEPT ![p] = @ + n] /\ sold \in [Products -> Nat]
  BY DEF Ledger!Sell, Ledger!LedgerTypeOK
<1> QED BY <1>1, <1>2

LEMMA RestType ==
  ASSUME Ledger!LedgerTypeOK, RestCommits
  PROVE  Ledger!LedgerTypeOK' /\ sold' = sold
BY FSMAssumption, WorkersAssumption, SameTexts, SameLedger, D!RestType

-----------------------------------------------------------------------------
(* What a step may do: no sale but one that was asked for, no move of the  *)
(* stored session but along an edge.                                       *)

SaleStep ==
  \A p \in Products : sold'[p] # sold[p] => <<p, sold'[p] - sold[p]>> \in asked

EdgeStep ==
  \/ stored = Missing \/ stored' = Missing
  \/ stored'.state = stored.state
  \/ <<stored.state, stored'.state>> \in Edges

Step == WorkersInv' /\ SaleStep /\ EdgeStep

LEMMA InitInv ==
  ASSUME Init
  PROVE  WorkersInv
<1>1. Ledger!LedgerTypeOK
  BY WorkersAssumption DEF Init, Ledger!Init, Ledger!LedgerTypeOK
<1>2. TypeOK
  BY <1>1, FSMAssumption DEF Init, TypeOK, Places, Prompts
<1>3. Resumed(Missing) = NewSession
  BY DEF Resumed
<1>4. ~ IsPrompt(NewSession)
  BY DEF IsPrompt, NewSession
<1> QED BY <1>2, <1>3, <1>4, NewIsWellFormed DEF Init, WorkersInv, Asked

LEMMA ResumedSession ==
  ASSUME NEW s \in Sessions
  PROVE  Resumed(s) = s
BY WorkersAssumption DEF Resumed

(* A task that ends leaves nothing behind. *)
LEMMA FinishKeeps ==
  ASSUME WorkersInv, NEW w \in Workers, Finish(w),
         UNCHANGED <<stored, asked>>, Ledger!LedgerTypeOK',
         prompt' \in Prompts, strikes' \in 0..MaxErrors, told' \in [Products -> Nat]
  PROVE  WorkersInv'
<1> USE DEF WorkersInv
<1>1. TypeOK'
  BY DEF TypeOK, Finish, Places
<1>2. Resumed(Missing) = NewSession /\ ~ IsPrompt(NewSession)
  BY DEF Resumed, IsPrompt, NewSession
<1>3. WellFormed(Resumed(stored')) /\ Asked(Resumed(stored))'
  BY DEF Asked, Resumed
<1>4. ASSUME NEW x \in Workers
      PROVE  /\ WellFormed(Resumed(old'[x])) /\ Asked(Resumed(old[x]))'
             /\ at'[x] \in {"stock", "save", "reply"} => Held(x)'
  <2>1. CASE x = w
    BY <1>2, <2>1, NewIsWellFormed DEF TypeOK, Finish, Asked, Resumed
  <2>2. CASE x # w
    <3>1. at'[x] = at[x] /\ old'[x] = old[x] /\ out'[x] = out[x]
      BY <2>2 DEF TypeOK, Finish
    <3> QED BY <3>1 DEF Asked, Held, Resumed
  <2> QED BY <2>1, <2>2
<1> QED BY <1>1, <1>3, <1>4 DEF Resumed

LEMMA BeginStep ==
  ASSUME WorkersInv, NEW w \in Workers, Begin(w)
  PROVE  Step
<1> USE DEF WorkersInv
<1>1. PICK t \in Typed :
        /\ at' = [at EXCEPT ![w] = "process"]
        /\ text' = [text EXCEPT ![w] = t]
        /\ old' = [old EXCEPT ![w] = stored]
  BY DEF Begin
<1>2. UNCHANGED <<shelves, stored, out, history>>
  BY DEF Begin
<1>3. TypeOK'
  BY <1>1, <1>2 DEF TypeOK, Places, shelves, history, Ledger!LedgerTypeOK
<1>4. ASSUME NEW x \in Workers
      PROVE  /\ WellFormed(Resumed(old'[x])) /\ Asked(Resumed(old[x]))'
             /\ at'[x] \in {"stock", "save", "reply"} => Held(x)'
  <2>1. CASE x = w
    BY <1>1, <1>2, <2>1 DEF TypeOK, Asked, Resumed, history
  <2>2. CASE x # w
    <3>1. at'[x] = at[x] /\ old'[x] = old[x] /\ out'[x] = out[x]
      BY <1>1, <1>2, <2>2 DEF TypeOK
    <3> QED BY <1>2, <3>1 DEF Asked, Held, Resumed, history
  <2> QED BY <2>1, <2>2
<1>5. WorkersInv'
  BY <1>2, <1>3, <1>4 DEF Asked, Resumed, history
<1> QED BY <1>2, <1>5 DEF Step, SaleStep, EdgeStep, shelves

(* What a worker holds when it has processed its text. *)
LEMMA ProcessedKeeps ==
  ASSUME WorkersInv, NEW w \in Workers, NEW o, NEW place \in {"stock", "save"},
         Processed(w, o, place), Ledger!LedgerTypeOK', prompt' \in Prompts,
         o \in Outcomes, WellFormed(o.session), EdgeOf(Resumed(old[w]), o.session),
         o.reply = "refused" => o.session = Refused(Resumed(old[w])).session,
         o.effect.op = "sell" => o.effect.product \in Products,
         place = "stock" => o.effect.op = "add" /\ o.effect.product \in Products
  PROVE  WorkersInv'
<1> USE DEF WorkersInv
<1>1. /\ out' = [out EXCEPT ![w] = o] /\ at' = [at EXCEPT ![w] = place]
      /\ UNCHANGED <<text, old, stored, asked, strikes, told>>
  BY DEF Processed, Goto
<1>2. TypeOK'
  BY <1>1 DEF TypeOK, Places
<1>3. ASSUME NEW x \in Workers
      PROVE  /\ WellFormed(Resumed(old'[x])) /\ Asked(Resumed(old[x]))'
             /\ at'[x] \in {"stock", "save", "reply"} => Held(x)'
  <2>1. WellFormed(Resumed(old'[x])) /\ Asked(Resumed(old[x]))'
    BY <1>1 DEF Asked, Resumed
  <2>2. CASE x = w
    <3>1. out'[w] = o /\ at'[w] = place
      BY <1>1 DEF TypeOK
    <3> QED BY <1>1, <2>1, <2>2, <3>1 DEF Held, Resumed
  <2>3. CASE x # w
    <3>1. at'[x] = at[x] /\ out'[x] = out[x]
      BY <1>1, <2>3 DEF TypeOK
    <3> QED BY <1>1, <2>1, <3>1 DEF Held, Resumed
  <2> QED BY <2>2, <2>3
<1> QED BY <1>1, <1>2, <1>3 DEF Asked, Resumed

LEMMA ProcessStep ==
  ASSUME WorkersInv, NEW w \in Workers, Process(w)
  PROVE  Step
<1> DEFINE s == Resumed(old[w])
<1>1. PICK o \in ProcessMessage(s, text[w], Shelf) :
        \/ ProcessQuietly(w, o) \/ ProcessSale(w, o)
        \/ ProcessAddition(w, o) \/ ProcessRaises(w, o)
  BY DEF Process
<1>2. /\ WellFormed(s) /\ Asked(s) /\ Ledger!LedgerTypeOK /\ Shelf \in Shelves
      /\ prompt \in Prompts /\ strikes \in 0..MaxErrors /\ told \in [Products -> Nat]
  BY ShelfType DEF WorkersInv, TypeOK
<1>3. OutcomeOf(s, o)
  BY <1>2, MessageOutcome
<1>4. /\ WellFormed(o.session) /\ EdgeOf(s, o.session)
      /\ o.effect.op = "sell" => o.effect.product \in Products
      /\ o.reply = "refused" => o.session = Refused(s).session
  BY <1>3 DEF OutcomeOf
<1>5. /\ o.session \in Sessions /\ o.effect \in Effects
      /\ o.reply \in {"accepted", "refused", "none"}
      /\ o = [session |-> o.session, reply |-> o.reply, effect |-> o.effect]
  BY <1>3 DEF OutcomeOf, WellFormed
<1>6. o.reply # "none" => o \in Outcomes
  BY <1>5 DEF Outcomes, Effects
<1> HIDE DEF s
<1>7. CASE ProcessQuietly(w, o)
  <2>1. UNCHANGED <<shelves, prompt, stored>> /\ Processed(w, o, "save") /\ o \in Outcomes
    BY <1>6, <1>7 DEF ProcessQuietly, Processed
  <2>2. Ledger!LedgerTypeOK' /\ sold' = sold
    BY <1>2, <2>1 DEF shelves, Ledger!LedgerTypeOK
  <2>3. WorkersInv'
    BY <1>2, <1>4, <2>1, <2>2, ProcessedKeeps DEF s
  <2> QED BY <2>1, <2>2, <2>3 DEF Step, SaleStep, EdgeStep
<1>8. CASE ProcessSale(w, o)
  <2>1. /\ o.effect.op = "sell" /\ Ledger!Sell(o.effect.product, o.effect.amount)
        /\ Processed(w, o, "save") /\ prompt' = "sold" /\ stored' = stored
    BY <1>8 DEF ProcessSale, Processed
  <2>2. /\ s.state = "CONFIRM_SALE" /\ o.reply # "none"
        /\ o.effect.product = s.product /\ o.effect.amount = s.qty
        /\ s.product \in Products /\ s.qty \in Nat
    BY <1>3, <2>1 DEF OutcomeOf
  <2>3. <<s.product, s.qty>> \in asked
    BY <1>2, <2>2 DEF Asked, IsPrompt
  <2>4. /\ Ledger!LedgerTypeOK' /\ sold'[s.product] - sold[s.product] = s.qty
        /\ \A q \in Products : q # s.product => sold'[q] = sold[q]
    BY <1>2, <2>1, <2>2, SellType
  <2>5. prompt' \in Prompts /\ o \in Outcomes
    BY <1>6, <2>1, <2>2 DEF Prompts
  <2>6. WorkersInv'
    BY <1>4, <2>1, <2>4, <2>5, ProcessedKeeps DEF s
  <2> QED BY <2>1, <2>3, <2>4, <2>6 DEF Step, SaleStep, EdgeStep
<1>9. CASE ProcessAddition(w, o)
  <2> DEFINE place == IF o.effect.amount > 0 THEN "stock" ELSE "save"
  <2>1. PICK p \in Products :
          Ledger!Create(p) /\ Processed(w, [o EXCEPT !.effect.product = p], place)
    BY <1>9 DEF ProcessAddition
  <2> DEFINE n == [o EXCEPT !.effect.product = p]
  <2>2. o.effect.op = "add" /\ prompt' = prompt
    BY <1>9 DEF ProcessAddition
  <2>3. o.reply # "none"
    BY <1>3, <2>2 DEF OutcomeOf
  <2>4. /\ n \in Outcomes /\ n.session = o.session /\ n.effect.product = p
        /\ n.effect.op = o.effect.op /\ n.reply = o.reply
    BY <1>5, <1>6, <2>3 DEF Outcomes, Effects
  <2>5. place \in {"stock", "save"}
    OBVIOUS
  <2>6. Ledger!LedgerTypeOK' /\ sold' = sold /\ stored' = stored
    BY <1>2, <2>1, CreateType DEF Ledger!Create, Processed
  <2> HIDE DEF n, place
  <2>7. Processed(w, n, place)
    BY <2>1 DEF n
  <2>8. WorkersInv'
    BY <1>2, <1>4, <2>2, <2>4, <2>5, <2>6, <2>7, ProcessedKeeps DEF s
  <2> QED BY <2>6, <2>8 DEF Step, SaleStep, EdgeStep
<1>10. CASE ProcessRaises(w, o)
  <2>1. Finish(w) /\ UNCHANGED <<shelves, stored, history>>
    BY <1>10 DEF ProcessRaises
  <2>2. Ledger!LedgerTypeOK' /\ sold' = sold
    BY <1>2, <2>1 DEF shelves, Ledger!LedgerTypeOK
  <2>3. WorkersInv'
    BY <1>2, <2>1, <2>2, FinishKeeps DEF history
  <2> QED BY <2>1, <2>2, <2>3 DEF Step, SaleStep, EdgeStep
<1> QED BY <1>1, <1>7, <1>8, <1>9, <1>10

LEMMA AddStockStep ==
  ASSUME WorkersInv, NEW w \in Workers, AddStock(w)
  PROVE  Step
<1> USE DEF WorkersInv
<1>1. /\ Ledger!Receive(out[w].effect.product, out[w].effect.amount)
      /\ at[w] = "stock" /\ at' = [at EXCEPT ![w] = "save"]
      /\ UNCHANGED <<text, old, stored, out, history>>
  BY DEF AddStock, Goto
<1>2. out[w].effect.product \in Products /\ out[w].effect.amount \in Nat
  BY <1>1 DEF Held, Outcomes
<1>3. Ledger!LedgerTypeOK' /\ sold' = sold
  BY <1>1, <1>2, ReceiveType DEF TypeOK, Ledger!Receive
<1>4. TypeOK'
  BY <1>1, <1>3 DEF TypeOK, Places, history
<1>5. ASSUME NEW x \in Workers
      PROVE  /\ WellFormed(Resumed(old'[x])) /\ Asked(Resumed(old[x]))'
             /\ at'[x] \in {"stock", "save", "reply"} => Held(x)'
  BY <1>1 DEF TypeOK, Asked, Held, Resumed, history
<1>6. WorkersInv'
  BY <1>1, <1>4, <1>5 DEF Asked, Resumed, history
<1> QED BY <1>1, <1>3, <1>6 DEF Step, SaleStep, EdgeStep

LEMMA EndStep ==
  ASSUME WorkersInv, NEW w \in Workers, Fail(w) \/ Crash(w) \/ SaveRefused(w)
  PROVE  Step
<1>1. Finish(w) /\ UNCHANGED <<shelves, stored, history>>
  BY DEF Fail, Crash, SaveRefused
<1>2. Ledger!LedgerTypeOK' /\ sold' = sold
  BY <1>1 DEF WorkersInv, TypeOK, shelves, Ledger!LedgerTypeOK
<1>3. WorkersInv'
  BY <1>1, <1>2, FinishKeeps DEF WorkersInv, TypeOK, history
<1> QED BY <1>1, <1>2, <1>3 DEF Step, SaleStep, EdgeStep

LEMMA SaveStep ==
  ASSUME WorkersInv, NEW w \in Workers, Save(w)
  PROVE  Step
<1> DEFINE new == out[w].session
           was == Resumed(old[w])
<1> USE DEF WorkersInv
<1>1. /\ at[w] = "save" /\ Matches(w) /\ stored' = new
      /\ asked' = IF IsPrompt(new) THEN asked \union {<<new.product, new.qty>>} ELSE asked
      /\ prompt' = IF IsPrompt(new) /\ ~IsPrompt(was) THEN "open" ELSE prompt
      /\ strikes' = IF out[w].reply = "refused" /\ new.state # "IDLE"
                    THEN (IF strikes < MaxErrors THEN strikes + 1 ELSE strikes)
                    ELSE 0
      /\ at' = [at EXCEPT ![w] = "reply"]
      /\ UNCHANGED <<shelves, text, old, out, told>>
  BY DEF Save, Goto
<1>2. Held(w) /\ WellFormed(new) /\ EdgeOf(was, new) /\ new \in Sessions
  BY <1>1 DEF Held, WellFormed
<1> HIDE DEF new, was
<1>3. Ledger!LedgerTypeOK'
  BY <1>1 DEF TypeOK, shelves, Ledger!LedgerTypeOK
<1>4. asked' \subseteq Products \X Nat /\ asked \subseteq asked'
  <2>1. IsPrompt(new) => new.product \in Products /\ new.qty \in Nat
    BY <1>2 DEF IsPrompt, WellFormed, Sessions, NoQty
  <2> QED BY <1>1, <2>1 DEF TypeOK
<1>5. strikes' \in 0..MaxErrors
  BY <1>1, FSMAssumption DEF TypeOK
<1>6. TypeOK'
  BY <1>1, <1>2, <1>3, <1>4, <1>5 DEF TypeOK, Places, Prompts
<1>7. Resumed(stored') = new /\ WellFormed(Resumed(stored')) /\ Asked(Resumed(stored))'
  <2>1. Resumed(stored') = new
    BY <1>1, <1>2, ResumedSession
  <2>2. IsPrompt(new) => <<new.product, new.qty>> \in asked'
    BY <1>1
  <2> QED BY <1>2, <2>1, <2>2 DEF Asked, Resumed
<1>8. ASSUME NEW x \in Workers
      PROVE  /\ WellFormed(Resumed(old'[x])) /\ Asked(Resumed(old[x]))'
             /\ at'[x] \in {"stock", "save", "reply"} => Held(x)'
  <2>1. WellFormed(Resumed(old'[x])) /\ Asked(Resumed(old[x]))'
    BY <1>1, <1>4 DEF Asked, Resumed
  <2>2. at'[x] \in {"stock", "save", "reply"} =>
          at[x] \in {"stock", "save", "reply"} /\ (at'[x] = "stock" => at[x] = "stock")
    BY <1>1 DEF TypeOK
  <2> QED BY <1>1, <2>1, <2>2 DEF Held, Resumed
<1>9. WorkersInv'
  BY <1>6, <1>7, <1>8 DEF Resumed
<1>10. EdgeStep
  <2> SUFFICES ASSUME stored # Missing
               PROVE  \/ stored'.state = stored.state
                      \/ <<stored.state, stored'.state>> \in Edges
    BY DEF EdgeStep
  <2>1. Resumed(stored) = stored
    BY DEF Resumed
  <2>2. stored.state = was.state
    BY <1>1, <2>1 DEF Matches, was
  <2> QED BY <1>1, <1>2, <2>2 DEF EdgeOf
<1> QED BY <1>1, <1>9, <1>10 DEF Step, SaleStep, shelves

LEMMA ReplyStep ==
  ASSUME WorkersInv, NEW w \in Workers, Reply(w)
  PROVE  Step
<1>1. /\ at[w] = "reply" /\ Finish(w)
      /\ UNCHANGED <<shelves, stored, asked, prompt, strikes>>
  BY DEF Reply
<1>2. Ledger!LedgerTypeOK' /\ sold' = sold
  BY <1>1 DEF WorkersInv, TypeOK, shelves, Ledger!LedgerTypeOK
<1>3. told' \in [Products -> Nat]
  <2> DEFINE e == out[w].effect
  <2>1. Held(w) /\ told \in [Products -> Nat]
    BY <1>1 DEF WorkersInv, TypeOK
  <2>2. e.amount \in Nat /\ (e.op = "sell" => e.product \in Products)
    BY <2>1 DEF Held, Outcomes
  <2>3. \/ told' = told
        \/ e.op = "sell" /\ told' = [told EXCEPT ![e.product] = @ + e.amount]
    BY DEF Reply
  <2> HIDE DEF e
  <2> QED BY <2>1, <2>2, <2>3
<1>4. WorkersInv'
  BY <1>1, <1>2, <1>3, FinishKeeps DEF WorkersInv, TypeOK
<1> QED BY <1>1, <1>2, <1>4 DEF Step, SaleStep, EdgeStep

LEMMA OtherStep ==
  ASSUME WorkersInv, Expire \/ Elsewhere \/ UNCHANGED vars
  PROVE  Step
<1> USE DEF WorkersInv
<1>1. UNCHANGED <<working, history>> /\ stored' \in {stored, Missing}
  BY DEF Expire, Elsewhere, vars
<1>2. Ledger!LedgerTypeOK' /\ sold' = sold
  <2>1. CASE UNCHANGED shelves
    BY <2>1 DEF TypeOK, shelves, Ledger!LedgerTypeOK
  <2>2. CASE RestCommits
    BY <2>2, RestType DEF TypeOK
  <2> QED BY <2>1, <2>2 DEF Expire, Elsewhere, vars
<1>3. TypeOK'
  BY <1>1, <1>2 DEF TypeOK, working, history
<1>4. WellFormed(Resumed(stored')) /\ Asked(Resumed(stored))'
  <2>1. Resumed(Missing) = NewSession /\ ~ IsPrompt(NewSession)
    BY DEF Resumed, IsPrompt, NewSession
  <2> QED BY <1>1, <2>1, NewIsWellFormed DEF Asked, Resumed, history
<1>5. \A x \in Workers : /\ WellFormed(Resumed(old'[x])) /\ Asked(Resumed(old[x]))'
                         /\ at'[x] \in {"stock", "save", "reply"} => Held(x)'
  BY <1>1 DEF Asked, Held, Resumed, working, history
<1>6. WorkersInv'
  BY <1>3, <1>4, <1>5 DEF Resumed
<1> QED BY <1>1, <1>2, <1>6 DEF Step, SaleStep, EdgeStep

LEMMA WorkersStep ==
  ASSUME WorkersInv, [Next]_vars
  PROVE  Step
BY BeginStep, ProcessStep, AddStockStep, EndStep, SaveStep, ReplyStep, OtherStep DEF Next

(***************************************************************************)
(* conversation_task keeps WorkersInv, whichever messages of a merchant    *)
(* its workers serve at once.                                              *)
(***************************************************************************)
THEOREM WorkersInductive == Spec => []WorkersInv
<1>1. Init => WorkersInv
  BY InitInv
<1>2. WorkersInv /\ [Next]_vars => WorkersInv'
  BY WorkersStep DEF Step
<1> QED BY <1>1, <1>2, PTL DEF Spec

(* ConversationWorkers keeps its variables within their types. *)
THEOREM WorkersTyped == Spec => []TypeOK
<1>1. WorkersInv => TypeOK
  BY DEF WorkersInv
<1> QED BY <1>1, WorkersInductive, PTL

(***************************************************************************)
(* However stale the session that a worker read, what save_session stores  *)
(* is one that the handler of its state can work with.                     *)
(***************************************************************************)
THEOREM StoredSessionsWellFormed == Spec => []SessionWellFormed
<1>1. WorkersInv => SessionWellFormed
  BY DEF WorkersInv, SessionWellFormed
<1> QED BY <1>1, WorkersInductive, PTL

(***************************************************************************)
(* The script's comparison of the state alone is enough to keep a merchant *)
(* on the edges of the flows.                                              *)
(***************************************************************************)
THEOREM StoredTransitionsLegal == Spec => TransitionLegal
<1>1. WorkersInv /\ [Next]_vars => [EdgeStep]_vars
  BY WorkersStep DEF Step
<1>2. Spec => [][EdgeStep]_vars
  BY <1>1, WorkersInductive, PTL DEF Spec
<1> QED BY <1>2 DEF TransitionLegal, EdgeStep

(***************************************************************************)
(* RecordSaleFlow records no sale but one that a stored prompt named, with *)
(* any number of workers.                                                  *)
(***************************************************************************)
THEOREM SalesWerePrompted == Spec => SaleWasPrompted
<1>1. WorkersInv /\ [Next]_vars => [SaleStep]_vars
  BY WorkersStep DEF Step
<1>2. Spec => [][SaleStep]_vars
  BY <1>1, WorkersInductive, PTL DEF Spec
<1> QED BY <1>2 DEF SaleWasPrompted, SaleStep
-----------------------------------------------------------------------------
(* Nobody is told of a sale that is not in the table *)

(* What a reply of w is going to tell of p. *)
Owed(w, p) ==
  IF /\ at[w] \in {"save", "reply"}
     /\ out[w].effect.op = "sell" /\ out[w].effect.product = p
  THEN out[w].effect.amount ELSE 0

Owing(p) == [w \in Workers |-> Owed(w, p)]
AllOwed(p) == Sums!Sum(Owing(p), Workers)

(* All that was told and is going to be is in the table. *)
ToldInv == \A p \in Products : told[p] + AllOwed(p) <= sold[p]

LEMMA FiniteWorkers == Sums!IsFiniteSet(Workers)
BY WorkersAssumption DEF IsFiniteSet, Sums!IsFiniteSet

LEMMA OwedType ==
  ASSUME WorkersInv, NEW w \in Workers, NEW p \in Products
  PROVE  Owed(w, p) \in Nat
BY DEF WorkersInv, Held, Outcomes, Owed

LEMMA AllOwedType ==
  ASSUME WorkersInv, NEW p \in Products
  PROVE  AllOwed(p) \in Nat
<1>1. \A w \in Workers : Owing(p)[w] \in Nat
  BY OwedType DEF Owing
<1> QED BY <1>1, FiniteWorkers, Sums!SumNat DEF AllOwed

(* A step of one worker changes what it owes, and nothing else. *)
LEMMA OwedStep ==
  ASSUME WorkersInv, WorkersInv', NEW w \in Workers, ToldInv,
         \A x \in Workers : x # w => at'[x] = at[x] /\ out'[x] = out[x],
         \A p \in Products :
           told'[p] + Owed(w, p)' <= told[p] + Owed(w, p) + sold'[p] - sold[p]
  PROVE  ToldInv'
<1> SUFFICES ASSUME NEW p \in Products
             PROVE  told'[p] + AllOwed(p)' <= sold'[p]
  BY DEF ToldInv
<1> DEFINE f == Owing(p)
           g == Owing(p)'
<1>1. \A x \in Workers : /\ f[x] = Owed(x, p) /\ g[x] = Owed(x, p)'
                         /\ f[x] \in Nat /\ g[x] \in Nat
  <2>1. \A x \in Workers : Owed(x, p) \in Nat
    BY OwedType
  <2>2. \A x \in Workers : Owed(x, p)' \in Nat
    BY DEF WorkersInv, Held, Outcomes, Owed
  <2> QED BY <2>1, <2>2 DEF Owing
<1>2. \A x \in Workers : x # w => f[x] = g[x]
  BY <1>1 DEF Owed
<1> HIDE DEF f, g
<1>3. Sums!Sum(g, Workers) = Sums!Sum(f, Workers) - f[w] + g[w]
  BY <1>1, <1>2, FiniteWorkers, Sums!SumUpdate
<1>4. AllOwed(p)' = AllOwed(p) - Owed(w, p) + Owed(w, p)'
  BY <1>1, <1>3 DEF AllOwed, f, g
<1>5. AllOwed(p) \in Nat /\ Owed(w, p) \in Nat /\ Owed(w, p)' \in Nat
  BY <1>1, AllOwedType
<1>6. told[p] \in Nat /\ told'[p] \in Nat /\ sold[p] \in Nat /\ sold'[p] \in Nat
  BY DEF WorkersInv, TypeOK, Ledger!LedgerTypeOK
<1>7. told[p] + AllOwed(p) <= sold[p]
  BY DEF ToldInv
<1>8. told'[p] + Owed(w, p)' <= told[p] + Owed(w, p) + sold'[p] - sold[p]
  OBVIOUS
<1> QED BY <1>4, <1>5, <1>6, <1>7, <1>8

(* A task that ends owes nothing any more. *)
LEMMA FinishOwes ==
  ASSUME WorkersInv, NEW w \in Workers, Finish(w)
  PROVE  /\ \A x \in Workers : x # w => at'[x] = at[x] /\ out'[x] = out[x]
         /\ \A p \in Products : Owed(w, p)' = 0
BY DEF Finish, WorkersInv, TypeOK, Owed

LEMMA ToldStep ==
  ASSUME WorkersInv, WorkersInv', ToldInv, [Next]_vars
  PROVE  ToldInv'
<1> DEFINE Others(w) == \A x \in Workers : x # w => at'[x] = at[x] /\ out'[x] = out[x]
<1>1. /\ at \in [Workers -> Places] /\ out \in [Workers -> Outcomes \union {NoOutcome}]
      /\ told \in [Products -> Nat] /\ Ledger!LedgerTypeOK
      /\ sold \in [Products -> Nat]
  BY DEF WorkersInv, TypeOK, Ledger!LedgerTypeOK
<1>2. \A w \in Workers : \A p \in Products : Owed(w, p) \in Nat
  BY OwedType
(* Ends without a reply, and replies that owe no sale. *)
<1>3. ASSUME NEW w \in Workers, Finish(w), told' = told, sold' = sold
      PROVE  ToldInv'
  <2>1. \A p \in Products :
          told'[p] + Owed(w, p)' <= told[p] + Owed(w, p) + sold'[p] - sold[p]
    BY <1>1, <1>2, <1>3, FinishOwes
  <2> QED BY <1>3, <2>1, FinishOwes, OwedStep
(* Steps that leave what the worker owes alone. *)
<1>4. ASSUME NEW w \in Workers, Others(w), told' = told, sold' = sold,
             \A p \in Products : Owed(w, p)' = Owed(w, p)
      PROVE  ToldInv'
  <2>1. \A p \in Products :
          told'[p] + Owed(w, p)' <= told[p] + Owed(w, p) + sold'[p] - sold[p]
    BY <1>1, <1>2, <1>4
  <2> QED BY <1>4, <2>1, OwedStep
<1>5. ASSUME NEW w \in Workers, Begin(w)
      PROVE  ToldInv'
  BY <1>1, <1>4, <1>5 DEF Begin, Owed, shelves, history
<1>6. ASSUME NEW w \in Workers, Process(w)
      PROVE  ToldInv'
  <2>1. PICK o \in ProcessMessage(Resumed(old[w]), text[w], Shelf) :
          \/ ProcessQuietly(w, o) \/ ProcessSale(w, o)
          \/ ProcessAddition(w, o) \/ ProcessRaises(w, o)
    BY <1>6 DEF Process
  <2>2. OutcomeOf(Resumed(old[w]), o) /\ at[w] = "process"
    BY <1>1, <1>6, ShelfType, MessageOutcome DEF Process, WorkersInv
  <2>3. CASE ProcessQuietly(w, o)
    BY <1>1, <1>4, <2>2, <2>3 DEF ProcessQuietly, Processed, Goto, Owed, shelves
  <2>4. CASE ProcessSale(w, o)
    <3> DEFINE q == o.effect.product
               n == o.effect.amount
    <3>1. /\ Ledger!Sell(q, n) /\ o.effect.op = "sell"
          /\ out' = [out EXCEPT ![w] = o] /\ at' = [at EXCEPT ![w] = "save"]
          /\ told' = told
      BY <2>4 DEF ProcessSale, Processed, Goto
    <3>2. q \in Products /\ n \in Nat
      BY <2>2, <3>1 DEF OutcomeOf
    <3>3. sold'[q] - sold[q] = n /\ \A p \in Products : p # q => sold'[p] = sold[p]
      BY <1>1, <3>1, <3>2, SellType
    <3>4. /\ Others(w)
          /\ \A p \in Products : Owed(w, p) = 0 /\ Owed(w, p)' = IF p = q THEN n ELSE 0
      BY <1>1, <2>2, <3>1 DEF Owed
    <3>5. sold' \in [Products -> Nat]
      BY DEF WorkersInv, TypeOK, Ledger!LedgerTypeOK
    <3> HIDE DEF q, n
    <3>6. \A p \in Products :
            told'[p] + Owed(w, p)' <= told[p] + Owed(w, p) + sold'[p] - sold[p]
      BY <1>1, <3>1, <3>2, <3>3, <3>4, <3>5
    <3> QED BY <3>4, <3>6, OwedStep
  <2>5. CASE ProcessAddition(w, o)
    <3>1. PICK p \in Products, place \in {"stock", "save"} :
            Ledger!Create(p) /\ Processed(w, [o EXCEPT !.effect.product = p], place)
      BY <2>5 DEF ProcessAddition
    <3>2. o.effect.op = "add"
      BY <2>5 DEF ProcessAddition
    <3>3. [o EXCEPT !.effect.product = p].effect.op = "add"
      BY <2>2, <3>2 DEF OutcomeOf, Effects
    <3>4. \A x \in Products : Owed(w, x) = 0 /\ Owed(w, x)' = 0
      BY <1>1, <2>2, <3>1, <3>3 DEF Processed, Goto, Owed
    <3> QED BY <1>1, <1>4, <3>1, <3>4 DEF Processed, Goto, Ledger!Create
  <2>6. CASE ProcessRaises(w, o)
    BY <1>3, <2>6 DEF ProcessRaises, shelves, history
  <2> QED BY <2>1, <2>3, <2>4, <2>5, <2>6
<1>7. ASSUME NEW w \in Workers, AddStock(w)
      PROVE  ToldInv'
  <2>1. out[w].effect.op = "add" /\ at[w] = "stock"
    BY <1>7 DEF AddStock, WorkersInv, Held
  <2>2. \A p \in Products : Owed(w, p)' = Owed(w, p)
    BY <1>1, <1>7, <2>1 DEF AddStock, Goto, Owed
  <2> QED BY <1>1, <1>4, <1>7, <2>2 DEF AddStock, Goto, Ledger!Receive, history
<1>8. ASSUME NEW w \in Workers, Fail(w) \/ Crash(w) \/ SaveRefused(w)
      PROVE  ToldInv'
  BY <1>3, <1>8 DEF Fail, Crash, SaveRefused, shelves, history
<1>9. ASSUME NEW w \in Workers, Save(w)
      PROVE  ToldInv'
  BY <1>1, <1>4, <1>9 DEF Save, Goto, Owed, shelves
<1>10. ASSUME NEW w \in Workers, Reply(w)
       PROVE  ToldInv'
  <2> DEFINE e == out[w].effect
  <2>1. /\ at[w] = "reply" /\ Finish(w) /\ sold' = sold
        /\ \/ told' = told
           \/ e.op = "sell" /\ told' = [told EXCEPT ![e.product] = @ + e.amount]
    BY <1>10 DEF Reply, shelves
  <2>2. e.amount \in Nat /\ (e.op = "sell" => e.product \in Products)
    BY <2>1 DEF WorkersInv, Held, Outcomes
  <2>3. \A p \in Products : Owed(w, p) = IF e.op = "sell" /\ e.product = p
                                        THEN e.amount ELSE 0
    BY <2>1 DEF Owed
  <2>4. Others(w) /\ \A p \in Products : Owed(w, p)' = 0
    BY <2>1, FinishOwes
  <2> HIDE DEF e
  <2>5. \A p \in Products :
          told'[p] + Owed(w, p)' <= told[p] + Owed(w, p) + sold'[p] - sold[p]
    BY <1>1, <2>1, <2>2, <2>3, <2>4
  <2> QED BY <2>4, <2>5, OwedStep
<1>11. CASE Expire \/ Elsewhere \/ UNCHANGED vars
  <2>1. UNCHANGED <<at, out, told>> /\ sold' = sold
    BY <1>1, <1>11, RestType DEF Expire, Elsewhere, vars, shelves, working, history
  <2>2. \A p \in Products : AllOwed(p)' = AllOwed(p)
    BY <2>1 DEF AllOwed, Owing, Owed
  <2> QED BY <2>1, <2>2 DEF ToldInv
<1> QED BY <1>5, <1>6, <1>7, <1>8, <1>9, <1>10, <1>11 DEF Next

(***************************************************************************)
(* The reply that says a sale is recorded follows the save, and the save   *)
(* the commit: however many workers serve a merchant, and whatever fails   *)
(* or dies between, the units that were told are in the table sales        *)
(* (conversation_task and _send_reply).                                    *)
(***************************************************************************)
THEOREM ToldSalesAreRecorded == Spec => []ToldIsSold
<1>1. Init => ToldInv
  <2> SUFFICES ASSUME Init, NEW p \in Products
               PROVE  told[p] + AllOwed(p) <= sold[p]
    BY DEF ToldInv
  <2>1. \A w \in Workers : Owing(p)[w] = 0
    BY DEF Init, Owing, Owed
  <2>2. AllOwed(p) = 0
    BY <2>1, FiniteWorkers, Sums!SumZero DEF AllOwed
  <2>3. told[p] = 0 /\ sold[p] = 0
    BY DEF Init, Ledger!Init
  <2> QED BY <2>2, <2>3
<1>2. WorkersInv /\ WorkersInv' /\ ToldInv /\ [Next]_vars => ToldInv'
  BY ToldStep
<1>3. WorkersInv /\ ToldInv => ToldIsSold
  <2> SUFFICES ASSUME WorkersInv, ToldInv, NEW p \in Products
               PROVE  told[p] <= sold[p]
    BY DEF ToldIsSold
  <2>1. AllOwed(p) \in Nat /\ told[p] \in Nat /\ sold[p] \in Nat
    BY AllOwedType DEF WorkersInv, TypeOK, Ledger!LedgerTypeOK
  <2> QED BY <2>1 DEF ToldInv
<1> QED BY <1>1, <1>2, <1>3, WorkersInductive, PTL DEF Spec

-----------------------------------------------------------------------------
(* One worker: what it read is what is stored, unless that has expired *)

Serving(w) == at[w] \in {"process", "stock", "save"}

(* A product that waits for its stock is the one of the prompt. *)
AloneInv(w) ==
  /\ Serving(w) => stored \in {Missing, old[w]}
  /\ at[w] = "process" => text[w] \in Typed
  /\ at[w] = "stock" =>
       LET s == Resumed(old[w]) IN
       /\ s.state = "CONFIRM_ADD_PRODUCT"
       /\ out[w].effect.amount = s.qty
       /\ out[w].session = [Clear(s) EXCEPT !.shop = TRUE]

(* No flow goes on with fewer errors than refusals were saved in it. *)
Behind(s) == s.state = "IDLE" \/ strikes <= s.errors

StrikesInv(w) ==
  /\ strikes < MaxErrors
  /\ Behind(Resumed(stored))
  /\ Serving(w) => Behind(Resumed(old[w]))

LEMMA AloneStep ==
  ASSUME NEW w, Workers = {w}, WorkersInv, AloneInv(w), [Next]_vars
  PROVE  AloneInv(w)'
<1>1. /\ at \in [Workers -> Places] /\ old \in [Workers -> Sessions \union {Missing}]
      /\ out \in [Workers -> Outcomes \union {NoOutcome}] /\ w \in Workers
      /\ text \in [Workers -> Typed \union {"none"}]
  BY DEF WorkersInv, TypeOK
<1>2. CASE Begin(w)
  BY <1>1, <1>2 DEF Begin, AloneInv, Serving
<1>3. CASE Process(w)
  <2>1. PICK o \in ProcessMessage(Resumed(old[w]), text[w], Shelf) :
          \/ ProcessQuietly(w, o) \/ ProcessSale(w, o)
          \/ ProcessAddition(w, o) \/ ProcessRaises(w, o)
    BY <1>3 DEF Process
  <2>2. CASE ProcessQuietly(w, o) \/ ProcessSale(w, o)
    BY <1>1, <1>3, <2>2
       DEF Process, ProcessQuietly, ProcessSale, Processed, Goto, AloneInv, Serving
  <2>3. CASE ProcessAddition(w, o)
    <3>1. PICK p \in Products, place \in {"stock", "save"} :
            Processed(w, [o EXCEPT !.effect.product = p], place)
      BY <2>3 DEF ProcessAddition
    <3> DEFINE n == [o EXCEPT !.effect.product = p]
               s == Resumed(old[w])
    <3>2. OutcomeOf(s, o) /\ o.effect.op = "add"
      BY <1>1, <2>3, ShelfType, MessageOutcome
         DEF WorkersInv, TypeOK, ProcessAddition
    <3>3. /\ s.state = "CONFIRM_ADD_PRODUCT" /\ o.effect.amount = s.qty
          /\ o.session = [Clear(s) EXCEPT !.shop = TRUE]
      BY <3>2 DEF OutcomeOf
    <3>4. n.session = o.session /\ n.effect.amount = o.effect.amount
      BY <3>2 DEF OutcomeOf, Effects
    <3> HIDE DEF n, s
    <3>5. /\ out' = [out EXCEPT ![w] = n] /\ at' = [at EXCEPT ![w] = place]
          /\ old' = old /\ stored' = stored
      BY <3>1 DEF Processed, Goto, n
    <3>6. stored \in {Missing, old[w]}
      BY <1>3 DEF Process, AloneInv, Serving
    <3>7. Resumed(old[w])' = s
      BY <3>5 DEF Resumed, s
    <3>8. out'[w] = n /\ at'[w] # "process"
      BY <1>1, <3>5
    <3> QED BY <3>3, <3>4, <3>5, <3>6, <3>7, <3>8 DEF AloneInv
  <2>4. CASE ProcessRaises(w, o)
    BY <1>1, <2>4 DEF ProcessRaises, Finish, AloneInv, Serving
  <2> QED BY <2>1, <2>2, <2>3, <2>4
<1>4. CASE AddStock(w)
  BY <1>1, <1>4 DEF AddStock, Goto, AloneInv, Serving
<1>5. CASE Fail(w) \/ Crash(w) \/ SaveRefused(w) \/ Reply(w)
  BY <1>1, <1>5 DEF Fail, Crash, SaveRefused, Reply, Finish, AloneInv, Serving
<1>6. CASE Save(w)
  BY <1>1, <1>6 DEF Save, Goto, AloneInv, Serving
<1>7. CASE Expire \/ Elsewhere \/ UNCHANGED vars
  BY <1>7 DEF Expire, Elsewhere, vars, working, AloneInv, Serving, Resumed
<1> QED BY <1>2, <1>3, <1>4, <1>5, <1>6, <1>7 DEF Next

(* A refusal that does not end the flow is counted. *)
LEMMA RefusalCounts ==
  ASSUME NEW s, WellFormed(s), NEW n, n = Refused(s).session
  PROVE  n.state = "IDLE" \/ (n.errors = s.errors + 1 /\ n.state = s.state)
<1>1. CASE s.errors + 1 >= MaxErrors
  <2>1. n = Clear(s)
    BY <1>1 DEF Refused
  <2> QED BY <2>1 DEF Clear, NewSession
<1>2. CASE ~ (s.errors + 1 >= MaxErrors)
  BY <1>2 DEF Refused, WellFormed, Sessions
<1> QED BY <1>1, <1>2

LEMMA StrikesStep ==
  ASSUME NEW w, Workers = {w}, WorkersInv, AloneInv(w), StrikesInv(w), [Next]_vars
  PROVE  StrikesInv(w)'
<1>1. /\ at \in [Workers -> Places] /\ old \in [Workers -> Sessions \union {Missing}]
      /\ strikes \in 0..MaxErrors /\ w \in Workers
  BY DEF WorkersInv, TypeOK
<1>2. Resumed(Missing).state = "IDLE"
  BY NewIsWellFormed DEF Resumed
(* Nothing is saved, and what is stored is there or has expired. *)
<1>3. ASSUME strikes' = strikes, stored' \in {stored, Missing},
             Serving(w)' => old'[w] = stored \/ (Serving(w) /\ old'[w] = old[w])
      PROVE  StrikesInv(w)'
  BY <1>2, <1>3 DEF StrikesInv, Behind, Resumed
<1>4. CASE Begin(w)
  BY <1>1, <1>3, <1>4 DEF Begin, history
<1>5. CASE Process(w)
  <2>1. strikes' = strikes /\ stored' = stored /\ Serving(w)
    BY <1>5 DEF Process, ProcessQuietly, ProcessSale, ProcessAddition, ProcessRaises,
                Processed, history, Serving
  <2>2. old' = old \/ Finish(w)
    BY <1>5 DEF Process, ProcessQuietly, ProcessSale, ProcessAddition, ProcessRaises,
                Processed, Goto
  <2> QED BY <1>1, <1>3, <2>1, <2>2 DEF Finish, Serving
<1>6. CASE AddStock(w)
  BY <1>1, <1>3, <1>6 DEF AddStock, Goto, history, Serving
<1>7. CASE Fail(w) \/ Crash(w) \/ SaveRefused(w) \/ Reply(w)
  BY <1>1, <1>3, <1>7
     DEF Fail, Crash, SaveRefused, Reply, Finish, history, Serving
<1>8. CASE Save(w)
  <2> DEFINE new == out[w].session
             was == Resumed(old[w])
  <2>1. /\ at[w] = "save" /\ stored' = new /\ at' = [at EXCEPT ![w] = "reply"]
        /\ strikes' = IF out[w].reply = "refused" /\ new.state # "IDLE"
                      THEN (IF strikes < MaxErrors THEN strikes + 1 ELSE strikes)
                      ELSE 0
    BY <1>8 DEF Save, Goto
  <2>2. Held(w) /\ WellFormed(new) /\ WellFormed(was) /\ Behind(was)
    BY <2>1 DEF WorkersInv, Held, StrikesInv, Serving
  <2>3. out[w].reply = "refused" =>
          new.state = "IDLE" \/ (new.errors = was.errors + 1 /\ new.state = was.state)
    BY <2>2, RefusalCounts DEF Held
  <2>4. /\ new \in Sessions /\ new.errors \in 0..MaxErrors - 1
        /\ was.errors \in 0..MaxErrors - 1 /\ MaxErrors \in Nat \ {0}
    BY <2>2, FSMAssumption DEF WellFormed, Sessions
  <2>5. Resumed(stored') = new /\ ~ Serving(w)'
    BY <1>1, <2>1, <2>4, ResumedSession DEF Serving
  <2>6. strikes < MaxErrors
    BY DEF StrikesInv
  <2> HIDE DEF new, was
  <2>7. CASE out[w].reply = "refused" /\ new.state # "IDLE"
    <3>1. strikes' = strikes + 1 /\ strikes <= was.errors
      BY <2>1, <2>2, <2>3, <2>6, <2>7 DEF Behind
    <3>2. strikes' <= new.errors /\ strikes' < MaxErrors
      BY <1>1, <2>3, <2>4, <2>7, <3>1
    <3> QED BY <2>5, <3>2 DEF StrikesInv, Behind, Resumed
  <2>8. CASE ~ (out[w].reply = "refused" /\ new.state # "IDLE")
    <3>1. strikes' = 0
      BY <2>1, <2>8
    <3>2. strikes' <= new.errors /\ strikes' < MaxErrors
      BY <2>4, <3>1
    <3> QED BY <2>5, <3>2 DEF StrikesInv, Behind, Resumed
  <2> QED BY <2>7, <2>8
<1>9. CASE Expire \/ Elsewhere \/ UNCHANGED vars
  BY <1>3, <1>9 DEF Expire, Elsewhere, vars, working, history, Serving
<1> QED BY <1>4, <1>5, <1>6, <1>7, <1>8, <1>9 DEF Next

LEMMA AloneInit ==
  ASSUME NEW w, Workers = {w}, Init
  PROVE  AloneInv(w) /\ StrikesInv(w)
<1>1. Behind(NewSession)
  BY NewIsWellFormed DEF Behind
<1>2. at[w] = "idle"
  BY DEF Init
<1> QED BY <1>1, <1>2, FSMAssumption DEF Init, AloneInv, StrikesInv, Serving, Resumed

THEOREM AloneInductive ==
  ASSUME NEW CONSTANT w, Workers = {w}
  PROVE  Spec => [](AloneInv(w) /\ StrikesInv(w))
<1>1. Init => AloneInv(w) /\ StrikesInv(w)
  BY AloneInit
<1>2. WorkersInv /\ AloneInv(w) /\ StrikesInv(w) /\ [Next]_vars
        => AloneInv(w)' /\ StrikesInv(w)'
  BY AloneStep, StrikesStep
<1> QED BY <1>1, <1>2, WorkersInductive, PTL DEF Spec

(***************************************************************************)
(* One worker gives a flow up at the refusal that MaxErrors says, though   *)
(* the session expires and transactions fail between the refusals, and     *)
(* though the task dies before it saves or replies                         *)
(* (FSMEngine.process_message, error_count).                               *)
(***************************************************************************)
THEOREM OneWorkerCountsRefusals ==
  ASSUME NEW CONSTANT w, Workers = {w}
  PROVE  Spec => []StrikesCounted
<1>1. StrikesInv(w) => StrikesCounted
  BY DEF StrikesInv, StrikesCounted
<1> QED BY <1>1, AloneInductive, PTL

-----------------------------------------------------------------------------
(* One worker that loses no task after its commit: one sale for a prompt *)

(* Wherever the conversation stands at a prompt, the prompt is open. *)
PromptInv(w) ==
  /\ at[w] \in {"idle", "reply"} /\ IsPrompt(Resumed(stored)) => prompt = "open"
  /\ at[w] = "process" /\ IsPrompt(Resumed(old[w])) => prompt = "open"
  /\ at[w] = "save" /\ IsPrompt(out[w].session) /\ IsPrompt(Resumed(old[w]))
       => prompt = "open"

SellStep == sold' # sold => prompt # "sold"

LEMMA PromptStep ==
  ASSUME NEW w, Workers = {w}, ~ Crashes, WorkersInv, AloneInv(w), PromptInv(w),
         [Next]_vars
  PROVE  PromptInv(w)' /\ SellStep
<1>1. /\ at \in [Workers -> Places] /\ old \in [Workers -> Sessions \union {Missing}]
      /\ out \in [Workers -> Outcomes \union {NoOutcome}] /\ w \in Workers
      /\ Ledger!LedgerTypeOK
  BY DEF WorkersInv, TypeOK
<1>2. ~ IsPrompt(Resumed(Missing))
  BY DEF Resumed, NewSession, IsPrompt
<1>3. CASE Begin(w)
  BY <1>1, <1>3 DEF Begin, PromptInv, SellStep, shelves, history, Resumed
<1>4. CASE Process(w)
  <2> DEFINE s == Resumed(old[w])
  <2>1. PICK o \in ProcessMessage(s, text[w], Shelf) :
          \/ ProcessQuietly(w, o) \/ ProcessSale(w, o)
          \/ ProcessAddition(w, o) \/ ProcessRaises(w, o)
    BY <1>4 DEF Process
  <2>2. OutcomeOf(s, o) /\ at[w] = "process"
    BY <1>1, <1>4, ShelfType, MessageOutcome DEF Process, WorkersInv
  <2>3. IsPrompt(s) => prompt = "open"
    BY <2>2 DEF PromptInv
  <2> HIDE DEF s
  <2>4. CASE ProcessQuietly(w, o)
    <3>1. /\ at'[w] = "save" /\ out'[w] = o /\ Resumed(old[w])' = s
          /\ prompt' = prompt /\ sold' = sold
      BY <1>1, <2>4 DEF ProcessQuietly, Processed, Goto, shelves, Resumed, s
    <3> QED BY <2>3, <3>1 DEF PromptInv, SellStep
  <2>5. CASE ProcessSale(w, o)
    <3>1. at'[w] = "save" /\ out'[w] = o /\ IsPrompt(s) /\ ~ IsPrompt(o.session)
      BY <1>1, <2>2, <2>5 DEF ProcessSale, Processed, Goto, OutcomeOf, IsPrompt
    <3> QED BY <2>3, <3>1 DEF PromptInv, SellStep
  <2>6. CASE ProcessAddition(w, o)
    <3> DEFINE place == IF o.effect.amount > 0 THEN "stock" ELSE "save"
    <3>1. PICK p \in Products :
            Ledger!Create(p) /\ Processed(w, [o EXCEPT !.effect.product = p], place)
      BY <2>6 DEF ProcessAddition
    <3> DEFINE n == [o EXCEPT !.effect.product = p]
    <3>2. n.session = o.session /\ place \in {"stock", "save"}
      BY <2>2 DEF OutcomeOf
    <3>3. Processed(w, n, place)
      BY <3>1
    <3> HIDE DEF n, place
    <3>4. /\ at'[w] = place /\ out'[w] = n /\ Resumed(old[w])' = s
          /\ prompt' = prompt /\ sold' = sold
      BY <1>1, <2>6, <3>1, <3>3
         DEF ProcessAddition, Processed, Goto, Ledger!Create, Resumed, s
    <3>5. ~ IsPrompt(o.session)
      BY <2>2, <2>6 DEF ProcessAddition, OutcomeOf, Clear, NewSession, IsPrompt
    <3> QED BY <3>2, <3>4, <3>5 DEF PromptInv, SellStep
  <2>7. CASE ProcessRaises(w, o)
    <3>1. /\ at'[w] = "idle" /\ stored' = stored /\ prompt' = prompt /\ sold' = sold
      BY <1>1, <2>7 DEF ProcessRaises, Finish, shelves, history
    <3>2. stored \in {Missing, old[w]}
      BY <2>2 DEF AloneInv, Serving
    <3> QED BY <1>2, <2>3, <3>1, <3>2 DEF PromptInv, SellStep, Resumed, s
  <2> QED BY <2>1, <2>4, <2>5, <2>6, <2>7
<1>5. CASE AddStock(w)
  <2>1. /\ at'[w] = "save" /\ out'[w] = out[w] /\ prompt' = prompt /\ sold' = sold
    BY <1>1, <1>5 DEF AddStock, Goto, history, Ledger!Receive
  <2>2. ~ IsPrompt(out[w].session)
    BY <1>5 DEF AddStock, AloneInv, Clear, NewSession, IsPrompt
  <2> QED BY <2>1, <2>2 DEF PromptInv, SellStep
<1>6. CASE Fail(w)
  <2>1. /\ at[w] \in {"process", "stock"} /\ at'[w] = "idle" /\ stored' = stored
        /\ prompt' = prompt /\ sold' = sold
    BY <1>1, <1>6 DEF Fail, Finish, shelves, history
  <2>2. stored \in {Missing, old[w]}
    BY <2>1 DEF AloneInv, Serving
  <2>3. IsPrompt(Resumed(old[w])) => prompt = "open"
    BY <2>1 DEF PromptInv, AloneInv, IsPrompt
  <2> QED BY <1>2, <2>1, <2>2, <2>3 DEF PromptInv, SellStep, Resumed
<1>7. CASE Save(w)
  <2> DEFINE new == out[w].session
             was == Resumed(old[w])
  <2>1. /\ at[w] = "save" /\ at'[w] = "reply" /\ stored' = new /\ sold' = sold
        /\ prompt' = IF IsPrompt(new) /\ ~ IsPrompt(was) THEN "open" ELSE prompt
    BY <1>1, <1>7 DEF Save, Goto, shelves
  <2>2. new \in Sessions /\ Resumed(stored)' = new
    BY <2>1, ResumedSession DEF WorkersInv, Held, WellFormed, Resumed
  <2>3. IsPrompt(new) => prompt' = "open"
    BY <2>1 DEF PromptInv
  <2> QED BY <2>1, <2>2, <2>3 DEF PromptInv, SellStep
<1>8. CASE Reply(w)
  <2>1. /\ at[w] = "reply" /\ at'[w] = "idle" /\ stored' = stored
        /\ prompt' = prompt /\ sold' = sold
    BY <1>1, <1>8 DEF Reply, Finish, shelves
  <2> QED BY <2>1 DEF PromptInv, SellStep, Resumed
<1>9. ~ Crash(w) /\ ~ SaveRefused(w)
  BY DEF AloneInv, Serving, Matches, Crash, SaveRefused
<1>10. CASE Expire
  BY <1>2, <1>10 DEF Expire, working, shelves, history, PromptInv, SellStep, Resumed
<1>11. CASE Elsewhere
  <2>1. sold' = sold
    BY <1>1, <1>11, RestType DEF Elsewhere
  <2> QED BY <1>11, <2>1 DEF Elsewhere, working, history, PromptInv, SellStep, Resumed
<1>12. CASE UNCHANGED vars
  BY <1>12 DEF vars, shelves, working, history, PromptInv, SellStep, Resumed
<1> QED BY <1>3, <1>4, <1>5, <1>6, <1>7, <1>8, <1>9, <1>10, <1>11, <1>12 DEF Next

(***************************************************************************)
(* README.md, CONFIRM_SALE --> IDLE: a prompt that was confirmed records   *)
(* no second sale, if one worker serves the merchant and is not lost       *)
(* between its commit and its save (conversation_task); two workers break  *)
(* this, and so does a crash.                                              *)
(***************************************************************************)
THEOREM OneWorkerSellsOnce ==
  ASSUME NEW CONSTANT w, Workers = {w}, ~ Crashes
  PROVE  Spec => SoldOnce
<1>1. Init => PromptInv(w)
  BY DEF Init, PromptInv, Resumed, NewSession, IsPrompt
<1>2. WorkersInv /\ AloneInv(w) /\ PromptInv(w) /\ [Next]_vars
        => PromptInv(w)' /\ [sold' # sold => prompt # "sold"]_vars
  BY PromptStep DEF SellStep
<1> QED BY <1>1, <1>2, WorkersInductive, AloneInductive, PTL DEF Spec, SoldOnce

-----------------------------------------------------------------------------
(* One worker that loses no task after its commit: a Dialogue *)

LEMMA SameAtomicProcessMessage ==
  ASSUME NEW s, NEW t, NEW shelf
  PROVE  Atomic!ProcessMessage(s, t, shelf) = ProcessMessage(s, t, shelf)
BY DEF Override, IntentOf, IsDigits, Number, IsName, IsPrice, PriceRaises, Confirms,
  Declines, NoQty, NewSession, NoEffect, Sale, Addition, DailyReport, Accepted, Moved,
  Raised, Clear, Refused, In, Choices, Cardinality, Chosen, ValidChoice, HandleQuery,
  HandleUnknown, HandleIdle, HandleName, HandlePrice, HandleQty, HandleConfirm,
  HandleSaleProductName, HandleSaleProductSelection, HandleSaleProductQty,
  HandleConfirmSale, Inventory, HandleStockName, HandleStockProductSelection,
  HandleProductSelection, ProcessMessage, Atomic!Override, Atomic!IntentOf, Atomic!IsDigits, Atomic!Number,
  Atomic!IsName, Atomic!IsPrice, Atomic!PriceRaises, Atomic!Confirms, Atomic!Declines, Atomic!NoQty, Atomic!NewSession,
  Atomic!NoEffect, Atomic!Sale, Atomic!Addition, Atomic!DailyReport, Atomic!Accepted, Atomic!Moved, Atomic!Raised, Atomic!Clear,
  Atomic!Refused, Atomic!In, Atomic!Choices, Atomic!Cardinality, Atomic!Chosen, Atomic!ValidChoice, Atomic!HandleQuery,
  Atomic!HandleUnknown, Atomic!HandleIdle, Atomic!HandleName, Atomic!HandlePrice, Atomic!HandleQty,
  Atomic!HandleConfirm, Atomic!HandleSaleProductName, Atomic!HandleSaleProductSelection,
  Atomic!HandleSaleProductQty, Atomic!HandleConfirmSale, Atomic!Inventory, Atomic!HandleStockName,
  Atomic!HandleStockProductSelection, Atomic!HandleProductSelection, Atomic!ProcessMessage

LEMMA SameAtomic ==
  /\ Atomic!NewSession = NewSession /\ Atomic!Shelf = Shelf
  /\ Atomic!shelves = shelves /\ Atomic!shelves' = shelves'
  /\ Atomic!Ledger!Init <=> Ledger!Init
  /\ Atomic!RestCommits <=> RestCommits
  /\ \A s : Atomic!Clear(s) = Clear(s)
  /\ \A p : Atomic!Ledger!Create(p) <=> Ledger!Create(p)
  /\ \A p, n : /\ Atomic!Ledger!Receive(p, n) <=> Ledger!Receive(p, n)
               /\ Atomic!Ledger!Sell(p, n) <=> Ledger!Sell(p, n)
BY DEF Atomic!NewSession, NewSession, Atomic!NoQty, NoQty, Atomic!Shelf, Shelf,
  Atomic!shelves, shelves, Atomic!Clear, Clear, Atomic!RestCommits, RestCommits,
  Atomic!Ledger!Init, Ledger!Init, Atomic!Ledger!Create, Ledger!Create,
  Atomic!Ledger!Receive, Ledger!Receive, Atomic!Ledger!Sell, Ledger!Sell,
  Atomic!Ledger!Delete, Ledger!Delete, Atomic!Ledger!Deduct, Ledger!Deduct,
  Atomic!Ledger!SetThreshold, Ledger!SetThreshold

(* The product of the refinement that waits for its stock. *)
Adding == IF at[TheWorker] = "stock" THEN out[TheWorker].effect.product ELSE NoProduct

LEMMA Seen ==
  ASSUME NEW w, Workers = {w}
  PROVE  /\ at[w] \in {"idle", "reply"} =>
              SessionSeen = Resumed(stored) /\ Adding = NoProduct
         /\ at[w] = "process" => SessionSeen = Resumed(old[w]) /\ Adding = NoProduct
         /\ at[w] = "stock" =>
              SessionSeen = Resumed(old[w]) /\ Adding = out[w].effect.product
         /\ at[w] = "save" => SessionSeen = out[w].session /\ Adding = NoProduct
<1>1. TheWorker = w
  BY DEF TheWorker
<1>2. CASE at[w] \in {"idle", "reply"}
  BY <1>1, <1>2 DEF SessionSeen, Adding
<1>3. CASE at[w] = "process"
  BY <1>1, <1>3 DEF SessionSeen, Adding
<1>4. CASE at[w] = "stock"
  BY <1>1, <1>4 DEF SessionSeen, Adding
<1>5. CASE at[w] = "save"
  BY <1>1, <1>5 DEF SessionSeen, Adding
<1> QED BY <1>2, <1>3, <1>4, <1>5

LEMMA SeenNext ==
  ASSUME NEW w, Workers = {w}
  PROVE  /\ at'[w] \in {"idle", "reply"} =>
              SessionSeen' = Resumed(stored') /\ Adding' = NoProduct
         /\ at'[w] = "process" => SessionSeen' = Resumed(old'[w]) /\ Adding' = NoProduct
         /\ at'[w] = "stock" =>
              SessionSeen' = Resumed(old'[w]) /\ Adding' = out'[w].effect.product
         /\ at'[w] = "save" => SessionSeen' = out'[w].session /\ Adding' = NoProduct
<1>1. TheWorker = w
  BY DEF TheWorker
<1>2. CASE at'[w] \in {"idle", "reply"}
  BY <1>1, <1>2 DEF SessionSeen, Adding, Resumed
<1>3. CASE at'[w] = "process"
  BY <1>1, <1>3 DEF SessionSeen, Adding, Resumed
<1>4. CASE at'[w] = "stock"
  BY <1>1, <1>4 DEF SessionSeen, Adding, Resumed
<1>5. CASE at'[w] = "save"
  BY <1>1, <1>5 DEF SessionSeen, Adding
<1> QED BY <1>2, <1>3, <1>4, <1>5

LEMMA StutterSeen ==
  ASSUME UNCHANGED shelves, SessionSeen' = SessionSeen, Adding' = Adding
  PROVE  UNCHANGED Atomic!dialogue
BY SameAtomic DEF Atomic!dialogue, Adding

(* A task that ends before its commit leaves the session as it was, or as *)
(* one that has expired, and a product without its stock.                 *)
LEMMA LostSeen ==
  ASSUME NEW w, Workers = {w}, WorkersInv, AloneInv(w),
         at[w] \in {"process", "stock"}, at'[w] = "idle", UNCHANGED <<shelves, stored>>
  PROVE  Atomic!Next \/ UNCHANGED Atomic!dialogue
<1>1. SessionSeen' = Resumed(stored) /\ Adding' = NoProduct
  BY SeenNext DEF Resumed
<1>2. SessionSeen = Resumed(old[w])
  BY Seen
<1>3. SessionSeen' = SessionSeen \/ SessionSeen' = NewSession
  BY <1>1, <1>2 DEF AloneInv, Serving, Resumed
<1>4. CASE at[w] = "process"
  <2>1. Adding = NoProduct
    BY <1>4, Seen
  <2>2. CASE SessionSeen' = SessionSeen
    BY <1>1, <2>1, <2>2, StutterSeen
  <2>3. CASE SessionSeen' = NewSession
    <3>1. Atomic!Expire
      BY <1>1, <2>1, <2>3, SameAtomic DEF Atomic!Expire, Adding
    <3> QED BY <3>1 DEF Atomic!Next
  <2> QED BY <1>3, <2>2, <2>3
<1>5. CASE at[w] = "stock"
  <2>1. Adding = out[w].effect.product /\ Adding # NoProduct
    BY <1>5, Seen, FSMAssumption DEF WorkersInv, Held
  <2>2. Atomic!GiveUpAdding
    BY <1>1, <1>3, <2>1, SameAtomic DEF Atomic!GiveUpAdding, Adding
  <2> QED BY <2>2 DEF Atomic!Next
<1> QED BY <1>4, <1>5

LEMMA SaySeen ==
  ASSUME NEW t \in Typed, NEW o \in ProcessMessage(SessionSeen, t, Shelf),
         Adding = NoProduct, Adding' = NoProduct, SessionSeen' = o.session,
         ~(o.effect.op = "add" /\ o.effect.amount > 0),
         o.effect.op = "sell" => Ledger!Sell(o.effect.product, o.effect.amount),
         o.effect.op = "add" => \E p \in Products : Ledger!Create(p),
         o.effect.op \notin {"sell", "add"} => UNCHANGED shelves
  PROVE  Atomic!Next
<1>1. o \in Atomic!ProcessMessage(SessionSeen, t, Atomic!Shelf)
  BY SameAtomic, SameAtomicProcessMessage
<1>2. Atomic!Effect(o.effect)
  <2>1. CASE o.effect.op = "sell"
    BY <2>1, SameAtomic DEF Atomic!Effect
  <2>2. CASE o.effect.op = "add"
    BY <2>2, SameAtomic DEF Atomic!Effect
  <2>3. CASE o.effect.op \notin {"sell", "add"}
    BY <2>3, SameAtomic DEF Atomic!Effect
  <2> QED BY <2>1, <2>2, <2>3
<1>3. Atomic!Say(t)
  BY <1>1, <1>2 DEF Atomic!Say, Adding
<1> QED BY <1>3 DEF Atomic!Next

LEMMA ProcessSeen ==
  ASSUME NEW w, Workers = {w}, WorkersInv, AloneInv(w), Process(w)
  PROVE  Atomic!Next \/ UNCHANGED Atomic!dialogue
<1> DEFINE s == Resumed(old[w])
           t == text[w]
<1>1. /\ at \in [Workers -> Places] /\ at[w] = "process" /\ w \in Workers
      /\ out \in [Workers -> Outcomes \union {NoOutcome}]
      /\ stored \in {Missing, old[w]} /\ t \in Typed
  BY DEF Process, WorkersInv, TypeOK, AloneInv, Serving
<1>2. SessionSeen = s /\ Adding = NoProduct
  BY <1>1, Seen
<1>3. PICK o \in ProcessMessage(s, t, Shelf) :
        \/ ProcessQuietly(w, o) \/ ProcessSale(w, o)
        \/ ProcessAddition(w, o) \/ ProcessRaises(w, o)
  BY DEF Process
<1>4. t \in Typed /\ OutcomeOf(s, o)
  BY <1>1, <1>3, ShelfType, MessageOutcome DEF WorkersInv, TypeOK
<1> HIDE DEF s, t
<1>5. CASE ProcessQuietly(w, o) \/ ProcessSale(w, o)
  <2>1. out' = [out EXCEPT ![w] = o] /\ at' = [at EXCEPT ![w] = "save"]
    BY <1>5 DEF ProcessQuietly, ProcessSale, Processed, Goto
  <2>2. SessionSeen' = o.session /\ Adding' = NoProduct
    BY <1>1, <2>1, SeenNext
  <2> QED BY <1>2, <1>4, <1>5, <2>2, SaySeen DEF ProcessQuietly, ProcessSale
<1>6. CASE ProcessAddition(w, o)
  <2> DEFINE place == IF o.effect.amount > 0 THEN "stock" ELSE "save"
  <2>1. PICK p \in Products :
          Ledger!Create(p) /\ Processed(w, [o EXCEPT !.effect.product = p], place)
    BY <1>6 DEF ProcessAddition
  <2> DEFINE n == [o EXCEPT !.effect.product = p]
  <2>2. /\ o.effect.op = "add"
        /\ n.session = o.session /\ n.effect.product = p
    BY <1>4, <1>6 DEF ProcessAddition, OutcomeOf, Effects
  <2>3. /\ out' = [out EXCEPT ![w] = n] /\ at' = [at EXCEPT ![w] = place]
        /\ old' = old
    BY <2>1 DEF Processed, Goto
  <2> HIDE DEF n
  <2>4. CASE o.effect.amount > 0
    <3>1. at'[w] = "stock" /\ out'[w] = n
      BY <1>1, <2>3, <2>4
    <3>2. SessionSeen' = s /\ Adding' = p
      BY <2>2, <2>3, <3>1, SeenNext DEF Resumed, s
    <3>3. o \in Atomic!ProcessMessage(SessionSeen, t, Atomic!Shelf)
      BY <1>2, SameAtomic, SameAtomicProcessMessage
    <3>4. Atomic!StartAdding(t)
      BY <1>2, <2>1, <2>2, <2>4, <3>2, <3>3, SameAtomic DEF Atomic!StartAdding, Adding
    <3> QED BY <1>4, <3>4 DEF Atomic!Next
  <2>5. CASE ~ (o.effect.amount > 0)
    <3>1. at'[w] = "save" /\ out'[w] = n
      BY <1>1, <2>3, <2>5
    <3>2. SessionSeen' = o.session /\ Adding' = NoProduct
      BY <2>2, <3>1, SeenNext
    <3> QED BY <1>2, <1>4, <2>1, <2>2, <2>5, <3>2, SaySeen
  <2> QED BY <2>4, <2>5
<1>7. CASE ProcessRaises(w, o)
  <2>1. at'[w] = "idle" /\ UNCHANGED <<shelves, stored>>
    BY <1>1, <1>7 DEF ProcessRaises, Finish
  <2> QED BY <1>1, <1>2, <2>1, LostSeen DEF s
<1> QED BY <1>3, <1>5, <1>6, <1>7

LEMMA OneWorkerStep ==
  ASSUME NEW w, Workers = {w}, ~ Crashes, WorkersInv, AloneInv(w), [Next]_vars
  PROVE  Atomic!Next \/ UNCHANGED Atomic!dialogue
<1>1. /\ at \in [Workers -> Places] /\ w \in Workers
      /\ out \in [Workers -> Outcomes \union {NoOutcome}]
      /\ old \in [Workers -> Sessions \union {Missing}]
      /\ stored \in Sessions \union {Missing}
  BY DEF WorkersInv, TypeOK
<1>2. CASE Begin(w)
  <2>1. /\ at[w] = "idle" /\ at'[w] = "process" /\ old'[w] = stored
        /\ shelves' = shelves
    BY <1>1, <1>2 DEF Begin
  <2>2. SessionSeen' = SessionSeen /\ Adding' = Adding
    BY <2>1, Seen, SeenNext DEF Resumed
  <2> QED BY <2>1, <2>2, StutterSeen
<1>3. CASE Process(w)
  BY <1>3, ProcessSeen
<1>4. CASE AddStock(w)
  <2> DEFINE p == out[w].effect.product
             n == out[w].effect.amount
             s == Resumed(old[w])
  <2>1. /\ at[w] = "stock" /\ at'[w] = "save" /\ out'[w] = out[w]
        /\ Ledger!Receive(p, n)
    BY <1>1, <1>4 DEF AddStock, Goto
  <2>2. /\ n = s.qty /\ out[w].session = [Clear(s) EXCEPT !.shop = TRUE]
        /\ p \in Products /\ p # NoProduct
    BY <2>1, FSMAssumption DEF AloneInv, WorkersInv, Held
  <2>3. /\ SessionSeen = s /\ Adding = p
        /\ SessionSeen' = out[w].session /\ Adding' = NoProduct
    BY <2>1, Seen, SeenNext
  <2> HIDE DEF p, n, s
  <2>4. Atomic!FinishAdding
    BY <2>1, <2>2, <2>3, SameAtomic DEF Atomic!FinishAdding, Adding
  <2> QED BY <2>4 DEF Atomic!Next
<1>5. CASE Fail(w)
  <2>1. /\ at[w] \in {"process", "stock"} /\ at'[w] = "idle"
        /\ UNCHANGED <<shelves, stored>>
    BY <1>1, <1>5 DEF Fail, Finish
  <2> QED BY <2>1, LostSeen
<1>6. CASE Save(w)
  <2>1. /\ at[w] = "save" /\ at'[w] = "reply" /\ stored' = out[w].session
        /\ shelves' = shelves
    BY <1>1, <1>6 DEF Save, Goto
  <2>2. out[w].session \in Sessions
    BY <2>1 DEF WorkersInv, Held, WellFormed
  <2>3. SessionSeen' = SessionSeen /\ Adding' = Adding
    BY <2>1, <2>2, Seen, SeenNext, ResumedSession
  <2> QED BY <2>1, <2>3, StutterSeen
<1>7. CASE Reply(w)
  <2>1. /\ at[w] = "reply" /\ at'[w] = "idle" /\ UNCHANGED <<shelves, stored>>
    BY <1>1, <1>7 DEF Reply, Finish
  <2>2. SessionSeen' = SessionSeen /\ Adding' = Adding
    BY <2>1, Seen, SeenNext DEF Resumed
  <2> QED BY <2>1, <2>2, StutterSeen
(* What a worker alone has read is there, or has expired. *)
<1>8. ~ Crash(w) /\ ~ SaveRefused(w)
  <2>1. at[w] = "save" => Matches(w)
    BY DEF AloneInv, Serving, Matches
  <2> QED BY <2>1 DEF Crash, SaveRefused
<1>9. CASE Expire
  <2>1. /\ at' = at /\ old' = old /\ out' = out /\ shelves' = shelves
        /\ Resumed(stored') = NewSession
    BY <1>9 DEF Expire, working, Resumed
  <2>2. CASE at[w] \in {"idle", "reply"}
    <3>1. SessionSeen' = NewSession /\ Adding = NoProduct /\ Adding' = NoProduct
      BY <2>1, <2>2, Seen, SeenNext
    <3>2. Atomic!Expire
      BY <2>1, <3>1, SameAtomic DEF Atomic!Expire, Adding
    <3> QED BY <3>2 DEF Atomic!Next
  <2>3. CASE at[w] \in {"process", "stock", "save"}
    <3>1. SessionSeen' = SessionSeen /\ Adding' = Adding
      BY <2>1, <2>3, Seen, SeenNext DEF Resumed
    <3> QED BY <2>1, <3>1, StutterSeen
  <2> QED BY <1>1, <2>2, <2>3 DEF Places
<1>10. CASE Elsewhere
  <2>1. UNCHANGED <<at, old, out, stored>> /\ RestCommits
    BY <1>10 DEF Elsewhere, working
  <2>2. SessionSeen' = SessionSeen /\ Adding' = Adding
    BY <2>1 DEF SessionSeen, Adding, Resumed
  <2>3. Atomic!Elsewhere
    BY <2>1, <2>2, SameAtomic DEF Atomic!Elsewhere, Adding
  <2> QED BY <2>3 DEF Atomic!Next
<1>11. CASE UNCHANGED vars
  <2>1. UNCHANGED <<at, old, out, stored, shelves>>
    BY <1>11 DEF vars, working
  <2>2. SessionSeen' = SessionSeen /\ Adding' = Adding
    BY <2>1 DEF SessionSeen, Adding, Resumed
  <2> QED BY <2>1, <2>2, StutterSeen
<1> QED BY <1>2, <1>3, <1>4, <1>5, <1>6, <1>7, <1>8, <1>9, <1>10, <1>11 DEF Next

(***************************************************************************)
(* A worker that serves a merchant alone, and is not lost between its      *)
(* commit and its save, makes reading the session, processing, committing, *)
(* saving and replying one step of the dialogue: conversation_task is      *)
(* atomic for the merchant, whatever the database refuses, whenever the    *)
(* session expires and whatever the REST interface commits meanwhile.      *)
(***************************************************************************)
THEOREM OneWorkerIsADialogue ==
  ASSUME NEW CONSTANT w, Workers = {w}, ~ Crashes
  PROVE  Spec => ImplementsDialogue
<1>1. Init => Atomic!Init
  <2> SUFFICES ASSUME Init PROVE Atomic!Init
    OBVIOUS
  <2>1. at[w] = "idle" /\ stored = Missing /\ Ledger!Init
    BY DEF Init
  <2>2. SessionSeen = NewSession /\ Adding = NoProduct
    BY <2>1, Seen DEF Resumed
  <2> QED BY <2>1, <2>2, SameAtomic DEF Atomic!Init, Adding
<1>2. WorkersInv /\ AloneInv(w) /\ [Next]_vars
        => [Atomic!Next]_(Atomic!dialogue)
  BY OneWorkerStep
<1> QED BY <1>1, <1>2, WorkersInductive, AloneInductive, PTL
        DEF Spec, ImplementsDialogue, Atomic!Spec
=============================================================================
