-------------------------- MODULE ConversationWorkers --------------------------
(***************************************************************************)
(* conversation_task as Celery runs it: several workers serve the messages *)
(* of one merchant.  A worker reads the session from Redis, lets FSMEngine *)
(* process the text in a database transaction, commits, saves the session  *)
(* by a script that compares nothing but its state, and replies.           *)
(*                                                                         *)
(*   idle --Begin--> process --Process--> save --Save--> reply --Reply-->  *)
(*                      |                   ^                              *)
(*                      +----> stock -------+    (a new product's stock)   *)
(*                                                                         *)
(* Nothing keeps two messages of one merchant apart or in order, the task  *)
(* is acknowledged before it runs, and an exception ends it without a      *)
(* reply, so a message is handled at most once and maybe not to its end.   *)
(***************************************************************************)
EXTENDS ConversationFSM

CONSTANTS
  Workers,           \* the processes of the conversation worker
  NoOutcome,         \* what a worker has that processed nothing
  Missing,           \* there is no session of the merchant in Redis
  Typed, Quantities, Thresholds, DefaultThreshold, MaxStock, MaxReceived,
                     \* as in Dialogue
  Crashes            \* may a worker die, or Redis refuse, after the commit?

ASSUME WorkersAssumption ==
  /\ IsFiniteSet(Workers)
  /\ Missing \notin Sessions
  /\ Typed \subseteq Texts
  /\ Quantities \subseteq Nat \ {0}
  /\ Thresholds \subseteq Nat
  /\ DefaultThreshold \in Nat
  /\ MaxStock \in Nat
  /\ MaxReceived \in Nat
  /\ Crashes \in BOOLEAN

VARIABLES
  created, live, stocked, quantity, threshold, sold, received, removed,
              \* the committed tables, as in StockLedger
  stored,     \* the merchant's session in Redis, or Missing
  at,         \* where each worker is
  text,       \* the message it serves
  old,        \* old_session: what it read, or Missing
  out,        \* what FSMEngine made of it
  asked,      \* history: the sales that a stored prompt asked to confirm
  prompt,     \* history: what became of the last of these prompts
  strikes,    \* history: refusals saved in a row while a flow goes on
  told        \* history: units in the replies that say a sale is recorded

shelves == <<created, live, stocked, quantity, threshold, sold, received, removed>>
working == <<at, text, old, out>>
history == <<asked, prompt, strikes, told>>
vars == <<shelves, stored, working, history>>

Ledger == INSTANCE StockLedger

-----------------------------------------------------------------------------

Places == {"idle", "process", "stock", "save", "reply"}
Prompts == {"none", "open", "sold"}

Shelf == [live |-> live, stocked |-> stocked, quantity |-> quantity]

(* A merchant without a session gets a new one. *)
Resumed(s) == IF s = Missing THEN NewSession ELSE s

Init ==
  /\ Ledger!Init
  /\ stored = Missing
  /\ at = [w \in Workers |-> "idle"]
  /\ text = [w \in Workers |-> "none"]
  /\ old = [w \in Workers |-> Missing]
  /\ out = [w \in Workers |-> NoOutcome]
  /\ asked = {}
  /\ prompt = "none"
  /\ strikes = 0
  /\ told = [p \in Products |-> 0]

(* The task is over: nothing that the worker knew is kept. *)
Finish(w) ==
  /\ at' = [at EXCEPT ![w] = "idle"]
  /\ text' = [text EXCEPT ![w] = "none"]
  /\ old' = [old EXCEPT ![w] = Missing]
  /\ out' = [out EXCEPT ![w] = NoOutcome]

Goto(w, place) ==
  /\ at' = [at EXCEPT ![w] = place]
  /\ UNCHANGED <<text, old>>

(* A message is taken from the queue, and get_session reads the session. *)
Begin(w) ==
  /\ at[w] = "idle"
  /\ \E t \in Typed :
       /\ at' = [at EXCEPT ![w] = "process"]
       /\ text' = [text EXCEPT ![w] = t]
       /\ old' = [old EXCEPT ![w] = stored]
  /\ UNCHANGED <<shelves, stored, out, history>>

-----------------------------------------------------------------------------
(* process_message and the commit of its transaction *)

Processed(w, o, place) ==
  /\ out' = [out EXCEPT ![w] = o]
  /\ Goto(w, place)
  /\ UNCHANGED <<stored, asked, strikes, told>>

(* Nothing of the outcome is in the tables. *)
ProcessQuietly(w, o) ==
  /\ o.reply # "none" /\ o.effect.op \in {"none", "report"}
  /\ Processed(w, o, "save")
  /\ UNCHANGED <<shelves, prompt>>

(* The sale's own transaction is in StockTransactions. *)
ProcessSale(w, o) ==
  /\ o.effect.op = "sell"
  /\ Ledger!Sell(o.effect.product, o.effect.amount)
  /\ Processed(w, o, "save")
  /\ prompt' = "sold"

(* create_product commits; add_stock is called when there is any. *)
ProcessAddition(w, o) ==
  /\ o.effect.op = "add"
  /\ \E p \in Products :
       /\ Ledger!Create(p)
       /\ Processed(w, [o EXCEPT !.effect.product = p],
                    IF o.effect.amount > 0 THEN "stock" ELSE "save")
  /\ UNCHANGED prompt

(* An exception that the engine does not turn into a reply ends the task. *)
ProcessRaises(w, o) ==
  /\ o.reply = "none"
  /\ Finish(w)
  /\ UNCHANGED <<shelves, stored, history>>

Process(w) ==
  /\ at[w] = "process"
  /\ \E o \in ProcessMessage(Resumed(old[w]), text[w], Shelf) :
       \/ ProcessQuietly(w, o)
       \/ ProcessSale(w, o)
       \/ ProcessAddition(w, o)
       \/ ProcessRaises(w, o)

(* add_stock commits the stock of the new product. *)
AddStock(w) ==
  /\ at[w] = "stock"
  /\ Ledger!Receive(out[w].effect.product, out[w].effect.amount)
  /\ Goto(w, "save")
  /\ UNCHANGED <<stored, out, history>>

\* Seeded fault: the exception of the transaction is swallowed, and the
\* conversation goes on as if it had been committed.
FailSwallowed(w) ==
  /\ at[w] \in {"process", "stock"}
  /\ \E o \in ProcessMessage(Resumed(old[w]), text[w], Shelf) :
       o.reply # "none" /\ out' = [out EXCEPT ![w] = o]
  /\ Goto(w, "save")
  /\ UNCHANGED <<shelves, stored, history>>

(***************************************************************************)
(* The database, the broker or the process fails before the commit: the    *)
(* transaction is rolled back, and a product that was created stays.       *)
(***************************************************************************)
Fail(w) ==
  /\ at[w] \in {"process", "stock"}
  /\ Finish(w)
  /\ UNCHANGED <<shelves, stored, history>>

(* The process dies, or Redis does not answer, when all is committed. *)
Crash(w) ==
  /\ Crashes
  /\ at[w] \in {"save", "reply"}
  /\ Finish(w)
  /\ UNCHANGED <<shelves, stored, history>>

-----------------------------------------------------------------------------
(* save_session and the reply *)

\* Seeded fault: the script writes without comparing the state.
MatchesAlways(w) == at[w] = "save"

(* update_session_state.lua: a session that is there has to be in the state *)
(* of the one that was read; what else it holds is not compared.           *)
Matches(w) ==
  stored = Missing \/ Resumed(stored).state = Resumed(old[w]).state

IsPrompt(s) == s.state = "CONFIRM_SALE"

Save(w) ==
  LET new == out[w].session
      was == Resumed(old[w])
  IN
  /\ at[w] = "save"
  /\ Matches(w)
  /\ stored' = new
  /\ asked' = IF IsPrompt(new) THEN asked \union {<<new.product, new.qty>>} ELSE asked
  /\ prompt' = IF IsPrompt(new) /\ ~IsPrompt(was) THEN "open" ELSE prompt
  /\ strikes' = IF out[w].reply = "refused" /\ new.state # "IDLE"
                THEN (IF strikes < MaxErrors THEN strikes + 1 ELSE strikes)
                ELSE 0
  /\ Goto(w, "reply")
  /\ UNCHANGED <<shelves, out, told>>

(* SessionStateMismatchError: all that is left of the message is what it *)
(* committed, and nobody is told.                                        *)
SaveRefused(w) ==
  /\ at[w] = "save"
  /\ ~Matches(w)
  /\ Finish(w)
  /\ UNCHANGED <<shelves, stored, history>>

(* send_text; MessageDeliveryError is logged. *)
Reply(w) ==
  LET e == out[w].effect IN
  /\ at[w] = "reply"
  /\ \E delivered \in BOOLEAN :
       told' = IF delivered /\ e.op = "sell"
               THEN [told EXCEPT ![e.product] = @ + e.amount]
               ELSE told
  /\ Finish(w)
  /\ UNCHANGED <<shelves, stored, asked, prompt, strikes>>

-----------------------------------------------------------------------------

(* session_ttl_seconds after the last save. *)
Expire ==
  /\ stored' = Missing
  /\ UNCHANGED <<shelves, working, history>>

RestCommits ==
  \E p \in Products :
    \/ Ledger!Create(p)
    \/ Ledger!Delete(p)
    \/ \E n \in Quantities : \/ received[p] + n <= MaxReceived /\ Ledger!Receive(p, n)
                             \/ Ledger!Deduct(p, n)
    \/ \E n \in Thresholds : Ledger!SetThreshold(p, n)

(* What the REST interface commits; POST /sales is not committed. *)
Elsewhere == RestCommits /\ UNCHANGED <<stored, working, history>>

Next ==
  \/ \E w \in Workers :
       Begin(w) \/ Process(w) \/ AddStock(w) \/ Fail(w) \/ Crash(w)
         \/ Save(w) \/ SaveRefused(w) \/ Reply(w)
  \/ Expire
  \/ Elsewhere

Spec == Init /\ [][Next]_vars

-----------------------------------------------------------------------------

Outcomes ==
  [session : Sessions, reply : {"accepted", "refused"},
   effect : [op : {"none", "sell", "add", "report"},
             product : Products \union {NoProduct}, amount : Nat]]

TypeOK ==
  /\ Ledger!LedgerTypeOK
  /\ stored \in Sessions \union {Missing}
  /\ at \in [Workers -> Places]
  /\ text \in [Workers -> Typed \union {"none"}]
  /\ old \in [Workers -> Sessions \union {Missing}]
  /\ out \in [Workers -> Outcomes \union {NoOutcome}]
  /\ asked \subseteq Products \X Nat
  /\ prompt \in Prompts
  /\ strikes \in 0..MaxErrors
  /\ told \in [Products -> Nat]

(***************************************************************************)
(* Whichever workers write the merchant's session, however stale what they *)
(* read, a stored session is one that its state's handler can work with:   *)
(* the script compares the state alone and replaces all of the session.    *)
(***************************************************************************)
SessionWellFormed == WellFormed(Resumed(stored))

(***************************************************************************)
(* The merchant is moved along the edges of the flows only: a worker that  *)
(* was overtaken by another cannot take the conversation somewhere that    *)
(* its current state does not lead to (save_session's comparison).         *)
(***************************************************************************)
TransitionLegal ==
  [][\/ stored = Missing \/ stored' = Missing
     \/ stored'.state = stored.state
     \/ <<stored.state, stored'.state>> \in Edges]_vars

(***************************************************************************)
(* No sale is recorded but one that a confirmation prompt named, product   *)
(* and quantity, whatever sessions were read, lost or overwritten between. *)
(***************************************************************************)
SaleWasPrompted ==
  [][\A p \in Products :
       sold'[p] # sold[p] => <<p, sold'[p] - sold[p]>> \in asked]_vars

(***************************************************************************)
(* The merchant is never told of a sale that is not in the table, whatever *)
(* fails: the reply follows the save, and the save the commit.             *)
(***************************************************************************)
ToldIsSold == \A p \in Products : told[p] <= sold[p]

-----------------------------------------------------------------------------
(* One worker, and what it implements *)

TheWorker == CHOOSE w \in Workers : TRUE

(* The session is what is stored, but while a message is served it is what *)
(* was read, and from the commit on what is going to be saved.             *)
SessionSeen ==
  CASE at[TheWorker] \in {"idle", "reply"} -> Resumed(stored)
    [] at[TheWorker] \in {"process", "stock"} -> Resumed(old[TheWorker])
    [] at[TheWorker] = "save" -> out[TheWorker].session

Atomic ==
  INSTANCE Dialogue WITH
    session <- SessionSeen,
    adding <- IF at[TheWorker] = "stock" THEN out[TheWorker].effect.product
              ELSE NoProduct

(***************************************************************************)
(* With one worker, and none of its tasks lost between commit and save,    *)
(* reading, processing, committing, saving and replying are one step of    *)
(* Dialogue, though the database fails, the session expires and the REST   *)
(* interface changes the shelf meanwhile.                                  *)
(***************************************************************************)
ImplementsDialogue == Atomic!Spec

(***************************************************************************)
(* One worker gives a flow up at the refusal that MaxErrors says, counted  *)
(* in saved sessions and not in the field that is saved with them: the     *)
(* session may expire, or a transaction fail, between two refusals.        *)
(***************************************************************************)
StrikesCounted == strikes < MaxErrors

-----------------------------------------------------------------------------
(* What the documents say, and the code does for one worker only. *)

(***************************************************************************)
(* README.md: CONFIRM_SALE --> IDLE, confirmed (sale recorded, stock       *)
(* deducted): a prompt that was confirmed does not record a second sale.   *)
(* One worker, none of whose tasks is lost between commit and save, keeps  *)
(* to it; two that read the same prompt do not.                            *)
(***************************************************************************)
SoldOnce == [][sold' # sold => prompt # "sold"]_vars
=============================================================================
