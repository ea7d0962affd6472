--------------------------- MODULE StockTransactions ---------------------------
(***************************************************************************)
(* The stock operations of SokoFlow as PostgreSQL runs them: each request  *)
(* (a REST call, or a worker recording a confirmed sale) is a transaction  *)
(* made of statements, and the statements of different requests            *)
(* interleave.  Isolation is READ COMMITTED, so a statement sees what is   *)
(* committed when it runs, and what keeps two requests apart is the lock   *)
(* on the inventory row:                                                   *)
(*                                                                         *)
(*   sale, rest_sale, deduct   SELECT ... FOR UPDATE of the inventory row  *)
(*   receive, threshold        the lock of the UPDATE (or of the inserted  *)
(*                             key), which a foreign-key check may share   *)
(*   delete                    the lock of the product row, then a         *)
(*                             foreign-key check of inventory and sales    *)
(*   a new sale or new stock   KEY SHARE on the product row, held by the   *)
(*                             foreign-key check of the INSERT             *)
(*                                                                         *)
(* Uncommitted writes are in image; only a commit changes the tables.      *)
(***************************************************************************)
EXTENDS Integers, FiniteSets, FiniteSetsExt

CONSTANTS
  Requests,          \* the requests, each served once
  Products, Quantities, Thresholds, DefaultThreshold, MaxStock,
                     \* as in StockLedger
  NoOne              \* the holder of a free lock

ASSUME StockAssumption ==
  /\ IsFiniteSet(Requests)
  /\ Quantities \subseteq Nat \ {0}
  /\ Thresholds \subseteq Nat
  /\ DefaultThreshold \in Nat
  /\ MaxStock \in Nat
  /\ NoOne \notin Requests

VARIABLES
  created, live, stocked, quantity, threshold, sold, received, removed,
              \* the committed tables, as in StockLedger
  req,        \* what each request asks for
  pc,         \* the statement each request is at
  image,      \* the quantity its transaction has written and not committed
  wasLow,     \* old_is_low of deduct_stock
  rowLock,    \* the transaction that holds each inventory row
  keyShare,   \* the transactions with a foreign-key share of each product row
  deleting,   \* the transaction that has deleted each product row
  alerts,     \* the sales whose low-stock alert was handed to Celery
  answer,     \* what each caller was told
  reported    \* remaining_stock and entered_low_stock, as told

tables == <<created, live, stocked, quantity, threshold, sold, received, removed>>
locks == <<rowLock, keyShare, deleting>>
local == <<req, pc, image, wasLow>>
outcome == <<alerts, answer, reported>>
vars == <<tables, local, locks, outcome>>

Ledger == INSTANCE StockLedger

-----------------------------------------------------------------------------

SaleOps == {"sale", "rest_sale"}
DeductingOps == SaleOps \union {"deduct"}
Ops == DeductingOps \union {"receive", "threshold", "create", "delete"}

(* foreign: the caller names a shop that does not own the product. *)
Asks ==
  [op : SaleOps, product : Products, amount : Quantities, foreign : BOOLEAN]
    \union [op : {"deduct", "receive"}, product : Products, amount : Quantities]
    \union [op : {"threshold"}, product : Products, amount : Thresholds]
    \union [op : {"create", "delete"}, product : Products, amount : {0}]

(* The request of somebody who has not asked anything yet. *)
NoAsk == [op |-> "none"]

Pcs == {"new", "load", "lock", "upsert", "write", "delete", "refs", "insert",
        "alert", "commit", "reply", "close", "refresh", "done"}

(* "silence" is a sale that is committed and that nobody is told of. *)
Answers == {"none", "ok", "not_found", "conflict", "insufficient", "error", "silence"}

(* The places where a request has been begun and not been answered. *)
Unanswered == Pcs \ {"new", "done"}

FirstStatement(op) ==
  CASE op \in SaleOps \union {"threshold", "delete"} -> "load"
    [] op = "deduct"  -> "lock"
    [] op = "receive" -> "upsert"
    [] op = "create"  -> "commit"

\* Seeded fault: the row is read and written without waiting for its lock.
FreeIgnored(p) == p \in Products
Free(p) == rowLock[p] = NoOne

\* Seeded fault: the threshold itself is not low.
LowStrict(stock, limit) == stock < limit
Low(stock, limit) == stock <= limit

\* Seeded fault: the column is taken to be unbounded.
FitsAlways(total) == total >= 0
Fits(total) == total <= MaxStock

\* Seeded fault: only sales keep a product from being deleted.
ReferencedBySale(p) == sold[p] > 0
Referenced(p) == p \in stocked \/ sold[p] > 0

(* SELECT FOR UPDATE: the lock that a foreign-key check has to wait for. *)
LockedForUpdate(p) ==
  \E r \in Requests : rowLock[p] = r /\ req[r].op \in DeductingOps

At(r, place) == pc[r] = place
Goto(r, place) == pc' = [pc EXCEPT ![r] = place]

\* Seeded fault: a session is left open and keeps its row.
ReleaseShares(r) ==
  /\ keyShare' = [p \in Products |-> keyShare[p] \ {r}]
  /\ UNCHANGED <<rowLock, deleting>>

(* The end of a transaction, committed or rolled back, frees its locks. *)
ReleaseLocks(r) ==
  /\ rowLock' = [p \in Products |-> IF rowLock[p] = r THEN NoOne ELSE rowLock[p]]
  /\ keyShare' = [p \in Products |-> keyShare[p] \ {r}]
  /\ deleting' = [p \in Products |-> IF deleting[p] = r THEN NoOne ELSE deleting[p]]

Answer(r, what) ==
  /\ Goto(r, "done")
  /\ answer' = [answer EXCEPT ![r] = what]

\* Seeded fault: deduct_stock was called with its default, commit=True, and
\* what it took from the stock of a failed sale is not given back.
RollBackSaleOnly(r, why) ==
  /\ Answer(r, why)
  /\ ReleaseLocks(r)
  /\ quantity' = IF req[r].op \in SaleOps /\ pc[r] \in {"insert", "alert", "commit"}
                 THEN [quantity EXCEPT ![req[r].product] = image[r]]
                 ELSE quantity
  /\ UNCHANGED <<created, live, stocked, threshold, sold, received, removed,
                 req, image, wasLow, alerts, reported>>

(* The transaction is rolled back and the caller told why. *)
RollBack(r, why) ==
  /\ Answer(r, why)
  /\ ReleaseLocks(r)
  /\ UNCHANGED <<tables, req, image, wasLow, alerts, reported>>

(* A statement that only takes the request to its next one. *)
Proceed(r, place) ==
  /\ Goto(r, place)
  /\ UNCHANGED <<tables, req, image, wasLow, locks, outcome>>

-----------------------------------------------------------------------------

Init ==
  /\ Ledger!Init
  /\ req = [r \in Requests |-> NoAsk]
  /\ pc = [r \in Requests |-> "new"]
  /\ image = [r \in Requests |-> 0]
  /\ wasLow = [r \in Requests |-> FALSE]
  /\ rowLock = [p \in Products |-> NoOne]
  /\ keyShare = [p \in Products |-> {}]
  /\ deleting = [p \in Products |-> NoOne]
  /\ alerts = {}
  /\ answer = [r \in Requests |-> "none"]
  /\ reported = [r \in Requests |-> [remaining |-> 0, entered |-> FALSE]]

(* A REST call, or a worker whose session is at CONFIRM_SALE, begins. *)
Arrive(r) ==
  /\ At(r, "new")
  /\ \E ask \in Asks :
       /\ req' = [req EXCEPT ![r] = ask]
       /\ Goto(r, FirstStatement(ask.op))
  /\ UNCHANGED <<tables, image, wasLow, locks, outcome>>

-----------------------------------------------------------------------------
(* record_sale and deduct_stock *)

(* db.get(Product) and the check of the shop, in the savepoint. *)
LoadSale(r) ==
  LET p == req[r].product IN
  /\ At(r, "load") /\ req[r].op \in SaleOps
  /\ \/ p \notin live /\ RollBack(r, "not_found")
     \/ p \in live /\ req[r].foreign /\ RollBack(r, "conflict")
     \/ p \in live /\ ~req[r].foreign /\ Proceed(r, "lock")

(***************************************************************************)
(* deduct_stock: SELECT FOR UPDATE waits for the row, reads what is        *)
(* committed, refuses a quantity that is not there and flushes the rest.   *)
(***************************************************************************)
LockAndDeduct(r) ==
  LET p == req[r].product
      n == req[r].amount
  IN
  /\ At(r, "lock")
  /\ \/ p \notin stocked /\ RollBack(r, "not_found")
     \/ p \in stocked /\ Free(p) /\ n > quantity[p] /\ RollBack(r, "insufficient")
     \/ /\ p \in stocked /\ Free(p) /\ n <= quantity[p]
        /\ rowLock' = [rowLock EXCEPT ![p] = r]
        /\ wasLow' = [wasLow EXCEPT ![r] = Low(quantity[p], threshold[p])]
        /\ image' = [image EXCEPT ![r] = quantity[p] - n]
        /\ Goto(r, IF req[r].op = "deduct" THEN "commit" ELSE "insert")
        /\ UNCHANGED <<tables, req, keyShare, deleting, outcome>>

(***************************************************************************)
(* The refresh inside the transaction, which sees its own deduction, and   *)
(* the INSERT into sales, whose foreign-key check waits for a transaction  *)
(* that has deleted the product.  Only the worker's flow looks at          *)
(* entered_low_stock; POST /sales answers and closes its session.          *)
(***************************************************************************)
InsertSale(r) ==
  LET p == req[r].product
      entered == ~wasLow[r] /\ Low(image[r], threshold[p])
  IN
  /\ At(r, "insert")
  /\ deleting[p] = NoOne
  /\ \/ p \notin live /\ RollBack(r, "error")
     \/ /\ p \in live
        /\ keyShare' = [keyShare EXCEPT ![p] = @ \union {r}]
        /\ reported' = [reported EXCEPT ![r] =
                          [remaining |-> image[r], entered |-> entered]]
        /\ Goto(r, CASE req[r].op = "rest_sale" -> "close"
                     [] req[r].op = "sale" /\ entered -> "alert"
                     [] req[r].op = "sale" /\ ~entered -> "commit")
        /\ UNCHANGED <<tables, req, image, wasLow, rowLock, deleting,
                       alerts, answer>>

\* Seeded fault: the refusal is caught where the sale is already rolled back,
\* and the merchant is told that the sale is recorded.
EnqueueAlertCaught(r) ==
  /\ At(r, "alert")
  /\ \/ /\ alerts' = alerts \union {r}
        /\ Goto(r, "commit")
        /\ UNCHANGED <<tables, req, image, wasLow, locks, answer, reported>>
     \/ RollBack(r, "ok")

(***************************************************************************)
(* send_low_stock_alert.delay, called in the flow before get_worker_db     *)
(* commits.  When the broker refuses, the exception leaves the flow and    *)
(* get_worker_db rolls the sale back.                                      *)
(***************************************************************************)
EnqueueAlert(r) ==
  /\ At(r, "alert")
  /\ \/ /\ alerts' = alerts \union {r}
        /\ Goto(r, "commit")
        /\ UNCHANGED <<tables, req, image, wasLow, locks, answer, reported>>
     \/ RollBack(r, "error")

(* get_worker_db commits when the flow is through. *)
CommitSale(r) ==
  LET p == req[r].product IN
  /\ At(r, "commit") /\ req[r].op = "sale"
  /\ quantity' = [quantity EXCEPT ![p] = image[r]]
  /\ sold' = [sold EXCEPT ![p] = @ + req[r].amount]
  /\ Goto(r, "reply")
  /\ ReleaseLocks(r)
  /\ UNCHANGED <<created, live, stocked, threshold, received, removed, req,
                 image, wasLow, outcome>>

(***************************************************************************)
(* The worker saves the session, renders the template and sends it.  The   *)
(* script may refuse, Redis, the template or the sender may fail, and the  *)
(* process may die: the sale stays, and the merchant hears nothing.  These *)
(* steps are one here; ConversationWorkers has them one by one.            *)
(***************************************************************************)
ReplySale(r) ==
  /\ At(r, "reply")
  /\ \E what \in {"ok", "silence"} : Answer(r, what)
  /\ UNCHANGED <<tables, req, image, wasLow, locks, alerts, reported>>

(* get_db closes the session it yielded, and a session that is closed *)
(* without a commit is rolled back; the caller has its 201.           *)
CloseRestSale(r) == At(r, "close") /\ RollBack(r, "ok")

CommitDeduct(r) ==
  LET p == req[r].product IN
  /\ At(r, "commit") /\ req[r].op = "deduct"
  /\ quantity' = [quantity EXCEPT ![p] = image[r]]
  /\ removed' = [removed EXCEPT ![p] = @ + req[r].amount]
  /\ Goto(r, "refresh")
  /\ ReleaseLocks(r)
  /\ UNCHANGED <<created, live, stocked, threshold, sold, received, req,
                 image, wasLow, outcome>>

(* db.refresh after the commit: a new transaction, without the lock. *)
RefreshDeduct(r) ==
  LET p == req[r].product IN
  /\ At(r, "refresh")
  /\ reported' = [reported EXCEPT ![r] =
       [remaining |-> quantity[p],
        entered   |-> ~wasLow[r] /\ Low(quantity[p], threshold[p])]]
  /\ Answer(r, "ok")
  /\ UNCHANGED <<tables, req, image, wasLow, locks, alerts>>

-----------------------------------------------------------------------------
(* add_stock and update_threshold *)

(***************************************************************************)
(* INSERT ... ON CONFLICT DO UPDATE: waits for the row, or for another     *)
(* transaction that is inserting the same key; an INSERT also waits for    *)
(* the product row.  The column is a 32-bit integer.                       *)
(***************************************************************************)
UpsertStock(r) ==
  LET p == req[r].product
      total == quantity[p] + req[r].amount
  IN
  /\ At(r, "upsert")
  /\ Free(p)
  /\ p \in stocked \/ deleting[p] = NoOne
  /\ \/ ~Fits(total) /\ RollBack(r, "error")
     \/ p \notin live /\ RollBack(r, "error")
     \/ /\ p \in live /\ Fits(total)
        /\ rowLock' = [rowLock EXCEPT ![p] = r]
        /\ keyShare' = IF p \in stocked THEN keyShare
                       ELSE [keyShare EXCEPT ![p] = @ \union {r}]
        /\ image' = [image EXCEPT ![r] = total]
        /\ Goto(r, "commit")
        /\ UNCHANGED <<tables, req, wasLow, deleting, outcome>>

CommitStock(r) ==
  LET p == req[r].product IN
  /\ At(r, "commit") /\ req[r].op = "receive"
  /\ stocked' = stocked \union {p}
  /\ quantity' = [quantity EXCEPT ![p] = image[r]]
  /\ received' = [received EXCEPT ![p] = @ + req[r].amount]
  /\ Answer(r, "ok")
  /\ ReleaseLocks(r)
  /\ UNCHANGED <<created, live, threshold, sold, removed, req, image, wasLow,
                 alerts, reported>>

(***************************************************************************)
(* get_stock reads the row without a lock.  When the value asked for is    *)
(* the one that was read, the ORM has no change to write and the commit    *)
(* is empty.                                                               *)
(***************************************************************************)
LoadThreshold(r) ==
  LET p == req[r].product IN
  /\ At(r, "load") /\ req[r].op = "threshold"
  /\ \/ p \notin stocked /\ RollBack(r, "not_found")
     \/ p \in stocked /\ req[r].amount = threshold[p] /\ RollBack(r, "ok")
     \/ p \in stocked /\ req[r].amount # threshold[p] /\ Proceed(r, "write")

WriteThreshold(r) ==
  LET p == req[r].product IN
  /\ At(r, "write")
  /\ Free(p)
  /\ rowLock' = [rowLock EXCEPT ![p] = r]
  /\ Goto(r, "commit")
  /\ UNCHANGED <<tables, req, image, wasLow, keyShare, deleting, outcome>>

CommitThreshold(r) ==
  LET p == req[r].product IN
  /\ At(r, "commit") /\ req[r].op = "threshold"
  /\ threshold' = [threshold EXCEPT ![p] = req[r].amount]
  /\ Answer(r, "ok")
  /\ ReleaseLocks(r)
  /\ UNCHANGED <<created, live, stocked, quantity, sold, received, removed,
                 req, image, wasLow, alerts, reported>>

-----------------------------------------------------------------------------
(* create_product and delete_product *)

(* The id stands for the product's SKU too, which is drawn at random and *)
(* refused by its unique index when it was drawn before.                 *)
CommitCreate(r) ==
  LET p == req[r].product IN
  /\ At(r, "commit") /\ req[r].op = "create"
  /\ \/ p \in created /\ RollBack(r, "conflict")
     \/ /\ p \notin created
        /\ created' = created \union {p}
        /\ live' = live \union {p}
        /\ Answer(r, "ok")
        /\ ReleaseLocks(r)
        /\ UNCHANGED <<stocked, quantity, threshold, sold, received, removed,
                       req, image, wasLow, alerts, reported>>

LoadDelete(r) ==
  LET p == req[r].product IN
  /\ At(r, "load") /\ req[r].op = "delete"
  /\ \/ p \notin live /\ RollBack(r, "not_found")
     \/ p \in live /\ Proceed(r, "delete")

(***************************************************************************)
(* DELETE FROM products waits for the transactions that hold a share of    *)
(* the row; a row that went meanwhile is no error to the ORM.              *)
(***************************************************************************)
DeleteProduct(r) ==
  LET p == req[r].product IN
  /\ At(r, "delete")
  /\ deleting[p] = NoOne /\ keyShare[p] = {}
  /\ \/ p \notin live /\ RollBack(r, "ok")
     \/ /\ p \in live
        /\ deleting' = [deleting EXCEPT ![p] = r]
        /\ Goto(r, "refs")
        /\ UNCHANGED <<tables, req, image, wasLow, rowLock, keyShare, outcome>>

(***************************************************************************)
(* The foreign-key check of the DELETE: it waits for an inventory row that *)
(* is locked FOR UPDATE, and a row that is there is a conflict.            *)
(***************************************************************************)
CheckReferences(r) ==
  LET p == req[r].product IN
  /\ At(r, "refs")
  /\ ~LockedForUpdate(p)
  /\ \/ Referenced(p) /\ RollBack(r, "conflict")
     \/ ~Referenced(p) /\ Proceed(r, "commit")

CommitDelete(r) ==
  LET p == req[r].product IN
  /\ At(r, "commit") /\ req[r].op = "delete"
  /\ live' = live \ {p}
  /\ Answer(r, "ok")
  /\ ReleaseLocks(r)
  /\ UNCHANGED <<created, stocked, quantity, threshold, sold, received, removed,
                 req, image, wasLow, alerts, reported>>

-----------------------------------------------------------------------------
(* What the database and the machine may do to a transaction *)

(***************************************************************************)
(* A sale holds the inventory row and waits for the product row; the       *)
(* deletion holds the product row and waits for the inventory row.         *)
(***************************************************************************)
Deadlocked(s, d) ==
  LET p == req[s].product IN
  /\ At(s, "insert") /\ deleting[p] = d
  /\ At(d, "refs") /\ rowLock[p] = s

(* PostgreSQL's deadlock detector fails one of the two. *)
BreakDeadlock(r) ==
  /\ \E other \in Requests : Deadlocked(r, other) \/ Deadlocked(other, r)
  /\ RollBack(r, "error")

(* The connection is lost, the process is killed, or a statement fails; a *)
(* sale that waits for its reply has no transaction any more.             *)
Fail(r) == pc[r] \in Unanswered \ {"reply"} /\ RollBack(r, "error")

-----------------------------------------------------------------------------

Step(r) ==
  \/ LoadSale(r) \/ LockAndDeduct(r) \/ InsertSale(r) \/ EnqueueAlert(r)
  \/ CommitSale(r) \/ ReplySale(r) \/ CloseRestSale(r)
  \/ CommitDeduct(r) \/ RefreshDeduct(r)
  \/ UpsertStock(r) \/ CommitStock(r)
  \/ LoadThreshold(r) \/ WriteThreshold(r) \/ CommitThreshold(r)
  \/ CommitCreate(r) \/ LoadDelete(r) \/ DeleteProduct(r) \/ CheckReferences(r)
  \/ CommitDelete(r) \/ BreakDeadlock(r)

(* Nothing is left to do; a deadlock is a state where something is. *)
Finished == (\A r \in Requests : At(r, "done")) /\ UNCHANGED vars

Next ==
  \/ \E r \in Requests : Arrive(r) \/ Step(r) \/ Fail(r)
  \/ Finished

Spec == Init /\ [][Next]_vars

(* A request that was begun goes on; nobody has to make a request. *)
FairSpec == Spec /\ \A r \in Requests : WF_vars(Step(r))

-----------------------------------------------------------------------------

TypeOK ==
  /\ Ledger!LedgerTypeOK
  /\ req \in [Requests -> Asks \union {NoAsk}]
  /\ pc \in [Requests -> Pcs]
  /\ image \in [Requests -> 0..MaxStock]
  /\ wasLow \in [Requests -> BOOLEAN]
  /\ rowLock \in [Products -> Requests \union {NoOne}]
  /\ keyShare \in [Products -> SUBSET Requests]
  /\ deleting \in [Products -> Requests \union {NoOne}]
  /\ alerts \subseteq Requests
  /\ answer \in [Requests -> Answers]
  /\ reported \in [Requests -> [remaining : 0..MaxStock, entered : BOOLEAN]]

(***************************************************************************)
(* Conservation of stock under concurrency: whatever receives, sales and   *)
(* deductions overlap, fail or are rolled back, the committed quantity is  *)
(* what came in less what the committed sales and deductions took.  A      *)
(* deduct_stock that read the row without its lock, or a partial rollback, *)
(* would break it.                                                         *)
(***************************************************************************)
Conservation == Ledger!Conservation

(***************************************************************************)
(* No inventory row and no sale is left without its product, although      *)
(* delete_product, add_stock and record_sale look at the tables before     *)
(* they write.                                                             *)
(***************************************************************************)
ReferentialIntegrity == Ledger!ReferentialIntegrity

(***************************************************************************)
(* Every commit of the interleaved transactions is one step of the ledger, *)
(* and every other step leaves the ledger alone: the services are          *)
(* serializable as far as stock is concerned.                              *)
(***************************************************************************)
ImplementsLedger == Ledger!Spec

Committed(r) == pc[r] = "commit" /\ pc'[r] = "reply"

(* The committed stock of p goes from above its threshold to it or below. *)
Crosses(p) ==
  quantity[p] > threshold[p] /\ quantity'[p] <= threshold'[p]

(***************************************************************************)
(* What a confirmed sale says is a fact of the database: the remaining     *)
(* stock of its reply is the quantity it commits, and an alert has been    *)
(* handed over exactly when this commit is the one that takes the stock to *)
(* its threshold, be there other sales, receipts or changes of the         *)
(* threshold in between (deduct_stock's old_is_low and new_is_low).        *)
(***************************************************************************)
SaleFacts ==
  [][\A r \in Requests :
       req[r].op = "sale" /\ Committed(r) =>
         LET p == req[r].product IN
         /\ reported[r].remaining = quantity'[p]
         /\ r \in alerts <=> Crosses(p)]_vars

UnitsOf(p, R) ==
  MapThenSumSet(LAMBDA r : req[r].amount, {r \in R : req[r].product = p})

Told(ops) == {r \in Requests : answer[r] = "ok" /\ req[r].op \in ops}

(* The sales that are committed and not told, not yet or never. *)
Untold == {r \in Requests : At(r, "reply") \/ answer[r] = "silence"}

(***************************************************************************)
(* The worker tells a merchant that a sale is recorded only if its row is  *)
(* committed, and of a sale that is refused, rolled back or fails nothing  *)
(* is left: the units in sales are those of the sales that were answered   *)
(* with SALE_RECORDED, and of those that were committed before the save,   *)
(* the template or the sender failed.                                      *)
(***************************************************************************)
SalesAnswered ==
  \A p \in Products : sold[p] = UnitsOf(p, Told({"sale"}) \union Untold)

(***************************************************************************)
(* Every request that is begun comes to its end: none waits for ever for a *)
(* row, although a sale and a deletion take the product and the inventory  *)
(* row in opposite orders.                                                 *)
(***************************************************************************)
EveryRequestEnds ==
  <>[](\A r \in Requests : pc[r] \notin Unanswered)

-----------------------------------------------------------------------------
(* What the documents and the tests say, and the code does not do. *)

(***************************************************************************)
(* test_daily_report_api: the sales that POST /sales answered with 201 are *)
(* in the report of the day.                                               *)
(***************************************************************************)
CreatedMeansSold == \A p \in Products : UnitsOf(p, Told(SaleOps)) <= sold[p]
=============================================================================
