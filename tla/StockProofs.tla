------------------------------ MODULE StockProofs ------------------------------
(***************************************************************************)
(* Proofs about StockTransactions, for any number of requests, products,   *)
(* quantities and thresholds.  The inductive invariant IndInv says what    *)
(* each request knows while it holds its locks.                            *)
(***************************************************************************)
EXTENDS StockTransactions, SumProofs

(* The statements between taking the inventory row and giving it back. *)
HoldsRow(r) ==
  \/ pc[r] \in {"insert", "alert", "close"}
  \/ pc[r] = "commit" /\ req[r].op \in {"sale", "deduct", "receive", "threshold"}

HoldsProduct(r) ==
  pc[r] = "refs" \/ (pc[r] = "commit" /\ req[r].op = "delete")

(* A request stands only at a statement of its own operation. *)
AtOwnStatement(r) ==
  /\ pc[r] # "new" => req[r] \in Asks
  /\ pc[r] = "lock" => req[r].op \in DeductingOps
  /\ pc[r] = "upsert" => req[r].op = "receive"
  /\ pc[r] = "write" => req[r].op = "threshold"
  /\ pc[r] \in {"delete", "refs"} => req[r].op = "delete"
  /\ pc[r] = "insert" => req[r].op \in SaleOps
  /\ pc[r] = "alert" => req[r].op = "sale"
  /\ pc[r] = "close" => req[r].op = "rest_sale"
  /\ pc[r] = "commit" => req[r].op # "rest_sale"
  /\ pc[r] = "reply" => req[r].op = "sale"
  /\ pc[r] = "refresh" => req[r].op = "deduct"

(* What was computed from the row is still true of it: nobody else has *)
(* written it since.                                                    *)
RowImage(r) ==
  LET p == req[r].product
      n == req[r].amount
  IN
  /\ HoldsRow(r) => rowLock[p] = r
  /\ HoldsRow(r) /\ req[r].op \in DeductingOps =>
       /\ p \in stocked
       /\ n <= quantity[p] /\ image[r] = quantity[p] - n
       /\ wasLow[r] = (quantity[p] <= threshold[p])
  /\ pc[r] = "commit" /\ req[r].op = "receive" =>
       /\ p \in live
       /\ image[r] = quantity[p] + n
       /\ p \in stocked \/ r \in keyShare[p]
  /\ pc[r] \in {"write", "commit"} /\ req[r].op = "threshold" => p \in stocked

ProductLock(r) ==
  LET p == req[r].product IN
  /\ HoldsProduct(r) => deleting[p] = r /\ p \in live
  /\ pc[r] = "commit" /\ req[r].op = "delete" => p \notin stocked

(* An alert is about the crossing that its own sale is going to commit. *)
AlertFacts(r) ==
  LET p == req[r].product IN
  /\ r \in alerts => pc[r] \in {"commit", "reply", "done"} /\ req[r].op = "sale"
  /\ pc[r] \in {"alert", "commit"} /\ req[r].op = "sale" =>
       /\ reported[r].remaining = image[r]
       /\ reported[r].entered =
            (quantity[p] > threshold[p] /\ image[r] <= threshold[p])
  /\ pc[r] = "alert" => reported[r].entered
  /\ pc[r] = "commit" /\ req[r].op = "sale" => (r \in alerts <=> reported[r].entered)

SharesOrDeletion == \A p \in Products : deleting[p] # NoOne => keyShare[p] = {}

IndInv ==
  /\ TypeOK
  /\ Conservation
  /\ ReferentialIntegrity
  /\ SharesOrDeletion
  /\ \A r \in Requests :
       AtOwnStatement(r) /\ RowImage(r) /\ ProductLock(r) /\ AlertFacts(r)

-----------------------------------------------------------------------------

(* What a request that was made looks like. *)
LEMMA AskFields ==
  ASSUME NEW ask \in Asks
  PROVE  /\ ask.product \in Products
         /\ ask.op \in Ops
         /\ ask.amount \in Int
         /\ ask.op \in DeductingOps \union {"receive"} => ask.amount \in Quantities
         /\ ask.op = "threshold" => ask.amount \in Thresholds
<1> USE DEF Ops, DeductingOps, SaleOps
<1>0. /\ \A n \in Quantities : n \in Int
      /\ \A n \in Thresholds : n \in Int
  BY StockAssumption
<1>1. CASE ask \in [op : SaleOps, product : Products, amount : Quantities,
                    foreign : BOOLEAN]
  BY <1>1, <1>0
<1>2. CASE ask \in [op : {"deduct", "receive"}, product : Products,
                    amount : Quantities]
  BY <1>2, <1>0
<1>3. CASE ask \in [op : {"threshold"}, product : Products, amount : Thresholds]
  BY <1>3, <1>0
<1>4. CASE ask \in [op : {"create", "delete"}, product : Products, amount : {0}]
  BY <1>4, <1>0
<1>5. QED
  BY <1>1, <1>2, <1>3, <1>4 DEF Asks

LEMMA InitInv == Init => IndInv
<1> SUFFICES ASSUME Init PROVE IndInv
  OBVIOUS
<1> USE DEF Init, Ledger!Init
<1>1. TypeOK
  BY StockAssumption DEF TypeOK, Ledger!LedgerTypeOK, Pcs, Answers
<1>2. Conservation
  BY <1>1 DEF Conservation, Ledger!Conservation
<1>3. ReferentialIntegrity
  BY <1>1 DEF ReferentialIntegrity, Ledger!ReferentialIntegrity
<1>4. SharesOrDeletion
  BY DEF SharesOrDeletion
<1>5. ASSUME NEW r \in Requests
      PROVE  AtOwnStatement(r) /\ RowImage(r) /\ ProductLock(r) /\ AlertFacts(r)
  BY DEF AtOwnStatement, RowImage, ProductLock, AlertFacts, HoldsRow, HoldsProduct
<1>6. QED
  BY <1>1, <1>2, <1>3, <1>4, <1>5 DEF IndInv

-----------------------------------------------------------------------------
(* Steps that leave the tables alone *)

LEMMA AbandonInv ==
  ASSUME NEW r \in Requests, NEW why \in Answers, IndInv, pc[r] # "new",
         Answer(r, why), ReleaseLocks(r),
         UNCHANGED <<tables, req, image, wasLow, alerts, reported>>
  PROVE  IndInv'
<1> USE DEF Answer, Goto, ReleaseLocks, tables
<1>1. TypeOK'
  BY DEF IndInv, TypeOK, Ledger!LedgerTypeOK, Pcs
<1>2. Conservation' /\ ReferentialIntegrity'
  BY DEF IndInv, Conservation, ReferentialIntegrity, Ledger!Conservation,
         Ledger!ReferentialIntegrity
<1>3. SharesOrDeletion'
  BY DEF IndInv, TypeOK, SharesOrDeletion
<1>4. ASSUME NEW s \in Requests
      PROVE  AtOwnStatement(s)' /\ RowImage(s)' /\ ProductLock(s)' /\ AlertFacts(s)'
  <2>1. AtOwnStatement(s) /\ RowImage(s) /\ ProductLock(s) /\ AlertFacts(s)
    BY DEF IndInv
  <2>2. pc'[s] = IF s = r THEN "done" ELSE pc[s]
    BY DEF IndInv, TypeOK
  <2>3. AtOwnStatement(s)'
    BY <2>1, <2>2 DEF AtOwnStatement
  <2>4. pc[s] # "new" => req[s].product \in Products
    BY <2>1, AskFields DEF AtOwnStatement
  <2>5. RowImage(s)'
    BY <2>1, <2>2, <2>4, StockAssumption DEF RowImage, HoldsRow, IndInv, TypeOK
  <2>6. ProductLock(s)'
    BY <2>1, <2>2, <2>4, StockAssumption DEF ProductLock, HoldsProduct, IndInv, TypeOK
  <2>7. AlertFacts(s)'
    BY <2>1, <2>2 DEF AlertFacts
  <2>8. QED
    BY <2>3, <2>5, <2>6, <2>7
<1>5. QED
  BY <1>1, <1>2, <1>3, <1>4 DEF IndInv

LEMMA RollBackInv ==
  ASSUME NEW r \in Requests, NEW why \in Answers, IndInv,
         pc[r] # "new", RollBack(r, why)
  PROVE  IndInv'
BY AbandonInv DEF RollBack

(* What every step of a request that has begun may rely on. *)
LEMMA Begun ==
  ASSUME NEW r \in Requests, IndInv, pc[r] # "new"
  PROVE  /\ req[r] \in Asks
         /\ req[r].product \in Products
         /\ req[r].op \in Ops
         /\ req[r].amount \in Int
         /\ req[r].op \in DeductingOps \union {"receive"} => req[r].amount \in Quantities
         /\ req[r].op = "threshold" => req[r].amount \in Thresholds
<1>1. req[r] \in Asks
  BY DEF IndInv, AtOwnStatement
<1>2. QED
  BY <1>1, AskFields

LEMMA ProceedInv ==
  ASSUME NEW r \in Requests, NEW place \in {"lock", "write", "delete"}, IndInv,
         pc[r] = "load",
         place = "lock" => req[r].op \in SaleOps,
         place = "write" => req[r].op = "threshold" /\ req[r].product \in stocked,
         place = "delete" => req[r].op = "delete",
         Proceed(r, place)
  PROVE  IndInv'
<1> USE DEF Proceed, Goto, tables, locks, outcome
<1>1. TypeOK'
  BY DEF IndInv, TypeOK, Ledger!LedgerTypeOK, Pcs
<1>2. Conservation' /\ ReferentialIntegrity' /\ SharesOrDeletion'
  BY DEF IndInv, Conservation, ReferentialIntegrity, Ledger!Conservation,
         Ledger!ReferentialIntegrity, SharesOrDeletion
<1>3. ASSUME NEW s \in Requests
      PROVE  AtOwnStatement(s)' /\ RowImage(s)' /\ ProductLock(s)' /\ AlertFacts(s)'
  <2>1. AtOwnStatement(s) /\ RowImage(s) /\ ProductLock(s) /\ AlertFacts(s)
    BY DEF IndInv
  <2>2. pc'[s] = IF s = r THEN place ELSE pc[s]
    BY DEF IndInv, TypeOK
  <2>3. AtOwnStatement(s)'
    BY <2>1, <2>2 DEF AtOwnStatement, DeductingOps
  <2>4. RowImage(s)'
    BY <2>1, <2>2 DEF RowImage, HoldsRow
  <2>5. ProductLock(s)' /\ AlertFacts(s)'
    BY <2>1, <2>2 DEF ProductLock, HoldsProduct, AlertFacts
  <2>6. QED
    BY <2>3, <2>4, <2>5
<1>4. QED
  BY <1>1, <1>2, <1>3 DEF IndInv

LEMMA ArriveInv ==
  ASSUME NEW r \in Requests, IndInv, Arrive(r)
  PROVE  IndInv'
<1> USE DEF tables, locks, outcome
<1>1. PICK ask \in Asks : /\ req' = [req EXCEPT ![r] = ask]
                          /\ pc' = [pc EXCEPT ![r] = FirstStatement(ask.op)]
  BY DEF Arrive, Goto
<1>2. ask.op \in Ops
  BY AskFields
<1>3. FirstStatement(ask.op) \in {"load", "lock", "upsert", "commit"}
  BY <1>2 DEF FirstStatement, Ops, DeductingOps, SaleOps
<1>4. TypeOK'
  BY <1>1, <1>3 DEF Arrive, IndInv, TypeOK, Ledger!LedgerTypeOK, Pcs
<1>5. Conservation' /\ ReferentialIntegrity' /\ SharesOrDeletion'
  BY DEF Arrive, IndInv, Conservation, ReferentialIntegrity, Ledger!Conservation,
         Ledger!ReferentialIntegrity, SharesOrDeletion
<1>6. ASSUME NEW s \in Requests
      PROVE  AtOwnStatement(s)' /\ RowImage(s)' /\ ProductLock(s)' /\ AlertFacts(s)'
  <2>1. AtOwnStatement(s) /\ RowImage(s) /\ ProductLock(s) /\ AlertFacts(s)
    BY DEF IndInv
  <2>2. CASE s # r
    <3>1. pc'[s] = pc[s] /\ req'[s] = req[s]
      BY <1>1, <2>2 DEF IndInv, TypeOK
    <3>2. QED
      BY <2>1, <3>1 DEF Arrive, AtOwnStatement, RowImage, ProductLock, AlertFacts,
                        HoldsRow, HoldsProduct
  <2>3. CASE s = r
    <3>1. pc'[s] = FirstStatement(ask.op) /\ req'[s] = ask
      BY <1>1, <2>3 DEF IndInv, TypeOK
    <3>2. r \notin alerts
      BY <2>1, <2>3 DEF Arrive, At, AlertFacts
    <3>3. CASE ask.op \in SaleOps \union {"threshold", "delete"}
      <4>1. FirstStatement(ask.op) = "load"
        BY <3>3 DEF FirstStatement, SaleOps
      <4>2. QED
        BY <2>3, <3>1, <3>2, <4>1
           DEF Arrive, AtOwnStatement, RowImage, ProductLock, AlertFacts, HoldsRow,
               HoldsProduct
    <3>4. CASE ask.op = "deduct"
      BY <2>3, <3>1, <3>2, <3>4
         DEF Arrive, FirstStatement, AtOwnStatement, RowImage, ProductLock,
             AlertFacts, HoldsRow, HoldsProduct, SaleOps, DeductingOps
    <3>5. CASE ask.op = "receive"
      BY <2>3, <3>1, <3>2, <3>5
         DEF Arrive, FirstStatement, AtOwnStatement, RowImage, ProductLock,
             AlertFacts, HoldsRow, HoldsProduct, SaleOps
    <3>6. CASE ask.op = "create"
      BY <2>3, <3>1, <3>2, <3>6
         DEF Arrive, FirstStatement, AtOwnStatement, RowImage, ProductLock,
             AlertFacts, HoldsRow, HoldsProduct, SaleOps, DeductingOps
    <3>7. QED
      BY <1>2, <3>3, <3>4, <3>5, <3>6 DEF Ops, DeductingOps
  <2>4. QED
    BY <2>2, <2>3
<1>7. QED
  BY <1>4, <1>5, <1>6 DEF IndInv

LEMMA LoadSaleInv ==
  ASSUME NEW r \in Requests, IndInv, LoadSale(r)
  PROVE  IndInv'
BY RollBackInv, ProceedInv DEF LoadSale, At, Answers

LEMMA LoadThresholdInv ==
  ASSUME NEW r \in Requests, IndInv, LoadThreshold(r)
  PROVE  IndInv'
BY RollBackInv, ProceedInv DEF LoadThreshold, At, Answers

LEMMA LoadDeleteInv ==
  ASSUME NEW r \in Requests, IndInv, LoadDelete(r)
  PROVE  IndInv'
BY RollBackInv, ProceedInv DEF LoadDelete, At, Answers

-----------------------------------------------------------------------------
(* Steps that take locks *)

LEMMA LockAndDeductInv ==
  ASSUME NEW r \in Requests, IndInv, LockAndDeduct(r)
  PROVE  IndInv'
<1> DEFINE p == req[r].product
           n == req[r].amount
<1>1. /\ pc[r] = "lock" /\ req[r].op \in DeductingOps
      /\ p \in Products /\ n \in Quantities /\ n \in Nat
  BY Begun, StockAssumption DEF LockAndDeduct, At, IndInv, AtOwnStatement
<1>2. CASE \E why \in Answers : RollBack(r, why)
  BY <1>1, <1>2, RollBackInv
<1>3. CASE /\ p \in stocked /\ rowLock[p] = NoOne /\ n <= quantity[p]
           /\ rowLock' = [rowLock EXCEPT ![p] = r]
           /\ wasLow' = [wasLow EXCEPT ![r] = Low(quantity[p], threshold[p])]
           /\ image' = [image EXCEPT ![r] = quantity[p] - n]
           /\ Goto(r, IF req[r].op = "deduct" THEN "commit" ELSE "insert")
           /\ UNCHANGED <<tables, req, keyShare, deleting, outcome>>
  <2> USE <1>3 DEF Goto, tables, outcome
  <2>1. /\ quantity[p] \in 0..MaxStock /\ threshold[p] \in Nat
        /\ Low(quantity[p], threshold[p]) \in BOOLEAN
    BY <1>1 DEF IndInv, TypeOK, Ledger!LedgerTypeOK, Low
  <2>2. quantity[p] - n \in 0..MaxStock
    BY <1>1, <2>1, StockAssumption
  <2>3. TypeOK'
    BY <1>1, <2>1, <2>2 DEF IndInv, TypeOK, Ledger!LedgerTypeOK, Pcs
  <2>4. Conservation' /\ ReferentialIntegrity' /\ SharesOrDeletion'
    BY DEF IndInv, Conservation, ReferentialIntegrity, Ledger!Conservation,
           Ledger!ReferentialIntegrity, SharesOrDeletion
  <2>5. ASSUME NEW s \in Requests
        PROVE  AtOwnStatement(s)' /\ RowImage(s)' /\ ProductLock(s)' /\ AlertFacts(s)'
    <3>1. AtOwnStatement(s) /\ RowImage(s) /\ ProductLock(s) /\ AlertFacts(s)
      BY DEF IndInv
    <3>2. CASE s = r
      <4>1. /\ pc'[r] = IF req[r].op = "deduct" THEN "commit" ELSE "insert"
            /\ image'[r] = quantity[p] - n
            /\ wasLow'[r] = (quantity[p] <= threshold[p])
            /\ rowLock'[p] = r
        BY <1>1 DEF IndInv, TypeOK, Low
      <4>2. r \notin alerts
        BY <1>1, <3>1, <3>2 DEF AlertFacts
      <4>3. QED
        BY <1>1, <3>1, <3>2, <4>1, <4>2
           DEF AtOwnStatement, RowImage, ProductLock, AlertFacts, HoldsRow,
               HoldsProduct, DeductingOps, SaleOps
    <3>3. CASE s # r
      <4>1. pc'[s] = pc[s] /\ image'[s] = image[s] /\ wasLow'[s] = wasLow[s]
        BY <3>3 DEF IndInv, TypeOK
      <4>2. HoldsRow(s) => rowLock'[req[s].product] = s
        <5>1. HoldsRow(s) => req[s].product \in Products /\ s # NoOne
          BY Begun, StockAssumption DEF HoldsRow
        <5>2. QED
          BY <1>1, <3>1, <5>1 DEF RowImage, IndInv, TypeOK
      <4>3. QED
        BY <3>1, <4>1, <4>2
           DEF AtOwnStatement, RowImage, ProductLock, AlertFacts, HoldsRow, HoldsProduct
    <3>4. QED
      BY <3>2, <3>3
  <2>6. QED
    BY <2>3, <2>4, <2>5 DEF IndInv
<1>4. QED
  BY <1>2, <1>3 DEF LockAndDeduct, Answers, Free

LEMMA InsertSaleInv ==
  ASSUME NEW r \in Requests, IndInv, InsertSale(r)
  PROVE  IndInv'
<1> DEFINE p == req[r].product
           entered == ~wasLow[r] /\ Low(image[r], threshold[p])
           next == CASE req[r].op = "rest_sale" -> "close"
                     [] req[r].op = "sale" /\ entered -> "alert"
                     [] req[r].op = "sale" /\ ~entered -> "commit"
<1>1. /\ pc[r] = "insert" /\ req[r].op \in SaleOps /\ p \in Products
      /\ AtOwnStatement(r) /\ RowImage(r) /\ AlertFacts(r)
  BY Begun DEF InsertSale, At, IndInv, AtOwnStatement
<1>2. CASE RollBack(r, "error")
  BY <1>1, <1>2, RollBackInv DEF Answers
<1>3. CASE /\ p \in live /\ deleting[p] = NoOne
           /\ keyShare' = [keyShare EXCEPT ![p] = @ \union {r}]
           /\ reported' = [reported EXCEPT ![r] =
                             [remaining |-> image[r], entered |-> entered]]
           /\ Goto(r, next)
           /\ UNCHANGED <<tables, req, image, wasLow, rowLock, deleting,
                          alerts, answer>>
  <2> USE <1>3 DEF Goto, tables
  <2>1. entered \in BOOLEAN /\ (entered <=> quantity[p] > threshold[p] /\ image[r] <= threshold[p])
    BY <1>1 DEF IndInv, TypeOK, Ledger!LedgerTypeOK, Low, RowImage, HoldsRow, DeductingOps
  <2>2. /\ next \in {"close", "alert", "commit"}
        /\ next = "close" <=> req[r].op = "rest_sale"
        /\ next = "alert" => entered
        /\ next = "commit" => ~entered
    BY <1>1, <2>1 DEF SaleOps
  <2> HIDE DEF entered, next
  <2>3. TypeOK'
    BY <1>1, <2>1, <2>2 DEF IndInv, TypeOK, Ledger!LedgerTypeOK, Pcs
  <2>4. Conservation' /\ ReferentialIntegrity'
    BY DEF IndInv, Conservation, ReferentialIntegrity, Ledger!Conservation,
           Ledger!ReferentialIntegrity
  <2>5. SharesOrDeletion'
    BY <1>1 DEF IndInv, TypeOK, SharesOrDeletion
  <2>6. ASSUME NEW s \in Requests
        PROVE  AtOwnStatement(s)' /\ RowImage(s)' /\ ProductLock(s)' /\ AlertFacts(s)'
    <3>1. AtOwnStatement(s) /\ RowImage(s) /\ ProductLock(s) /\ AlertFacts(s)
      BY DEF IndInv
    <3>2. CASE s = r
      <4>1. /\ pc'[r] = next
            /\ reported'[r].remaining = image[r] /\ reported'[r].entered = entered
            /\ r \notin alerts
        BY <1>1 DEF IndInv, TypeOK, AlertFacts
      <4>2. QED
        BY <1>1, <2>1, <2>2, <3>2, <4>1
           DEF AtOwnStatement, RowImage, ProductLock, AlertFacts, HoldsRow,
               HoldsProduct, DeductingOps, SaleOps
    <3>3. CASE s # r
      <4>1. pc'[s] = pc[s] /\ reported'[s] = reported[s]
        BY <3>3 DEF IndInv, TypeOK
      <4>2. \A q \in Products : s \in keyShare[q] => s \in keyShare'[q]
        BY <1>1 DEF IndInv, TypeOK
      <4>3. pc[s] # "new" => req[s].product \in Products
        BY Begun
      <4>4. QED
        BY <3>1, <4>1, <4>2, <4>3
           DEF AtOwnStatement, RowImage, ProductLock, AlertFacts, HoldsRow, HoldsProduct
    <3>4. QED
      BY <3>2, <3>3
  <2>7. QED
    BY <2>3, <2>4, <2>5, <2>6 DEF IndInv
<1>4. QED
  BY <1>2, <1>3 DEF InsertSale

LEMMA EnqueueAlertInv ==
  ASSUME NEW r \in Requests, IndInv, EnqueueAlert(r)
  PROVE  IndInv'
<1> USE DEF tables, locks, Goto
<1>1. pc[r] = "alert" /\ AtOwnStatement(r) /\ RowImage(r) /\ AlertFacts(r)
  BY DEF EnqueueAlert, At, IndInv
<1>2. CASE /\ alerts' = alerts \union {r}
           /\ Goto(r, "commit")
           /\ UNCHANGED <<tables, req, image, wasLow, locks, answer, reported>>
  <2>1. TypeOK'
    BY <1>2 DEF IndInv, TypeOK, Ledger!LedgerTypeOK, Pcs
  <2>2. Conservation' /\ ReferentialIntegrity' /\ SharesOrDeletion'
    BY <1>2 DEF IndInv, Conservation, ReferentialIntegrity, Ledger!Conservation,
           Ledger!ReferentialIntegrity, SharesOrDeletion
  <2>3. ASSUME NEW s \in Requests
        PROVE  AtOwnStatement(s)' /\ RowImage(s)' /\ ProductLock(s)' /\ AlertFacts(s)'
    <3>1. AtOwnStatement(s) /\ RowImage(s) /\ ProductLock(s) /\ AlertFacts(s)
      BY DEF IndInv
    <3>2. pc'[s] = IF s = r THEN "commit" ELSE pc[s]
      BY <1>2 DEF IndInv, TypeOK
    <3>3. QED
      BY <1>1, <1>2, <3>1, <3>2
         DEF AtOwnStatement, RowImage, ProductLock, AlertFacts, HoldsRow, HoldsProduct
  <2>4. QED
    BY <2>1, <2>2, <2>3 DEF IndInv
<1>3. CASE RollBack(r, "error")
  BY <1>1, <1>3, RollBackInv DEF Answers
<1>4. QED
  BY <1>2, <1>3 DEF EnqueueAlert

-----------------------------------------------------------------------------
(* Steps that end a transaction *)

(* What a step of another request has to leave alone for s to go on. *)
LEMMA Undisturbed ==
  ASSUME NEW s \in Requests, IndInv,
         pc'[s] = pc[s], req'[s] = req[s], image'[s] = image[s],
         wasLow'[s] = wasLow[s], reported'[s] = reported[s],
         s \in alerts' <=> s \in alerts,
         \A q \in Products : /\ rowLock[q] = s => rowLock'[q] = s
                             /\ s \in keyShare[q] => s \in keyShare'[q]
                             /\ deleting[q] = s => deleting'[q] = s,
         stocked \subseteq stocked',
         HoldsRow(s) => /\ quantity'[req[s].product] = quantity[req[s].product]
                        /\ threshold'[req[s].product] = threshold[req[s].product],
         HoldsProduct(s) \/ (pc[s] = "commit" /\ req[s].op = "receive")
           => req[s].product \in live',
         pc[s] = "commit" /\ req[s].op = "delete" => req[s].product \notin stocked'
  PROVE  AtOwnStatement(s)' /\ RowImage(s)' /\ ProductLock(s)' /\ AlertFacts(s)'
<1>1. AtOwnStatement(s) /\ RowImage(s) /\ ProductLock(s) /\ AlertFacts(s)
  BY DEF IndInv
<1>2. pc[s] # "new" => req[s].product \in Products
  BY Begun
<1>3. HoldsRow(s)' = HoldsRow(s) /\ HoldsProduct(s)' = HoldsProduct(s)
  BY DEF HoldsRow, HoldsProduct
<1>4. (HoldsRow(s) \/ HoldsProduct(s)) => pc[s] # "new"
  BY DEF HoldsRow, HoldsProduct
<1>5. AtOwnStatement(s)'
  BY <1>1 DEF AtOwnStatement
<1>6. RowImage(s)'
  <2>1. pc[s] = "commit" /\ req[s].op = "receive" => HoldsRow(s)
    BY DEF HoldsRow
  <2>2. pc[s] \in {"write", "commit"} => pc[s] # "new"
    OBVIOUS
  <2>3. QED
    BY <1>1, <1>2, <1>3, <1>4, <2>1, <2>2 DEF RowImage
<1>7. ProductLock(s)'
  BY <1>1, <1>2, <1>3, <1>4 DEF ProductLock, HoldsProduct
<1>8. AlertFacts(s)'
  <2>1. pc[s] = "alert" => req[s].op = "sale"
    BY <1>1 DEF AtOwnStatement
  <2>2. pc[s] \in {"alert", "commit"} /\ req[s].op = "sale" => HoldsRow(s)
    BY DEF HoldsRow
  <2>3. QED
    BY <1>1, <2>1, <2>2 DEF AlertFacts
<1>9. QED
  BY <1>5, <1>6, <1>7, <1>8

(* A request that has ended its transaction relies on nothing. *)
LEMMA DoneFacts ==
  ASSUME NEW r \in Requests, IndInv, pc[r] # "new",
         pc'[r] \in {"done", "refresh", "reply"}, req'[r] = req[r],
         pc'[r] = "refresh" => req[r].op = "deduct",
         pc'[r] = "reply" => req[r].op = "sale",
         alerts' = alerts, pc'[r] # "refresh" \/ r \notin alerts
  PROVE  AtOwnStatement(r)' /\ RowImage(r)' /\ ProductLock(r)' /\ AlertFacts(r)'
<1>1. r \in alerts => req[r].op = "sale"
  BY DEF IndInv, AlertFacts
<1>2. QED
  BY <1>1, Begun
     DEF AtOwnStatement, RowImage, ProductLock, AlertFacts, HoldsRow, HoldsProduct

LEMMA Released ==
  ASSUME NEW r \in Requests, IndInv, ReleaseLocks(r)
  PROVE  /\ SharesOrDeletion'
         /\ rowLock' \in [Products -> Requests \union {NoOne}]
         /\ keyShare' \in [Products -> SUBSET Requests]
         /\ deleting' \in [Products -> Requests \union {NoOne}]
         /\ \A s \in Requests \ {r}, q \in Products :
              /\ rowLock[q] = s => rowLock'[q] = s
              /\ s \in keyShare[q] => s \in keyShare'[q]
              /\ deleting[q] = s => deleting'[q] = s
BY DEF IndInv, TypeOK, SharesOrDeletion, ReleaseLocks

(* Two requests that hold inventory rows hold different ones. *)
LEMMA RowAlone ==
  ASSUME NEW r \in Requests, NEW s \in Requests, s # r, IndInv,
         HoldsRow(r), HoldsRow(s)
  PROVE  req[s].product # req[r].product
BY DEF IndInv, RowImage

(* A request that holds a product row shares it with nobody. *)
LEMMA ProductAlone ==
  ASSUME NEW r \in Requests, IndInv, HoldsProduct(r)
  PROVE  /\ req[r].product \in live
         /\ deleting[req[r].product] = r
         /\ keyShare[req[r].product] = {}
         /\ \A s \in Requests \ {r} :
              HoldsProduct(s) => req[s].product # req[r].product
<1>1. \A s \in Requests : HoldsProduct(s) => deleting[req[s].product] = s
                                              /\ req[s].product \in live
  BY DEF IndInv, ProductLock
<1>2. req[r].product \in Products /\ r # NoOne
  BY Begun, StockAssumption DEF HoldsProduct
<1>3. QED
  BY <1>1, <1>2 DEF IndInv, SharesOrDeletion

(* The commit of a request that holds an inventory row is seen only by *)
(* those that do not hold it.                                           *)
LEMMA CommitOthers ==
  ASSUME NEW r \in Requests, NEW s \in Requests, s # r, IndInv, HoldsRow(r),
         ReleaseLocks(r), NEW place, pc' = [pc EXCEPT ![r] = place],
         UNCHANGED <<live, req, image, wasLow, alerts, reported>>,
         \A q \in Products : q # req[r].product =>
           quantity'[q] = quantity[q] /\ threshold'[q] = threshold[q],
         stocked \subseteq stocked',
         pc[s] = "commit" /\ req[s].op = "delete" => req[s].product \notin stocked'
  PROVE  AtOwnStatement(s)' /\ RowImage(s)' /\ ProductLock(s)' /\ AlertFacts(s)'
<1>1. pc'[s] = pc[s]
  BY DEF IndInv, TypeOK
<1>2. HoldsRow(s) => req[s].product \in Products /\ req[s].product # req[r].product
  BY RowAlone, Begun DEF HoldsRow
<1>3. HoldsProduct(s) \/ (pc[s] = "commit" /\ req[s].op = "receive")
        => req[s].product \in live
  BY DEF IndInv, ProductLock, RowImage
<1>4. QED
  BY <1>1, <1>2, <1>3, Released, Undisturbed

LEMMA CommitSaleInv ==
  ASSUME NEW r \in Requests, IndInv, CommitSale(r)
  PROVE  IndInv'
<1> DEFINE p == req[r].product
           n == req[r].amount
<1> USE DEF CommitSale, At, Goto, outcome
<1>1. /\ pc[r] = "commit" /\ req[r].op = "sale" /\ p \in Products /\ HoldsRow(r)
      /\ n \in Quantities /\ n \in Nat
  BY Begun, StockAssumption DEF HoldsRow, DeductingOps, SaleOps
<1>2. /\ p \in stocked /\ n <= quantity[p] /\ image[r] = quantity[p] - n
      /\ quantity[p] \in Nat /\ image[r] \in 0..MaxStock /\ sold[p] \in Nat
  BY <1>1 DEF IndInv, RowImage, DeductingOps, SaleOps, TypeOK, Ledger!LedgerTypeOK
<1>3. TypeOK'
  <2>1. quantity' \in [Products -> 0..MaxStock] /\ sold' \in [Products -> Nat]
    BY <1>1, <1>2 DEF IndInv, TypeOK, Ledger!LedgerTypeOK
  <2>2. QED
    BY <1>1, <2>1, Released DEF IndInv, TypeOK, Ledger!LedgerTypeOK, Pcs, Answers
<1>4. Conservation' /\ ReferentialIntegrity'
  <2>1. /\ quantity \in [Products -> 0..MaxStock] /\ sold \in [Products -> Nat]
        /\ removed \in [Products -> Nat] /\ received \in [Products -> Nat]
    BY DEF IndInv, TypeOK, Ledger!LedgerTypeOK
  <2>2. QED
    BY <1>1, <1>2, <2>1, StockAssumption DEF IndInv, Conservation, Ledger!Conservation,
       ReferentialIntegrity, Ledger!ReferentialIntegrity
<1>5. ASSUME NEW s \in Requests
      PROVE  AtOwnStatement(s)' /\ RowImage(s)' /\ ProductLock(s)' /\ AlertFacts(s)'
  <2>1. CASE s = r
    BY <1>1, <2>1, DoneFacts DEF IndInv, TypeOK
  <2>2. CASE s # r
    <3>1. \A q \in Products : q # p => quantity'[q] = quantity[q]
      BY <1>1 DEF IndInv, TypeOK, Ledger!LedgerTypeOK
    <3>2. pc[s] = "commit" /\ req[s].op = "delete" => req[s].product \notin stocked
      BY DEF IndInv, ProductLock
    <3>3. QED
      BY <1>1, <2>2, <3>1, <3>2, CommitOthers
  <2>3. QED
    BY <2>1, <2>2
<1>6. QED
  BY <1>3, <1>4, <1>5, Released DEF IndInv

LEMMA CloseRestSaleInv ==
  ASSUME NEW r \in Requests, IndInv, CloseRestSale(r)
  PROVE  IndInv'
BY RollBackInv DEF CloseRestSale, At, Answers

LEMMA CommitDeductInv ==
  ASSUME NEW r \in Requests, IndInv, CommitDeduct(r)
  PROVE  IndInv'
<1> DEFINE p == req[r].product
           n == req[r].amount
<1> USE DEF CommitDeduct, At, Goto, outcome
<1>1. /\ pc[r] = "commit" /\ req[r].op = "deduct" /\ p \in Products /\ HoldsRow(r)
      /\ n \in Quantities /\ n \in Nat /\ r \notin alerts
  <2>1. pc[r] = "commit" /\ req[r].op = "deduct" /\ HoldsRow(r) /\ p \in Products
    BY Begun DEF HoldsRow
  <2>2. n \in Quantities /\ n \in Nat
    BY <2>1, Begun, StockAssumption DEF DeductingOps
  <2>3. QED
    BY <2>1, <2>2 DEF IndInv, AlertFacts
<1>2. /\ p \in stocked /\ n <= quantity[p] /\ image[r] = quantity[p] - n
      /\ quantity[p] \in Nat /\ image[r] \in 0..MaxStock /\ removed[p] \in Nat
  BY <1>1 DEF IndInv, RowImage, DeductingOps, TypeOK, Ledger!LedgerTypeOK
<1>3. TypeOK'
  <2>1. quantity' \in [Products -> 0..MaxStock] /\ removed' \in [Products -> Nat]
    BY <1>1, <1>2 DEF IndInv, TypeOK, Ledger!LedgerTypeOK
  <2>2. QED
    BY <1>1, <2>1, Released DEF IndInv, TypeOK, Ledger!LedgerTypeOK, Pcs
<1>4. Conservation' /\ ReferentialIntegrity'
  <2>1. /\ quantity \in [Products -> 0..MaxStock] /\ sold \in [Products -> Nat]
        /\ removed \in [Products -> Nat] /\ received \in [Products -> Nat]
    BY DEF IndInv, TypeOK, Ledger!LedgerTypeOK
  <2>2. QED
    BY <1>1, <1>2, <2>1, StockAssumption DEF IndInv, Conservation, Ledger!Conservation,
       ReferentialIntegrity, Ledger!ReferentialIntegrity
<1>5. ASSUME NEW s \in Requests
      PROVE  AtOwnStatement(s)' /\ RowImage(s)' /\ ProductLock(s)' /\ AlertFacts(s)'
  <2>1. CASE s = r
    BY <1>1, <2>1, DoneFacts DEF IndInv, TypeOK
  <2>2. CASE s # r
    <3>1. \A q \in Products : q # p => quantity'[q] = quantity[q]
      BY <1>1 DEF IndInv, TypeOK, Ledger!LedgerTypeOK
    <3>2. pc[s] = "commit" /\ req[s].op = "delete" => req[s].product \notin stocked
      BY DEF IndInv, ProductLock
    <3>3. QED
      BY <1>1, <2>2, <3>1, <3>2, CommitOthers
  <2>3. QED
    BY <2>1, <2>2
<1>6. QED
  BY <1>3, <1>4, <1>5, Released DEF IndInv

LEMMA RefreshDeductInv ==
  ASSUME NEW r \in Requests, IndInv, RefreshDeduct(r)
  PROVE  IndInv'
<1> DEFINE p == req[r].product
           told == [remaining |-> quantity[p],
                    entered   |-> ~wasLow[r] /\ Low(quantity[p], threshold[p])]
<1> USE DEF RefreshDeduct, At, Answer, Goto, tables, locks
<1>1. pc[r] = "refresh" /\ p \in Products
  BY Begun
<1>2. told \in [remaining : 0..MaxStock, entered : BOOLEAN]
  BY <1>1 DEF IndInv, TypeOK, Ledger!LedgerTypeOK, Low
<1>3. reported' = [reported EXCEPT ![r] = told]
  OBVIOUS
<1> HIDE DEF told
<1>4. TypeOK'
  BY <1>2, <1>3 DEF IndInv, TypeOK, Ledger!LedgerTypeOK, Pcs, Answers
<1>5. Conservation' /\ ReferentialIntegrity' /\ SharesOrDeletion'
  BY DEF IndInv, Conservation, ReferentialIntegrity, Ledger!Conservation,
         Ledger!ReferentialIntegrity, SharesOrDeletion
<1>6. ASSUME NEW s \in Requests
      PROVE  AtOwnStatement(s)' /\ RowImage(s)' /\ ProductLock(s)' /\ AlertFacts(s)'
  <2>1. CASE s = r
    BY <1>1, <2>1, DoneFacts DEF IndInv, TypeOK
  <2>2. CASE s # r
    <3>1. pc'[s] = pc[s] /\ reported'[s] = reported[s]
      BY <1>3, <2>2 DEF IndInv, TypeOK
    <3>2. /\ HoldsProduct(s) \/ (pc[s] = "commit" /\ req[s].op = "receive")
               => req[s].product \in live
          /\ pc[s] = "commit" /\ req[s].op = "delete" => req[s].product \notin stocked
      BY DEF IndInv, ProductLock, RowImage
    <3>3. QED
      BY <3>1, <3>2, Undisturbed
  <2>3. QED
    BY <2>1, <2>2
<1>7. QED
  BY <1>4, <1>5, <1>6 DEF IndInv

LEMMA ReplySaleInv ==
  ASSUME NEW r \in Requests, IndInv, ReplySale(r)
  PROVE  IndInv'
<1> USE DEF ReplySale, At, Answer, Goto, tables, locks
<1>1. PICK what \in {"ok", "silence"} : Answer(r, what)
  OBVIOUS
<1>2. pc[r] = "reply"
  OBVIOUS
<1>3. TypeOK'
  BY <1>1 DEF IndInv, TypeOK, Ledger!LedgerTypeOK, Pcs, Answers
<1>4. Conservation' /\ ReferentialIntegrity' /\ SharesOrDeletion'
  BY DEF IndInv, Conservation, ReferentialIntegrity, Ledger!Conservation,
         Ledger!ReferentialIntegrity, SharesOrDeletion
<1>5. ASSUME NEW s \in Requests
      PROVE  AtOwnStatement(s)' /\ RowImage(s)' /\ ProductLock(s)' /\ AlertFacts(s)'
  <2>1. CASE s = r
    BY <1>1, <1>2, <2>1, DoneFacts DEF IndInv, TypeOK
  <2>2. CASE s # r
    <3>1. pc'[s] = pc[s]
      BY <1>1, <2>2 DEF IndInv, TypeOK
    <3>2. /\ HoldsProduct(s) \/ (pc[s] = "commit" /\ req[s].op = "receive")
               => req[s].product \in live
          /\ pc[s] = "commit" /\ req[s].op = "delete" => req[s].product \notin stocked
      BY DEF IndInv, ProductLock, RowImage
    <3>3. QED
      BY <3>1, <3>2, Undisturbed
  <2>3. QED
    BY <2>1, <2>2
<1>6. QED
  BY <1>3, <1>4, <1>5 DEF IndInv

LEMMA UpsertStockInv ==
  ASSUME NEW r \in Requests, IndInv, UpsertStock(r)
  PROVE  IndInv'
<1> DEFINE p == req[r].product
           total == quantity[p] + req[r].amount
           inserting == [keyShare EXCEPT ![p] = @ \union {r}]
<1> USE DEF Goto, tables, outcome
<1>1. /\ pc[r] = "upsert" /\ req[r].op = "receive" /\ p \in Products
      /\ req[r].amount \in Nat
  BY Begun, StockAssumption DEF UpsertStock, At, IndInv, AtOwnStatement
<1>2. CASE RollBack(r, "error")
  BY <1>1, <1>2, RollBackInv DEF Answers
<1>3. CASE /\ rowLock[p] = NoOne /\ (p \in stocked \/ deleting[p] = NoOne)
           /\ p \in live /\ total <= MaxStock
           /\ rowLock' = [rowLock EXCEPT ![p] = r]
           /\ keyShare' = IF p \in stocked THEN keyShare ELSE inserting
           /\ image' = [image EXCEPT ![r] = total]
           /\ Goto(r, "commit")
           /\ UNCHANGED <<tables, req, wasLow, deleting, outcome>>
  <2>1. total \in 0..MaxStock
    BY <1>1, <1>3, StockAssumption DEF IndInv, TypeOK, Ledger!LedgerTypeOK
  <2>2. /\ keyShare' \in [Products -> SUBSET Requests]
        /\ \A q \in Products : keyShare[q] \subseteq keyShare'[q]
        /\ \A q \in Products : q # p => keyShare'[q] = keyShare[q]
        /\ p \in stocked => keyShare' = keyShare
        /\ p \notin stocked => r \in keyShare'[p]
    BY <1>1, <1>3 DEF IndInv, TypeOK
  <2>3. TypeOK'
    BY <1>1, <1>3, <2>1, <2>2 DEF IndInv, TypeOK, Ledger!LedgerTypeOK, Pcs
  <2>4. Conservation' /\ ReferentialIntegrity'
    BY <1>3 DEF IndInv, Conservation, ReferentialIntegrity, Ledger!Conservation,
           Ledger!ReferentialIntegrity
  <2>5. SharesOrDeletion'
    BY <1>3, <2>2 DEF IndInv, SharesOrDeletion
  <2>6. ASSUME NEW s \in Requests
        PROVE  AtOwnStatement(s)' /\ RowImage(s)' /\ ProductLock(s)' /\ AlertFacts(s)'
    <3>1. AtOwnStatement(s) /\ AlertFacts(s)
      BY DEF IndInv
    <3>2. CASE s = r
      <4>1. pc'[r] = "commit" /\ image'[r] = total /\ rowLock'[p] = r
        BY <1>1, <1>3 DEF IndInv, TypeOK
      <4>2. r \notin alerts
        BY <1>1, <3>1, <3>2 DEF AlertFacts
      <4>3. QED
        BY <1>1, <1>3, <2>2, <3>1, <3>2, <4>1, <4>2
           DEF AtOwnStatement, RowImage, ProductLock, AlertFacts, HoldsRow,
               HoldsProduct, DeductingOps, SaleOps
    <3>3. CASE s # r
      <4>1. pc'[s] = pc[s] /\ image'[s] = image[s]
        BY <1>3, <3>3 DEF IndInv, TypeOK
      <4>2. \A q \in Products : rowLock[q] = s => rowLock'[q] = s
        BY <1>1, <1>3, StockAssumption DEF IndInv, TypeOK
      <4>3. /\ HoldsProduct(s) \/ (pc[s] = "commit" /\ req[s].op = "receive")
                 => req[s].product \in live
            /\ pc[s] = "commit" /\ req[s].op = "delete" => req[s].product \notin stocked
        BY DEF IndInv, ProductLock, RowImage
      <4>4. QED
        BY <1>3, <2>2, <4>1, <4>2, <4>3, Undisturbed
    <3>4. QED
      BY <3>2, <3>3
  <2>7. QED
    BY <2>3, <2>4, <2>5, <2>6 DEF IndInv
<1>4. QED
  BY <1>2, <1>3 DEF UpsertStock, Free, Fits

LEMMA CommitStockInv ==
  ASSUME NEW r \in Requests, IndInv, CommitStock(r)
  PROVE  IndInv'
<1> DEFINE p == req[r].product
           n == req[r].amount
<1> USE DEF CommitStock, At, Answer, Goto
<1>1. /\ pc[r] = "commit" /\ req[r].op = "receive" /\ p \in Products /\ HoldsRow(r)
      /\ n \in Nat
  BY Begun, StockAssumption DEF HoldsRow
<1>2. /\ p \in live /\ image[r] = quantity[p] + n
      /\ p \in stocked \/ r \in keyShare[p]
      /\ quantity[p] \in Nat /\ image[r] \in 0..MaxStock /\ received[p] \in Nat
  BY <1>1 DEF IndInv, RowImage, TypeOK, Ledger!LedgerTypeOK
<1>3. TypeOK'
  <2>1. /\ quantity' \in [Products -> 0..MaxStock] /\ received' \in [Products -> Nat]
        /\ stocked' \subseteq Products
    BY <1>1, <1>2 DEF IndInv, TypeOK, Ledger!LedgerTypeOK
  <2>2. QED
    BY <1>1, <2>1, Released DEF IndInv, TypeOK, Ledger!LedgerTypeOK, Pcs, Answers
<1>4. Conservation' /\ ReferentialIntegrity'
  <2>1. /\ quantity \in [Products -> 0..MaxStock] /\ sold \in [Products -> Nat]
        /\ removed \in [Products -> Nat] /\ received \in [Products -> Nat]
    BY DEF IndInv, TypeOK, Ledger!LedgerTypeOK
  <2>2. QED
    BY <1>1, <1>2, <2>1, StockAssumption DEF IndInv, Conservation, Ledger!Conservation,
       ReferentialIntegrity, Ledger!ReferentialIntegrity
<1>5. ASSUME NEW s \in Requests
      PROVE  AtOwnStatement(s)' /\ RowImage(s)' /\ ProductLock(s)' /\ AlertFacts(s)'
  <2>1. CASE s = r
    <3>1. r \notin alerts /\ alerts' = alerts
      BY <1>1 DEF IndInv, AlertFacts
    <3>2. QED
      BY <1>1, <2>1, <3>1, DoneFacts DEF IndInv, TypeOK
  <2>2. CASE s # r
    <3>1. \A q \in Products : q # p => quantity'[q] = quantity[q]
      BY <1>1 DEF IndInv, TypeOK, Ledger!LedgerTypeOK
    <3>2. pc[s] = "commit" /\ req[s].op = "delete" => req[s].product \notin stocked'
      <4>1. SUFFICES ASSUME pc[s] = "commit", req[s].op = "delete"
                     PROVE  req[s].product \notin stocked /\ req[s].product # p
        OBVIOUS
      <4>2. keyShare[req[s].product] = {} /\ req[s].product \notin stocked
        BY <4>1, ProductAlone DEF HoldsProduct, IndInv, ProductLock
      <4>3. QED
        BY <1>2, <4>2
    <3>3. QED
      BY <1>1, <2>2, <3>1, <3>2, CommitOthers
  <2>3. QED
    BY <2>1, <2>2
<1>6. QED
  BY <1>3, <1>4, <1>5, Released DEF IndInv

LEMMA WriteThresholdInv ==
  ASSUME NEW r \in Requests, IndInv, WriteThreshold(r)
  PROVE  IndInv'
<1> DEFINE p == req[r].product
<1> USE DEF WriteThreshold, At, Free, Goto, tables, outcome
<1>1. /\ pc[r] = "write" /\ req[r].op = "threshold" /\ p \in Products
      /\ p \in stocked /\ rowLock[p] = NoOne
  BY Begun DEF IndInv, AtOwnStatement, RowImage
<1>2. TypeOK'
  BY <1>1 DEF IndInv, TypeOK, Ledger!LedgerTypeOK, Pcs
<1>3. Conservation' /\ ReferentialIntegrity' /\ SharesOrDeletion'
  BY DEF IndInv, Conservation, ReferentialIntegrity, Ledger!Conservation,
         Ledger!ReferentialIntegrity, SharesOrDeletion
<1>4. ASSUME NEW s \in Requests
      PROVE  AtOwnStatement(s)' /\ RowImage(s)' /\ ProductLock(s)' /\ AlertFacts(s)'
  <2>1. AtOwnStatement(s) /\ AlertFacts(s)
    BY DEF IndInv
  <2>2. CASE s = r
    <3>1. pc'[r] = "commit" /\ rowLock'[p] = r /\ r \notin alerts
      BY <1>1, <2>1, <2>2 DEF IndInv, TypeOK, AlertFacts
    <3>2. QED
      BY <1>1, <2>1, <2>2, <3>1
         DEF AtOwnStatement, RowImage, ProductLock, AlertFacts, HoldsRow,
             HoldsProduct, DeductingOps, SaleOps
  <2>3. CASE s # r
    <3>1. pc'[s] = pc[s]
      BY <2>3 DEF IndInv, TypeOK
    <3>2. \A q \in Products : rowLock[q] = s => rowLock'[q] = s
      BY <1>1, StockAssumption DEF IndInv, TypeOK
    <3>3. /\ HoldsProduct(s) \/ (pc[s] = "commit" /\ req[s].op = "receive")
               => req[s].product \in live
          /\ pc[s] = "commit" /\ req[s].op = "delete" => req[s].product \notin stocked
      BY DEF IndInv, ProductLock, RowImage
    <3>4. QED
      BY <3>1, <3>2, <3>3, Undisturbed
  <2>4. QED
    BY <2>2, <2>3
<1>5. QED
  BY <1>2, <1>3, <1>4 DEF IndInv

LEMMA CommitThresholdInv ==
  ASSUME NEW r \in Requests, IndInv, CommitThreshold(r)
  PROVE  IndInv'
<1> DEFINE p == req[r].product
<1> USE DEF CommitThreshold, At, Answer, Goto
<1>1. /\ pc[r] = "commit" /\ req[r].op = "threshold" /\ p \in Products /\ HoldsRow(r)
      /\ req[r].amount \in Nat
  BY Begun, StockAssumption DEF HoldsRow
<1>2. TypeOK'
  <2>1. threshold' \in [Products -> Nat]
    BY <1>1 DEF IndInv, TypeOK, Ledger!LedgerTypeOK
  <2>2. QED
    BY <1>1, <2>1, Released DEF IndInv, TypeOK, Ledger!LedgerTypeOK, Pcs, Answers
<1>3. Conservation' /\ ReferentialIntegrity'
  BY DEF IndInv, Conservation, ReferentialIntegrity, Ledger!Conservation,
         Ledger!ReferentialIntegrity
<1>4. ASSUME NEW s \in Requests
      PROVE  AtOwnStatement(s)' /\ RowImage(s)' /\ ProductLock(s)' /\ AlertFacts(s)'
  <2>1. CASE s = r
    BY <1>1, <2>1, DoneFacts DEF IndInv, TypeOK
  <2>2. CASE s # r
    <3>1. \A q \in Products : q # p => threshold'[q] = threshold[q]
      BY <1>1 DEF IndInv, TypeOK, Ledger!LedgerTypeOK
    <3>2. pc[s] = "commit" /\ req[s].op = "delete" => req[s].product \notin stocked
      BY DEF IndInv, ProductLock
    <3>3. QED
      BY <1>1, <2>2, <3>1, <3>2, CommitOthers
  <2>3. QED
    BY <2>1, <2>2
<1>5. QED
  BY <1>2, <1>3, <1>4, Released DEF IndInv

LEMMA CommitCreateInv ==
  ASSUME NEW r \in Requests, IndInv, CommitCreate(r)
  PROVE  IndInv'
<1> DEFINE p == req[r].product
<1> USE DEF Answer, Goto
<1>1. pc[r] = "commit" /\ req[r].op = "create" /\ p \in Products
  BY Begun DEF CommitCreate, At
<1>2. CASE RollBack(r, "conflict")
  BY <1>1, <1>2, RollBackInv DEF Answers
<1>3. CASE /\ created' = created \union {p}
           /\ live' = live \union {p}
           /\ Answer(r, "ok")
           /\ ReleaseLocks(r)
           /\ UNCHANGED <<stocked, quantity, threshold, sold, received, removed,
                          req, image, wasLow, alerts, reported>>
  <2>1. TypeOK'
    BY <1>1, <1>3, Released DEF IndInv, TypeOK, Ledger!LedgerTypeOK, Pcs, Answers
  <2>2. Conservation' /\ ReferentialIntegrity'
    BY <1>3 DEF IndInv, Conservation, ReferentialIntegrity, Ledger!Conservation,
           Ledger!ReferentialIntegrity
  <2>3. ASSUME NEW s \in Requests
        PROVE  AtOwnStatement(s)' /\ RowImage(s)' /\ ProductLock(s)' /\ AlertFacts(s)'
    <3>1. CASE s = r
      <4>1. pc'[r] = "done"
        BY <1>3 DEF IndInv, TypeOK
      <4>2. QED
        BY <1>1, <1>3, <3>1, <4>1, DoneFacts
    <3>2. CASE s # r
      <4>1. pc'[s] = pc[s]
        BY <1>3, <3>2 DEF IndInv, TypeOK
      <4>2. /\ HoldsProduct(s) \/ (pc[s] = "commit" /\ req[s].op = "receive")
                 => req[s].product \in live
            /\ pc[s] = "commit" /\ req[s].op = "delete" => req[s].product \notin stocked
        BY DEF IndInv, ProductLock, RowImage
      <4>3. QED
        BY <1>3, <3>2, <4>1, <4>2, Released, Undisturbed
    <3>3. QED
      BY <3>1, <3>2
  <2>4. QED
    BY <1>3, <2>1, <2>2, <2>3, Released DEF IndInv
<1>4. QED
  BY <1>2, <1>3 DEF CommitCreate

LEMMA DeleteProductInv ==
  ASSUME NEW r \in Requests, IndInv, DeleteProduct(r)
  PROVE  IndInv'
<1> DEFINE p == req[r].product
<1> USE DEF Goto, tables, outcome
<1>1. pc[r] = "delete" /\ req[r].op = "delete" /\ p \in Products
  BY Begun DEF DeleteProduct, At, IndInv, AtOwnStatement
<1>2. CASE RollBack(r, "ok")
  BY <1>1, <1>2, RollBackInv DEF Answers
<1>3. CASE /\ deleting[p] = NoOne /\ keyShare[p] = {}
           /\ p \in live
           /\ deleting' = [deleting EXCEPT ![p] = r]
           /\ Goto(r, "refs")
           /\ UNCHANGED <<tables, req, image, wasLow, rowLock, keyShare, outcome>>
  <2>1. TypeOK'
    BY <1>1, <1>3 DEF IndInv, TypeOK, Ledger!LedgerTypeOK, Pcs
  <2>2. Conservation' /\ ReferentialIntegrity'
    BY <1>3 DEF IndInv, Conservation, ReferentialIntegrity, Ledger!Conservation,
           Ledger!ReferentialIntegrity
  <2>3. SharesOrDeletion'
    BY <1>3 DEF IndInv, TypeOK, SharesOrDeletion
  <2>4. ASSUME NEW s \in Requests
        PROVE  AtOwnStatement(s)' /\ RowImage(s)' /\ ProductLock(s)' /\ AlertFacts(s)'
    <3>1. AtOwnStatement(s) /\ AlertFacts(s)
      BY DEF IndInv
    <3>2. CASE s = r
      <4>1. pc'[r] = "refs" /\ deleting'[p] = r /\ r \notin alerts
        BY <1>1, <1>3, <3>1, <3>2 DEF IndInv, TypeOK, AlertFacts
      <4>2. QED
        BY <1>1, <1>3, <3>1, <3>2, <4>1
           DEF AtOwnStatement, RowImage, ProductLock, AlertFacts, HoldsRow, HoldsProduct
    <3>3. CASE s # r
      <4>1. pc'[s] = pc[s]
        BY <1>3, <3>3 DEF IndInv, TypeOK
      <4>2. \A q \in Products : deleting[q] = s => deleting'[q] = s
        BY <1>1, <1>3, StockAssumption DEF IndInv, TypeOK
      <4>3. /\ HoldsProduct(s) \/ (pc[s] = "commit" /\ req[s].op = "receive")
                 => req[s].product \in live
            /\ pc[s] = "commit" /\ req[s].op = "delete" => req[s].product \notin stocked
        BY DEF IndInv, ProductLock, RowImage
      <4>4. QED
        BY <1>3, <4>1, <4>2, <4>3, Undisturbed
    <3>4. QED
      BY <3>2, <3>3
  <2>5. QED
    BY <2>1, <2>2, <2>3, <2>4 DEF IndInv
<1>4. QED
  BY <1>2, <1>3 DEF DeleteProduct

LEMMA CheckReferencesInv ==
  ASSUME NEW r \in Requests, IndInv, CheckReferences(r)
  PROVE  IndInv'
<1> DEFINE p == req[r].product
<1> USE DEF Proceed, Goto, tables, locks, outcome
<1>1. pc[r] = "refs" /\ req[r].op = "delete" /\ p \in Products
  BY Begun DEF CheckReferences, At, IndInv, AtOwnStatement
<1>2. CASE RollBack(r, "conflict")
  BY <1>1, <1>2, RollBackInv DEF Answers
<1>3. CASE ~Referenced(p) /\ Proceed(r, "commit")
  <2>1. TypeOK'
    BY <1>1, <1>3 DEF IndInv, TypeOK, Ledger!LedgerTypeOK, Pcs
  <2>2. Conservation' /\ ReferentialIntegrity' /\ SharesOrDeletion'
    BY <1>3 DEF IndInv, Conservation, ReferentialIntegrity, Ledger!Conservation,
           Ledger!ReferentialIntegrity, SharesOrDeletion
  <2>3. ASSUME NEW s \in Requests
        PROVE  AtOwnStatement(s)' /\ RowImage(s)' /\ ProductLock(s)' /\ AlertFacts(s)'
    <3>1. AtOwnStatement(s) /\ RowImage(s) /\ ProductLock(s) /\ AlertFacts(s)
      BY DEF IndInv
    <3>2. pc'[s] = IF s = r THEN "commit" ELSE pc[s]
      BY <1>3 DEF IndInv, TypeOK
    <3>3. p \notin stocked
      BY <1>3 DEF Referenced
    <3>4. CASE s = r
      BY <1>1, <1>3, <3>1, <3>2, <3>3, <3>4
         DEF AtOwnStatement, RowImage, ProductLock, AlertFacts, HoldsRow,
             HoldsProduct, DeductingOps, SaleOps
    <3>5. CASE s # r
      BY <1>3, <3>1, <3>2, <3>5
         DEF AtOwnStatement, RowImage, ProductLock, AlertFacts, HoldsRow, HoldsProduct
    <3>6. QED
      BY <3>4, <3>5
  <2>4. QED
    BY <2>1, <2>2, <2>3 DEF IndInv
<1>4. QED
  BY <1>2, <1>3 DEF CheckReferences

LEMMA CommitDeleteInv ==
  ASSUME NEW r \in Requests, IndInv, CommitDelete(r)
  PROVE  IndInv'
<1> DEFINE p == req[r].product
<1> USE DEF CommitDelete, At, Answer, Goto
<1>1. /\ pc[r] = "commit" /\ req[r].op = "delete" /\ p \in Products
      /\ HoldsProduct(r) /\ p \notin stocked
  BY Begun DEF HoldsProduct, IndInv, ProductLock
<1>2. TypeOK'
  BY <1>1, Released DEF IndInv, TypeOK, Ledger!LedgerTypeOK, Pcs, Answers
<1>3. Conservation' /\ ReferentialIntegrity'
  BY <1>1 DEF IndInv, Conservation, ReferentialIntegrity, Ledger!Conservation,
         Ledger!ReferentialIntegrity
<1>4. ASSUME NEW s \in Requests
      PROVE  AtOwnStatement(s)' /\ RowImage(s)' /\ ProductLock(s)' /\ AlertFacts(s)'
  <2>1. CASE s = r
    BY <1>1, <2>1, DoneFacts DEF IndInv, TypeOK
  <2>2. CASE s # r
    <3>1. pc'[s] = pc[s]
      BY <2>2 DEF IndInv, TypeOK
    <3>2. HoldsProduct(s) => req[s].product \in live'
      <4>1. HoldsProduct(s) => req[s].product # p /\ req[s].product \in live
        BY <1>1, <2>2, ProductAlone
      <4>2. QED
        BY <4>1
    <3>3. pc[s] = "commit" /\ req[s].op = "receive" => req[s].product \in live'
      <4>1. keyShare[p] = {}
        BY <1>1, ProductAlone
      <4>2. pc[s] = "commit" /\ req[s].op = "receive" =>
              /\ req[s].product \in live
              /\ req[s].product \in stocked \/ s \in keyShare[req[s].product]
        BY DEF IndInv, RowImage
      <4>3. QED
        BY <1>1, <4>1, <4>2
    <3>4. pc[s] = "commit" /\ req[s].op = "delete" => req[s].product \notin stocked
      BY DEF IndInv, ProductLock
    <3>5. QED
      BY <2>2, <3>1, <3>2, <3>3, <3>4, Released, Undisturbed
  <2>3. QED
    BY <2>1, <2>2
<1>5. QED
  BY <1>2, <1>3, <1>4, Released DEF IndInv

-----------------------------------------------------------------------------
(* The theorems *)

LEMMA StepInv ==
  ASSUME NEW r \in Requests, IndInv, Arrive(r) \/ Step(r) \/ Fail(r)
  PROVE  IndInv'
<1>1. CASE Arrive(r)
  BY <1>1, ArriveInv
<1>2. CASE Fail(r)
  BY <1>2, RollBackInv DEF Fail, Unanswered, Answers
<1>3. CASE BreakDeadlock(r)
  BY <1>3, RollBackInv DEF BreakDeadlock, Deadlocked, At, Answers
<1>4. CASE Step(r) /\ ~BreakDeadlock(r)
  BY <1>4, LoadSaleInv, LockAndDeductInv, InsertSaleInv, EnqueueAlertInv,
     CommitSaleInv, ReplySaleInv, CloseRestSaleInv, CommitDeductInv, RefreshDeductInv,
     UpsertStockInv, CommitStockInv, LoadThresholdInv, WriteThresholdInv,
     CommitThresholdInv, CommitCreateInv, LoadDeleteInv, DeleteProductInv,
     CheckReferencesInv, CommitDeleteInv
     DEF Step
<1>5. QED
  BY <1>1, <1>2, <1>3, <1>4

LEMMA StutterInv ==
  ASSUME IndInv, UNCHANGED vars
  PROVE  IndInv'
BY DEF vars, tables, local, locks, outcome, IndInv, TypeOK, Ledger!LedgerTypeOK,
       Conservation, Ledger!Conservation, ReferentialIntegrity,
       Ledger!ReferentialIntegrity, SharesOrDeletion, AtOwnStatement, RowImage,
       ProductLock, AlertFacts, HoldsRow, HoldsProduct

(***************************************************************************)
(* Every state the interleaved transactions reach satisfies the inductive  *)
(* invariant: whoever holds a row still knows its committed quantity and   *)
(* threshold, for any number of requests.                                  *)
(***************************************************************************)
THEOREM Inductive == Spec => []IndInv
<1>1. Init => IndInv
  BY InitInv
<1>2. IndInv /\ [Next]_vars => IndInv'
  BY StepInv, StutterInv DEF Next, Finished
<1>3. QED
  BY <1>1, <1>2, PTL DEF Spec

(***************************************************************************)
(* Tables, locks and replies keep their types: in particular no sale and   *)
(* no deduction takes a quantity below zero, and no receipt leaves the     *)
(* range of the column (inventory_service.deduct_stock, add_stock.sql).    *)
(***************************************************************************)
THEOREM StockTyped == Spec => []TypeOK
<1>1. IndInv => TypeOK
  BY DEF IndInv
<1>2. QED
  BY <1>1, Inductive, PTL

(***************************************************************************)
(* The committed quantity is what came in less what committed sales and    *)
(* deductions took, whatever overlaps or fails (deduct_stock's row lock).  *)
(***************************************************************************)
THEOREM StockConserved == Spec => []Conservation
<1>1. IndInv => Conservation
  BY DEF IndInv
<1>2. QED
  BY <1>1, Inductive, PTL

(***************************************************************************)
(* delete_product never leaves stock or sales behind, although it checks   *)
(* for the product before the statement that deletes it.                   *)
(***************************************************************************)
THEOREM NoOrphans == Spec => []ReferentialIntegrity
<1>1. IndInv => ReferentialIntegrity
  BY DEF IndInv
<1>2. QED
  BY <1>1, Inductive, PTL

-----------------------------------------------------------------------------
(* The refinement *)

LEMMA CommitSaleSells ==
  ASSUME NEW r \in Requests, IndInv, CommitSale(r)
  PROVE  Ledger!Sell(req[r].product, req[r].amount)
         /\ req[r].product \in Products /\ req[r].amount \in Quantities
<1>1. /\ pc[r] = "commit" /\ req[r].op = "sale" /\ HoldsRow(r)
      /\ req[r].product \in Products /\ req[r].amount \in Quantities
  BY Begun DEF CommitSale, At, HoldsRow, DeductingOps, SaleOps
<1>2. QED
  BY <1>1 DEF CommitSale, Ledger!Sell, IndInv, RowImage, DeductingOps, SaleOps,
              ReferentialIntegrity, Ledger!ReferentialIntegrity

LEMMA CommitDeductDeducts ==
  ASSUME NEW r \in Requests, IndInv, CommitDeduct(r)
  PROVE  Ledger!Deduct(req[r].product, req[r].amount)
         /\ req[r].product \in Products /\ req[r].amount \in Quantities
<1>1. /\ pc[r] = "commit" /\ req[r].op = "deduct" /\ HoldsRow(r)
      /\ req[r].product \in Products /\ req[r].amount \in Quantities
  BY Begun DEF CommitDeduct, At, HoldsRow, DeductingOps
<1>2. QED
  BY <1>1 DEF CommitDeduct, Ledger!Deduct, IndInv, RowImage, DeductingOps

LEMMA CommitStockReceives ==
  ASSUME NEW r \in Requests, IndInv, CommitStock(r)
  PROVE  Ledger!Receive(req[r].product, req[r].amount)
         /\ req[r].product \in Products /\ req[r].amount \in Quantities
<1>1. /\ pc[r] = "commit" /\ req[r].op = "receive"
      /\ req[r].product \in Products /\ req[r].amount \in Quantities
  BY Begun DEF CommitStock, At
<1>2. /\ req[r].product \in live
      /\ image[r] = quantity[req[r].product] + req[r].amount
      /\ image[r] <= MaxStock
  BY <1>1, StockAssumption DEF IndInv, RowImage, TypeOK
<1>3. QED
  BY <1>1, <1>2 DEF CommitStock, Ledger!Receive

LEMMA CommitDeleteDeletes ==
  ASSUME NEW r \in Requests, IndInv, CommitDelete(r)
  PROVE  Ledger!Delete(req[r].product) /\ req[r].product \in Products
<1>1. /\ pc[r] = "commit" /\ req[r].op = "delete" /\ HoldsProduct(r)
      /\ req[r].product \in Products /\ req[r].product \notin stocked
      /\ req[r].product \in live
  BY Begun DEF CommitDelete, At, HoldsProduct, IndInv, ProductLock
<1>2. sold[req[r].product] = 0
  BY <1>1 DEF IndInv, ReferentialIntegrity, Ledger!ReferentialIntegrity, TypeOK,
              Ledger!LedgerTypeOK
<1>3. QED
  BY <1>1, <1>2 DEF CommitDelete, Ledger!Delete

LEMMA StepRefines ==
  ASSUME NEW r \in Requests, IndInv, Arrive(r) \/ Step(r) \/ Fail(r)
  PROVE  Ledger!Next \/ UNCHANGED tables
<1>1. CASE \E why \in Answers : RollBack(r, why)
  BY <1>1 DEF RollBack, tables
<1>2. CASE Arrive(r) \/ RefreshDeduct(r) \/ WriteThreshold(r) \/ ReplySale(r)
  BY <1>2 DEF Arrive, RefreshDeduct, WriteThreshold, ReplySale, tables
<1>3. CASE \/ LoadSale(r) \/ LockAndDeduct(r) \/ InsertSale(r) \/ UpsertStock(r)
           \/ LoadThreshold(r) \/ LoadDelete(r) \/ DeleteProduct(r)
           \/ CheckReferences(r) \/ CloseRestSale(r) \/ EnqueueAlert(r)
  BY <1>3 DEF EnqueueAlert, LoadSale, LockAndDeduct, InsertSale, UpsertStock, LoadThreshold,
              LoadDelete, DeleteProduct, CheckReferences, CloseRestSale, RollBack,
              Proceed, tables
<1>4. CASE CommitSale(r)
  BY <1>4, CommitSaleSells DEF Ledger!Next
<1>5. CASE CommitDeduct(r)
  BY <1>5, CommitDeductDeducts DEF Ledger!Next
<1>6. CASE CommitStock(r)
  BY <1>6, CommitStockReceives DEF Ledger!Next
<1>7. CASE CommitDelete(r)
  BY <1>7, CommitDeleteDeletes DEF Ledger!Next
<1>8. CASE CommitThreshold(r)
  <2>1. /\ req[r].product \in Products /\ req[r].product \in stocked
        /\ req[r].amount \in Thresholds
    BY <1>8, Begun DEF CommitThreshold, At, IndInv, RowImage
  <2>2. Ledger!SetThreshold(req[r].product, req[r].amount)
    BY <1>8, <2>1 DEF CommitThreshold, Ledger!SetThreshold
  <2>3. QED
    BY <2>1, <2>2 DEF Ledger!Next
<1>9. CASE CommitCreate(r) /\ ~RollBack(r, "conflict")
  <2>1. req[r].product \in Products /\ Ledger!Create(req[r].product)
    BY <1>9, Begun DEF CommitCreate, At, Ledger!Create
  <2>2. QED
    BY <2>1 DEF Ledger!Next
<1>10. QED
  BY <1>1, <1>2, <1>3, <1>4, <1>5, <1>6, <1>7, <1>8, <1>9
     DEF Step, Fail, BreakDeadlock, Answers

(***************************************************************************)
(* The interleaved transactions implement the ledger: every commit is one  *)
(* of its indivisible steps, and nothing else changes it.                  *)
(***************************************************************************)
THEOREM Refinement == Spec => ImplementsLedger
<1>1. Init => Ledger!Init
  BY DEF Init
<1>2. IndInv /\ [Next]_vars => [Ledger!Next]_(Ledger!ledger)
  BY StepRefines DEF Next, Finished, vars, tables, Ledger!ledger
<1>3. QED
  BY <1>1, <1>2, Inductive, PTL DEF Spec, ImplementsLedger, Ledger!Spec

-----------------------------------------------------------------------------
(* What a sale reports *)

(* Nobody is answered twice. *)
AnsweredOnce == \A r \in Requests : pc[r] # "done" => answer[r] = "none"

(* A step of r either answers r or answers nobody. *)
LEMMA StepAnswers ==
  ASSUME NEW r \in Requests, IndInv, Arrive(r) \/ Step(r) \/ Fail(r)
  PROVE  /\ \A s \in Requests \ {r} : pc'[s] = pc[s] /\ answer'[s] = answer[s]
         /\ \/ pc'[r] = "done"
            \/ answer' = answer /\ pc[r] # "done"
<1> USE DEF At, Answer, Goto, RollBack, Proceed, outcome, IndInv, TypeOK
<1>1. CASE Arrive(r)
  BY <1>1 DEF Arrive
<1>2. CASE LoadSale(r) \/ LockAndDeduct(r) \/ InsertSale(r) \/ EnqueueAlert(r)
  BY <1>2 DEF LoadSale, LockAndDeduct, InsertSale, EnqueueAlert
<1>3. CASE \/ CommitSale(r) \/ ReplySale(r) \/ CloseRestSale(r)
           \/ CommitDeduct(r) \/ RefreshDeduct(r)
  BY <1>3 DEF CommitSale, ReplySale, CloseRestSale, CommitDeduct, RefreshDeduct
<1>4. CASE UpsertStock(r) \/ CommitStock(r)
  BY <1>4 DEF UpsertStock, CommitStock
<1>5. CASE LoadThreshold(r) \/ WriteThreshold(r) \/ CommitThreshold(r)
  BY <1>5 DEF LoadThreshold, WriteThreshold, CommitThreshold
<1>6. CASE \/ CommitCreate(r) \/ LoadDelete(r) \/ DeleteProduct(r)
           \/ CheckReferences(r) \/ CommitDelete(r)
  BY <1>6 DEF CommitCreate, LoadDelete, DeleteProduct, CheckReferences, CommitDelete
<1>7. CASE BreakDeadlock(r) \/ Fail(r)
  BY <1>7 DEF BreakDeadlock, Fail
<1>8. QED
  BY <1>1, <1>2, <1>3, <1>4, <1>5, <1>6, <1>7 DEF Step

LEMMA AnsweredOnceInv ==
  ASSUME IndInv, AnsweredOnce, [Next]_vars
  PROVE  AnsweredOnce'
BY StepAnswers DEF AnsweredOnce, Next, Finished, vars, local, outcome

(* Only CommitSale takes a request from its commit to its reply. *)
LEMMA OnlyCommitSale ==
  ASSUME NEW r \in Requests, IndInv, pc[r] = "commit", req[r].op = "sale",
         Arrive(r) \/ Step(r) \/ Fail(r), pc'[r] = "reply"
  PROVE  CommitSale(r)
<1>1. CASE RollBack(r, "error")
  BY <1>1 DEF RollBack, Answer, Goto, IndInv, TypeOK
<1>2. ~Arrive(r) /\ ~LoadSale(r) /\ ~LockAndDeduct(r) /\ ~InsertSale(r)
      /\ ~EnqueueAlert(r) /\ ~CloseRestSale(r) /\ ~RefreshDeduct(r)
      /\ ~ReplySale(r)
  BY DEF Arrive, LoadSale, LockAndDeduct, InsertSale, EnqueueAlert, CloseRestSale,
         RefreshDeduct, ReplySale, At
<1>3. /\ ~UpsertStock(r) /\ ~LoadThreshold(r) /\ ~WriteThreshold(r)
      /\ ~LoadDelete(r) /\ ~DeleteProduct(r) /\ ~CheckReferences(r)
  BY DEF UpsertStock, LoadThreshold, WriteThreshold, LoadDelete, DeleteProduct,
         CheckReferences, At
<1>4. /\ ~CommitDeduct(r) /\ ~CommitStock(r) /\ ~CommitThreshold(r)
      /\ ~CommitCreate(r) /\ ~CommitDelete(r)
  BY DEF CommitDeduct, CommitStock, CommitThreshold, CommitCreate, CommitDelete
<1>5. QED
  BY <1>1, <1>2, <1>3, <1>4 DEF Step, Fail, BreakDeadlock

SaleFact(r) ==
  req[r].op = "sale" /\ Committed(r) =>
    LET p == req[r].product IN
    /\ reported[r].remaining = quantity'[p]
    /\ r \in alerts <=> Crosses(p)

LEMMA StepSaleFact ==
  ASSUME NEW s \in Requests, IndInv, [Next]_vars
  PROVE  SaleFact(s)
<1>1. SUFFICES ASSUME req[s].op = "sale", pc[s] = "commit", pc'[s] = "reply"
               PROVE  /\ reported[s].remaining = quantity'[req[s].product]
                      /\ s \in alerts <=> Crosses(req[s].product)
  BY DEF SaleFact, Committed
<1>2. PICK r \in Requests : Arrive(r) \/ Step(r) \/ Fail(r)
  BY <1>1 DEF Next, Finished, vars, local
<1>3. r = s
  BY <1>1, <1>2, StepAnswers
<1>4. CommitSale(s)
  BY <1>1, <1>2, <1>3, OnlyCommitSale
<1>5. req[s].product \in Products /\ HoldsRow(s)
  BY <1>1, Begun DEF HoldsRow
<1>6. /\ quantity'[req[s].product] = image[s]
      /\ threshold' = threshold
  BY <1>4, <1>5 DEF CommitSale, IndInv, TypeOK, Ledger!LedgerTypeOK
<1>7. QED
  BY <1>1, <1>5, <1>6 DEF IndInv, AlertFacts, Crosses

(***************************************************************************)
(* What the reply of a recorded sale says is true of the database when it  *)
(* is committed, and the sale that takes the stock to its threshold is the *)
(* one whose alert was handed over (deduct_stock's entered_low_stock).     *)
(***************************************************************************)
THEOREM SalesReportFacts == Spec => SaleFacts
<1>1. IndInv /\ [Next]_vars =>
        [\A r \in Requests :
           req[r].op = "sale" /\ Committed(r) =>
             LET p == req[r].product IN
             /\ reported[r].remaining = quantity'[p]
             /\ r \in alerts <=> Crosses(p)]_vars
  BY StepSaleFact DEF SaleFact
<1>2. QED
  BY <1>1, Inductive, PTL DEF Spec, SaleFacts

-----------------------------------------------------------------------------
(* What the sales that were committed come to *)

(* r is a sale that was answered with SALE_RECORDED, or one whose reply is *)
(* still to come or was lost.                                              *)
IsSold(r) ==
  \/ answer[r] = "ok" /\ req[r].op = "sale"
  \/ pc[r] = "reply" \/ answer[r] = "silence"

(* The sales of p, and what each request asks for. *)
SoldRequests(p) == {r \in Requests : IsSold(r) /\ req[r].product = p}
Amounts == [r \in Requests |-> req[r].amount]

(* What MapThenSumSet computes of the amounts is their sum. *)
LEMMA AmountsSum ==
  ASSUME NEW S \in SUBSET Requests
  PROVE  MapThenSumSet(LAMBDA r : req[r].amount, S) = Sum(Amounts, S)
<1> DEFINE R(g) == g = [s \in SUBSET S |->
                          IF s = {} THEN 0
                          ELSE req[Pick(s)].amount + g[s \ {Pick(s)}]]
           h == CHOOSE g : R(g)
<1>1. MapThenSumSet(LAMBDA r : req[r].amount, S) = h[S]
  BY DEF MapThenSumSet, MapThenFoldSet, Pick
<1>2. IsFiniteSet(S)
  BY StockAssumption, FS_Subset
<1>3. ASSUME NEW g PROVE R(g) <=> Sums(g, Amounts, S)
  <2>1. \A s \in SUBSET S : s # {} => Amounts[Pick(s)] = req[Pick(s)].amount
    <3> SUFFICES ASSUME NEW s \in SUBSET S, s # {}
                 PROVE  Amounts[Pick(s)] = req[Pick(s)].amount
      OBVIOUS
    <3>1. Pick(s) \in Requests
      BY PickIsElement
    <3> QED BY <3>1 DEF Amounts
  <2>2. [s \in SUBSET S |-> IF s = {} THEN 0
                            ELSE req[Pick(s)].amount + g[s \ {Pick(s)}]]
          = [s \in SUBSET S |-> IF s = {} THEN 0
                                ELSE Amounts[Pick(s)] + g[s \ {Pick(s)}]]
    BY <2>1
  <2> QED BY <2>2 DEF Sums
<1>4. R(SumOf(Amounts, S))
  BY <1>2, <1>3, SumsExist
<1>5. R(h)
  BY <1>4
<1> HIDE DEF R, h
<1> QED BY <1>1, <1>2, <1>3, <1>5, SumsOnce

LEMMA UnitsAreSum ==
  ASSUME NEW p
  PROVE  UnitsOf(p, Told({"sale"}) \union Untold) = Sum(Amounts, SoldRequests(p))
<1> DEFINE S == {r \in Told({"sale"}) \union Untold : req[r].product = p}
<1>1. S = SoldRequests(p) /\ S \in SUBSET Requests
  BY DEF SoldRequests, IsSold, Told, Untold, At
<1>2. UnitsOf(p, Told({"sale"}) \union Untold)
        = MapThenSumSet(LAMBDA r : req[r].amount, S)
  BY DEF UnitsOf
<1> HIDE DEF S
<1> QED BY <1>1, <1>2, AmountsSum

(* A step in which no sale is committed. *)
Quiet ==
  /\ sold' = sold
  /\ \A s \in Requests : /\ (IsSold(s)' <=> IsSold(s))
                         /\ (IsSold(s) => req'[s] = req[s])

(* Only CommitSale adds to the sales. *)
LEMMA StepIsQuiet ==
  ASSUME NEW r \in Requests, IndInv, AnsweredOnce, ~ CommitSale(r),
         Arrive(r) \/ Step(r) \/ Fail(r)
  PROVE  Quiet
<1>1. /\ answer \in [Requests -> Answers] /\ req \in [Requests -> Asks \union {NoAsk}]
      /\ \A s \in Requests : pc[s] # "done" => answer[s] = "none"
      /\ pc[r] \in {"delete", "refs"} => req[r].op = "delete"
      /\ pc[r] = "close" => req[r].op = "rest_sale"
      /\ pc[r] = "refresh" => req[r].op = "deduct"
      /\ pc[r] = "insert" => req[r].op \in SaleOps
      /\ pc[r] = "reply" => req[r].op = "sale"
      /\ pc \in [Requests -> Pcs]
  BY DEF IndInv, TypeOK, AtOwnStatement, AnsweredOnce
<1>2. ASSUME NEW place, Goto(r, place), place # "reply", pc[r] # "reply",
             answer' = answer, req' = req, sold' = sold
      PROVE  Quiet
  BY <1>1, <1>2 DEF Goto, Quiet, IsSold
<1>3. ASSUME NEW what \in Answers, Answer(r, what), req' = req, sold' = sold,
             pc[r] \notin {"done", "reply"}, what # "silence",
             what = "ok" => req[r].op # "sale"
      PROVE  Quiet
  BY <1>1, <1>3 DEF Answer, Goto, Quiet, IsSold
<1>4. ASSUME NEW why \in Answers, RollBack(r, why), pc[r] \notin {"done", "reply"},
             why # "silence", why = "ok" => req[r].op # "sale"
      PROVE  Quiet
  BY <1>3, <1>4 DEF RollBack, tables
<1>5. CASE Arrive(r)
  <2>1. pc[r] = "new" /\ answer' = answer /\ sold' = sold
    BY <1>5 DEF Arrive, At, tables, outcome
  <2>2. \A s \in Requests : s # r => req'[s] = req[s]
    BY <1>1, <1>5 DEF Arrive
  <2>3. /\ ~ IsSold(r) /\ ~ IsSold(r)'
        /\ \A s \in Requests : s # r => pc'[s] = pc[s]
    <3>1. PICK ask \in Asks : Goto(r, FirstStatement(ask.op))
      BY <1>5 DEF Arrive
    <3>2. FirstStatement(ask.op) # "reply"
      BY AskFields DEF FirstStatement, Ops, DeductingOps, SaleOps
    <3> QED BY <1>1, <2>1, <3>1, <3>2 DEF Goto, IsSold
  <2>4. ASSUME NEW s \in Requests
        PROVE  (IsSold(s)' <=> IsSold(s)) /\ (IsSold(s) => req'[s] = req[s])
    <3>1. CASE s = r
      BY <2>3, <3>1
    <3>2. CASE s # r
      <4>1. req'[s] = req[s] /\ answer'[s] = answer[s]
        BY <2>1, <2>2, <3>2
      <4> QED BY <2>3, <3>2, <4>1 DEF IsSold
    <3> QED BY <3>1, <3>2
  <2> QED BY <2>1, <2>4 DEF Quiet, IsSold
<1>6. CASE LoadSale(r) \/ LoadThreshold(r) \/ LoadDelete(r)
  <2>1. CASE \E place \in {"lock", "write", "delete"} : Proceed(r, place)
    BY <1>2, <1>6, <2>1
       DEF LoadSale, LoadThreshold, LoadDelete, At, Proceed, tables, outcome
  <2> QED BY <1>4, <1>6, <2>1
          DEF LoadSale, LoadThreshold, LoadDelete, SaleOps, At, Answers
<1>7. CASE LockAndDeduct(r) \/ InsertSale(r) \/ EnqueueAlert(r)
  <2>1. CASE \E why \in Answers \ {"ok", "silence"} : RollBack(r, why)
    BY <1>4, <1>7, <2>1 DEF LockAndDeduct, InsertSale, EnqueueAlert, At
  <2>2. CASE LockAndDeduct(r) /\ Goto(r, IF req[r].op = "deduct" THEN "commit" ELSE "insert")
    BY <1>2, <2>1, <2>2 DEF LockAndDeduct, At, Answers, tables, outcome
  <2>3. CASE InsertSale(r) /\ UNCHANGED answer
    BY <1>1, <1>2, <2>1, <2>3 DEF InsertSale, SaleOps, At, Answers, tables, outcome
  <2>4. CASE EnqueueAlert(r)
    BY <1>2, <2>1, <2>4 DEF EnqueueAlert, At, Answers, tables, outcome
  <2> QED BY <1>7, <2>1, <2>2, <2>3, <2>4
          DEF LockAndDeduct, InsertSale, EnqueueAlert, Answers
<1>8. CASE UpsertStock(r) \/ WriteThreshold(r) \/ DeleteProduct(r) \/ CheckReferences(r)
  BY <1>1, <1>2, <1>4, <1>8
     DEF UpsertStock, WriteThreshold, DeleteProduct, CheckReferences, Proceed, At, Answers,
         tables, outcome
<1>9. CASE CloseRestSale(r) \/ RefreshDeduct(r)
  BY <1>1, <1>3, <1>4, <1>9 DEF CloseRestSale, RefreshDeduct, At, Answers, tables
<1>10. CASE CommitDeduct(r) \/ CommitStock(r) \/ CommitThreshold(r) \/ CommitCreate(r)
            \/ CommitDelete(r)
  BY <1>2, <1>3, <1>4, <1>10
     DEF CommitDeduct, CommitStock, CommitThreshold, CommitCreate, CommitDelete, At,
         Answers, outcome
<1>11. CASE BreakDeadlock(r) \/ Fail(r)
  BY <1>4, <1>11 DEF BreakDeadlock, Deadlocked, Fail, Unanswered, At, Answers
<1>12. CASE ReplySale(r)
  <2>1. PICK what \in {"ok", "silence"} : Answer(r, what)
    BY <1>12 DEF ReplySale
  <2> QED BY <1>1, <1>12, <2>1 DEF ReplySale, At, Answer, Goto, tables, Quiet, IsSold
<1> QED BY <1>5, <1>6, <1>7, <1>8, <1>9, <1>10, <1>11, <1>12 DEF Step

(* The units in sales are what the sales that were committed come to. *)
SoldInv == \A p \in Products : sold[p] = Sum(Amounts, SoldRequests(p))

LEMMA SoldType ==
  ASSUME NEW p \in Products
  PROVE  /\ IsFiniteSet(SoldRequests(p)) /\ SoldRequests(p) \subseteq Requests
         /\ IsFiniteSet(SoldRequests(p)')
BY StockAssumption, FS_Subset DEF SoldRequests

LEMMA SameSold ==
  ASSUME SoldInv, Quiet
  PROVE  SoldInv'
<1> SUFFICES ASSUME NEW p \in Products
             PROVE  sold'[p] = Sum(Amounts', SoldRequests(p)')
  BY DEF SoldInv
<1>1. ASSUME NEW s \in Requests
      PROVE  /\ s \in SoldRequests(p)' <=> s \in SoldRequests(p)
             /\ s \in SoldRequests(p) => Amounts'[s] = Amounts[s]
  <2>1. (IsSold(s)' <=> IsSold(s)) /\ (IsSold(s) => req'[s] = req[s])
    BY DEF Quiet, IsSold
  <2> QED BY <2>1 DEF SoldRequests, Amounts
<1>2. SoldRequests(p)' = SoldRequests(p)
  BY <1>1 DEF SoldRequests
<1>3. Sum(Amounts', SoldRequests(p)) = Sum(Amounts, SoldRequests(p))
  <2>1. \A s \in SoldRequests(p) : Amounts'[s] = Amounts[s]
    BY <1>1 DEF SoldRequests
  <2> QED BY <2>1, SoldType, SumSame
<1> QED BY <1>2, <1>3 DEF SoldInv, Quiet

LEMMA CommitSaleSold ==
  ASSUME NEW r \in Requests, IndInv, AnsweredOnce, SoldInv, CommitSale(r)
  PROVE  SoldInv'
<1> DEFINE q == req[r].product
<1>1. /\ pc[r] = "commit" /\ req[r].op = "sale" /\ answer[r] = "none"
      /\ req' = req /\ answer' = answer /\ pc' = [pc EXCEPT ![r] = "reply"]
      /\ sold' = [sold EXCEPT ![q] = @ + req[r].amount]
  BY DEF CommitSale, At, Goto, AnsweredOnce, outcome
<1>2. q \in Products /\ req[r].amount \in Int
  BY <1>1, Begun, AskFields
<1>3. /\ answer \in [Requests -> Answers] /\ pc \in [Requests -> Pcs]
      /\ sold \in [Products -> Nat]
  BY DEF IndInv, TypeOK, Ledger!LedgerTypeOK
<1>4. Amounts' = Amounts
  BY <1>1 DEF Amounts
<1> SUFFICES ASSUME NEW p \in Products
             PROVE  sold'[p] = Sum(Amounts, SoldRequests(p)')
  BY <1>4 DEF SoldInv
<1>5. \A s \in SoldRequests(p)' : Amounts[s] \in Int
  <2> SUFFICES ASSUME NEW s \in SoldRequests(p)' PROVE req[s].amount \in Int
    BY DEF Amounts, SoldRequests
  <2>1. pc[s] # "new"
    BY <1>1, <1>3 DEF SoldRequests, IsSold, AnsweredOnce
  <2> QED BY <1>1, <2>1, Begun, AskFields DEF SoldRequests
<1>6. CASE p # q
  <2>1. SoldRequests(p)' = SoldRequests(p)
    BY <1>1, <1>3, <1>6 DEF SoldRequests, IsSold
  <2> QED BY <1>1, <1>3, <1>6, <2>1 DEF SoldInv
<1>7. CASE p = q
  <2>1. /\ r \in SoldRequests(p)' /\ SoldRequests(p)' \ {r} = SoldRequests(p)
    BY <1>1, <1>3, <1>7 DEF SoldRequests, IsSold
  <2>2. Sum(Amounts, SoldRequests(p)') = Amounts[r] + Sum(Amounts, SoldRequests(p))
    <3> DEFINE S == SoldRequests(p)'
    <3>1. IsFiniteSet(S) /\ r \in S /\ S \ {r} = SoldRequests(p)
          /\ \A s \in S : Amounts[s] \in Int
      BY <1>5, <2>1, SoldType
    <3> HIDE DEF S
    <3>2. Sum(Amounts, S) = Amounts[r] + Sum(Amounts, S \ {r})
      BY <3>1, SumRemove
    <3> QED BY <3>1, <3>2 DEF S
  <2>3. Amounts[r] = req[r].amount /\ sold[p] = Sum(Amounts, SoldRequests(p))
    BY DEF Amounts, SoldInv
  <2>4. sold'[p] = sold[p] + req[r].amount /\ sold[p] \in Nat
    BY <1>1, <1>3, <1>7
  <2> QED BY <1>2, <2>2, <2>3, <2>4
<1> QED BY <1>6, <1>7

LEMMA SoldStep ==
  ASSUME IndInv, AnsweredOnce, SoldInv, [Next]_vars
  PROVE  SoldInv'
<1>1. CASE \E r \in Requests : Arrive(r) \/ Step(r) \/ Fail(r)
  <2>1. PICK r \in Requests : Arrive(r) \/ Step(r) \/ Fail(r)
    BY <1>1
  <2>2. CASE CommitSale(r)
    BY <2>2, CommitSaleSold
  <2>3. CASE ~ CommitSale(r)
    BY <2>1, <2>3, StepIsQuiet, SameSold
  <2> QED BY <2>2, <2>3
<1>2. CASE UNCHANGED vars
  BY <1>2, SameSold DEF vars, tables, local, outcome, Quiet, IsSold
<1> QED BY <1>1, <1>2 DEF Next, Finished

(***************************************************************************)
(* The units in the table sales are those of the sales that a worker has   *)
(* answered with SALE_RECORDED and of those it has committed and not       *)
(* answered, yet or ever: of a sale that is refused, rolled back, broken   *)
(* as a deadlock or fails before its commit nothing is left, and no reply  *)
(* tells of it, for any number of requests (record_sale, its savepoint,    *)
(* get_worker_db, and the save and the reply that follow the commit).      *)
(***************************************************************************)
THEOREM AnswersAreSales == Spec => []SalesAnswered
<1>1. Init => AnsweredOnce /\ SoldInv
  <2> SUFFICES ASSUME Init PROVE AnsweredOnce /\ SoldInv
    OBVIOUS
  <2>1. AnsweredOnce
    BY DEF Init, AnsweredOnce
  <2>2. ASSUME NEW p \in Products
        PROVE  sold[p] = Sum(Amounts, SoldRequests(p))
    <3>1. SoldRequests(p) = {} /\ sold[p] = 0
      BY DEF Init, Ledger!Init, SoldRequests, IsSold
    <3> QED BY <3>1, SumEmpty
  <2> QED BY <2>1, <2>2 DEF SoldInv
<1>2. IndInv /\ AnsweredOnce /\ SoldInv /\ [Next]_vars => AnsweredOnce' /\ SoldInv'
  BY AnsweredOnceInv, SoldStep
<1>3. SoldInv => SalesAnswered
  BY UnitsAreSum DEF SoldInv, SalesAnswered
<1> QED BY <1>1, <1>2, <1>3, Inductive, PTL DEF Spec
=============================================================================
