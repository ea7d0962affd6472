------------------------------ MODULE Reports -------------------------------
(***************************************************************************)
(* What is read of the sales: the daily report, which a merchant asks for  *)
(* in a conversation and a Celery worker makes and sends, the same summary *)
(* over REST, and the analytics tools over a period.  Each takes the clock *)
(* and queries the table in several statements, under READ COMMITTED,      *)
(* while sales are recorded and the clock goes on.                         *)
(*                                                                         *)
(*   report   queued -> summary -> units -> revenue -> send                *)
(*   rest     begun  -> summary -> units -> revenue                        *)
(*   tools    begun  -> summary | units -> revenue | slow                  *)
(*   trend    begun  -> compare -> summary -> before                       *)
(*                                                                         *)
(* A statement keeps the rows it selected; the figures are operators on    *)
(* them.  There is one shop; the low-stock list of a report, which reads   *)
(* the tables of StockTransactions, is left out.                           *)
(***************************************************************************)
EXTENDS Periods, FiniteSets, FiniteSetsExt

CONSTANTS
  Products,       \* the shop's products, as numbers in the order of their names
  Sales,          \* the sales that are recorded
  Product,        \* sales.product_id
  Quantity,       \* sales.quantity
  Price,          \* sales.unit_price
  Readers,        \* the requests that read
  Requests,       \* what they ask for
  Listens,        \* the queues that a Celery worker takes from
  Beginnings,     \* the times at which a behaviour begins
  Horizon         \* bound: the ticks that pass

(* A date and a comparison_period are optional: sets of at most one. *)
Optional(S) == {{}} \union {{x} : x \in S}

Given(option) == CHOOSE x \in option : TRUE

Tools == {"summary", "top", "slow", "trend"}

(* When the clock is read: every behaviour is this long. *)
Times == UNION {b .. (b + Horizon) : b \in Beginnings}

ASSUME ReportsAssumption ==
  /\ IsFiniteSet(Sales) /\ IsFiniteSet(Products) /\ Products \subseteq Int
  /\ Product \in [Sales -> Products]
  /\ Quantity \in [Sales -> Nat \ {0}]
  /\ Price \in [Sales -> Nat]
  /\ Beginnings \subseteq Int /\ Horizon \in Nat
  /\ \A t \in Times : \A u \in Units :
       /\ Covers(u, LocalDate(t))
       /\ Covers(u, FirstDate(UnitBounds(u, LocalDate(t))) - 1)
  /\ \A q \in Requests :
       /\ q.kind \in Tools \union {"report", "rest"}
       /\ q.kind = "rest" => \A d \in q.date : d \in Int /\ q.date = {d}
       /\ q.kind \in Tools => Wellformed(q.period)
       /\ q.kind = "slow" => q.max \in Nat /\ q.limit \in Nat \ {0}
       /\ q.kind = "trend" =>
            q.comparison = {} \/ \E p \in q.comparison : q.comparison = {p} /\ Wellformed(p)

(* No request lasts longer than a day. *)
ASSUME HorizonAssumption == Horizon <= DayLength

VARIABLES
  now,        \* the clock of all machines, in UTC
  end,        \* when the behaviour's clock stops
  stage,      \* of a sale: none, open, committed or aborted
  stamp,      \* sales.created_at
  at,         \* where a request is
  request,    \* what it asks for
  resolved,   \* when it took the clock for its period
  bounds,     \* the period it reads, in UTC
  previous,   \* the period a trend compares it with
  rows,       \* the sales that each of its statements selected
  settled     \* history: the periods that no sale could join any more when they were resolved

clock == <<now, end>>
table == <<stage, stamp>>
reader == <<at, request, resolved, bounds, previous, rows, settled>>
vars == <<clock, table, reader>>

-----------------------------------------------------------------------------
Nowhere == [start |-> 0, end |-> 0]
Statements == {"summary", "units", "revenue", "slow", "before"}

Init ==
  /\ now \in Beginnings /\ end = now + Horizon
  /\ stage = [s \in Sales |-> "none"]
  /\ stamp = [s \in Sales |-> 0]
  /\ at = [r \in Readers |-> "idle"]
  /\ request \in [Readers -> Requests]
  /\ resolved = [r \in Readers |-> 0]
  /\ bounds = [r \in Readers |-> Nowhere]
  /\ previous = [r \in Readers |-> Nowhere]
  /\ rows = [r \in Readers |-> [q \in Statements |-> {}]]
  /\ settled = [r \in Readers |-> {}]

Tick ==
  /\ now < end
  /\ now' = now + 1
  /\ UNCHANGED <<end, table, reader>>

-----------------------------------------------------------------------------
(* Sales are recorded.  created_at is PostgreSQL's now(): the beginning of *)
(* the transaction, whenever that commits.                                 *)

InsertSale(s) ==
  /\ stage[s] = "none"
  /\ stage' = [stage EXCEPT ![s] = "open"]
  /\ stamp' = [stamp EXCEPT ![s] = now]
  /\ UNCHANGED <<clock, reader>>

EndSale(s) ==
  /\ stage[s] = "open"
  /\ \E outcome \in {"committed", "aborted"} : stage' = [stage EXCEPT ![s] = outcome]
  /\ UNCHANGED <<clock, stamp, reader>>

-----------------------------------------------------------------------------
(* The queries: the rows that a WHERE selects, and what is made of them.   *)

\* Seeded fault: BETWEEN, which takes in the end of the period.
SelectedBetween(b) ==
  {s \in Sales : stage[s] = "committed" /\ b.start <= stamp[s] /\ stamp[s] <= b.end}

(* created_at >= :day_start AND created_at < :day_end *)
Selected(b) == {s \in Sales : stage[s] = "committed" /\ InBounds(b, stamp[s])}

UnitsSold(S, p) == MapThenSumSet(LAMBDA s : Quantity[s], {s \in S : Product[s] = p})
Earned(S, p) == MapThenSumSet(LAMBDA s : Quantity[s] * Price[s], {s \in S : Product[s] = p})

(* get_total_revenue_and_count.sql *)
TotalRevenue(S) == MapThenSumSet(LAMBDA s : Quantity[s] * Price[s], S)
TransactionCount(S) == Cardinality(S)

(* GROUP BY product: the products that were sold. *)
ProductsOf(S) == {Product[s] : s \in S}
ByUnits(S) == [p \in ProductsOf(S) |-> UnitsSold(S, p)]
ByRevenue(S) == [p \in ProductsOf(S) |-> Earned(S, p)]

\* Seeded fault: ROW_NUMBER, which gives a tie one winner.
FirstRankedAlone(sums) ==
  IF DOMAIN sums = {} THEN {}
  ELSE {CHOOSE p \in DOMAIN sums : \A q \in DOMAIN sums : sums[q] <= sums[p]}

(* get_top_moving_products_by_*.sql: DENSE_RANK() OVER (ORDER BY SUM DESC) = 1 *)
FirstRanked(sums) ==
  LET Above(p) == {sums[q] : q \in {x \in DOMAIN sums : sums[x] > sums[p]}}
  IN {p \in DOMAIN sums : 1 + Cardinality(Above(p)) = 1}

(***************************************************************************)
(* get_slow_moving_products.sql: products without a sale have sold 0; the  *)
(* first of them by units and then by name.                                *)
(***************************************************************************)
SlowMoving(S, most, limit) ==
  LET slow == {p \in Products : UnitsSold(S, p) <= most}
      Before(p, q) == \/ UnitsSold(S, p) < UnitsSold(S, q)
                      \/ UnitsSold(S, p) = UnitsSold(S, q) /\ p < q
  IN {p \in slow : Cardinality({q \in slow : Before(q, p)}) < limit}

-----------------------------------------------------------------------------
(* Requests.                                                               *)

(* No sale of the period is under way, and none can be stamped any more. *)
Over(b) ==
  /\ b.end <= now
  /\ \A s \in Sales : stage[s] = "open" => ~ InBounds(b, stamp[s])

Goto(r, place) == at' = [at EXCEPT ![r] = place]

(* QueueName.REPORTS, to which ReportFlow hands the task *)
ReportsQueue == "reports_tasks"

\* Seeded fault: every request is queued as if it were a report.
AskQueued(r) ==
  /\ at[r] = "idle"
  /\ Goto(r, "queued")
  /\ UNCHANGED <<clock, table, request, resolved, bounds, previous, rows, settled>>

(* A report is queued by the conversation, the others are served at once. *)
Ask(r) ==
  /\ at[r] = "idle"
  /\ Goto(r, IF request[r].kind = "report" THEN "queued" ELSE "begun")
  /\ UNCHANGED <<clock, table, request, resolved, bounds, previous, rows, settled>>

(* The period is resolved by the clock of this moment. *)
Resolve(r, b, place) ==
  /\ resolved' = [resolved EXCEPT ![r] = now]
  /\ bounds' = [bounds EXCEPT ![r] = b]
  /\ settled' = [settled EXCEPT ![r] = IF Over(b) THEN {"bounds"} ELSE {}]
  /\ Goto(r, place)
  /\ UNCHANGED <<clock, table, request, previous, rows>>

(***************************************************************************)
(* report_task: the payload's date is always null, so the day is the one   *)
(* of the worker's own clock when it takes the task.                       *)
(***************************************************************************)
TakeReport(r) ==
  /\ at[r] = "queued"
  /\ ReportsQueue \in Listens
  /\ Resolve(r, DayBounds(ServerDate(now)), "summary")

(* target_date: the one that was given, or date.today() of the machine that serves *)
DayAsked(r, t) == IF request[r].date = {} THEN ServerDate(t) ELSE Given(request[r].date)

(* GET /reports/daily *)
BeginSummary(r) ==
  /\ at[r] = "begun" /\ request[r].kind = "rest"
  /\ Resolve(r, DayBounds(DayAsked(r, now)), "summary")

AfterResolving == [summary |-> "summary", top |-> "units", slow |-> "slow", trend |-> "compare"]

(* The handlers of the tools begin with resolve_period_boundaries. *)
BeginTool(r) ==
  /\ at[r] = "begun" /\ request[r].kind \in Tools
  /\ Resolve(r, PeriodBounds(request[r].period, now), AfterResolving[request[r].kind])

(* handle_get_sales_trend takes the clock again for the period before. *)
Compare(r) ==
  /\ at[r] = "compare"
  /\ LET b == IF request[r].comparison = {}
              THEN PreviousBounds(request[r].period, now)
              ELSE PeriodBounds(Given(request[r].comparison), now)
     IN /\ previous' = [previous EXCEPT ![r] = b]
        /\ settled' = [settled EXCEPT ![r] = @ \union IF Over(b) THEN {"previous"} ELSE {}]
  /\ Goto(r, "summary")
  /\ UNCHANGED <<clock, table, request, resolved, bounds, rows>>

\* Seeded fault: the rankings take their day from the clock again.
SelectAnew(r, statement, b) ==
  rows' = [rows EXCEPT ![r][statement] =
             Selected(IF request[r].kind = "rest" /\ statement # "summary"
                      THEN DayBounds(ServerDate(now)) ELSE b)]

(* A statement sees what is committed when it runs. *)
Select(r, statement, b) == rows' = [rows EXCEPT ![r][statement] = Selected(b)]

AfterStatement(r) ==
  CASE at[r] = "summary" /\ request[r].kind \in {"report", "rest"} -> "units"
    [] at[r] = "summary" /\ request[r].kind = "trend" -> "before"
    [] at[r] = "units" -> "revenue"
    [] at[r] = "revenue" /\ request[r].kind = "report" -> "send"
    [] OTHER -> "done"

(* get_daily_summary, and the queries of the tools, one statement at a time. *)
Query(r) ==
  /\ at[r] \in Statements
  /\ Select(r, at[r], IF at[r] = "before" THEN previous[r] ELSE bounds[r])
  /\ Goto(r, AfterStatement(r))
  /\ UNCHANGED <<clock, table, request, resolved, bounds, previous, settled>>

(* The document goes out or does not; a MessageDeliveryError is logged. *)
Send(r) ==
  /\ at[r] = "send"
  /\ Goto(r, "done")
  /\ UNCHANGED <<clock, table, request, resolved, bounds, previous, rows, settled>>

(***************************************************************************)
(* The database, the making of the PDF or the process fails; the task was  *)
(* acknowledged before it ran and is not run again.                        *)
(***************************************************************************)
Fail(r) ==
  /\ at[r] \in {"begun", "compare", "send"} \union Statements
  /\ Goto(r, "failed")
  /\ UNCHANGED <<clock, table, request, resolved, bounds, previous, rows, settled>>

Serve(r) == TakeReport(r) \/ BeginSummary(r) \/ BeginTool(r) \/ Compare(r) \/ Query(r) \/ Send(r)

Next ==
  \/ Tick
  \/ \E s \in Sales : InsertSale(s) \/ EndSale(s)
  \/ \E r \in Readers : Ask(r) \/ Serve(r) \/ Fail(r)

Spec == Init /\ [][Next]_vars

(* A worker that listens takes what is queued, and a request that is being *)
(* served goes on.                                                         *)
FairSpec == Spec /\ \A r \in Readers : WF_vars(Serve(r))

-----------------------------------------------------------------------------
(* Properties.                                                             *)

(* The request has a period and has not failed. *)
Going(r) == at[r] \notin {"idle", "queued", "begun", "failed"}

Places == {"idle", "queued", "begun", "compare", "send", "done", "failed"} \union Statements

(* What a request is at, and what its statements may have kept. *)
TypeOK ==
  /\ now \in Int /\ end \in Int /\ now <= end
  /\ stage \in [Sales -> {"none", "open", "committed", "aborted"}]
  /\ stamp \in [Sales -> Int]
  /\ at \in [Readers -> Places]
  /\ request \in [Readers -> Requests]
  /\ resolved \in [Readers -> Int]
  /\ bounds \in [Readers -> Bounds]
  /\ previous \in [Readers -> Bounds]
  /\ rows \in [Readers -> [Statements -> SUBSET Sales]]
  /\ settled \in [Readers -> SUBSET {"bounds", "previous"}]
  /\ \A r \in Readers : at[r] = "queued" => request[r].kind = "report"

(***************************************************************************)
(* Every tool reads whole days of Nairobi, and a relative period is the    *)
(* unit that has the local date of the reading in it, with nothing left    *)
(* out: in December, over a leap day and when the week began last month or *)
(* last year too.                                                          *)
(***************************************************************************)
PeriodIsUnit ==
  \A r \in Readers :
    Going(r) /\ request[r].kind \in Tools /\ request[r].period.type = "relative" =>
      IsUnitOf(bounds[r], request[r].period.unit, LocalDate(resolved[r]))

(***************************************************************************)
(* A trend without a comparison_period compares a period with the one that *)
(* ends where it begins, a whole unit or a range of the same length (ADR   *)
(* 008).  The two are taken from two readings of the clock: only if the    *)
(* unit ended between them is it compared with itself.                     *)
(***************************************************************************)
PreviousAdjoins ==
  \A r \in Readers :
    Going(r) /\ at[r] # "compare" /\ request[r].kind = "trend" /\ request[r].comparison = {} =>
      \/ /\ previous[r].end = bounds[r].start
         /\ request[r].period.type = "relative" =>
              IsUnitOf(previous[r], request[r].period.unit, LocalDate(previous[r].start))
         /\ request[r].period.type = "date_range" =>
              bounds[r].end - bounds[r].start = previous[r].end - previous[r].start
      \/ /\ request[r].period.type = "relative"
         /\ previous[r] = bounds[r] /\ bounds[r].end <= now

(***************************************************************************)
(* The statements of one answer see ever more of the same sales: whatever  *)
(* the total counts is in both rankings too, so that none of them is empty *)
(* beside a count.                                                         *)
(***************************************************************************)
FiguresGrow ==
  \A r \in Readers :
    /\ at[r] \in {"revenue", "send", "done"} /\ request[r].kind \in {"report", "rest"} =>
         rows[r]["summary"] \subseteq rows[r]["units"]
    /\ at[r] \in {"send", "done"} /\ request[r].kind \in {"report", "rest", "top"} =>
         rows[r]["units"] \subseteq rows[r]["revenue"]

(* d is one of the dates in Nairobi that the request is about. *)
AsksAbout(r, d) ==
  CASE request[r].kind = "report" -> d = ServerDate(resolved[r])
    [] request[r].kind = "rest"   -> d = DayAsked(r, resolved[r])
    [] OTHER -> LET p == request[r].period
                IN IF p.type = "relative" THEN SameUnit(p.unit, d, LocalDate(resolved[r]))
                   ELSE p.first <= d /\ d <= p.last

SoldOn(Date(_)) == {s \in Sales : stage[s] = "committed" /\ Date(LocalDate(stamp[s]))}

(* Nobody has more of it. *)
Best(sums) == {p \in DOMAIN sums : \A q \in DOMAIN sums : sums[q] <= sums[p]}

(* As many as fit of those that sold at most so much, and none that was left out sold less. *)
AreSlowest(L, S, most, limit) ==
  LET slow == {p \in Products : UnitsSold(S, p) <= most}
  IN /\ L \subseteq slow
     /\ Cardinality(L) = IF Cardinality(slow) < limit THEN Cardinality(slow) ELSE limit
     /\ \A p \in L, q \in slow \ L : UnitsSold(S, p) <= UnitsSold(S, q)

(***************************************************************************)
(* The figures of a period that was over when it was read are final: they  *)
(* are those of the sales made on its local dates, and no sale recorded    *)
(* afterwards changes what a second reading would find.                    *)
(***************************************************************************)
SettledIsExact ==
  \A r \in Readers : at[r] = "done" /\ "bounds" \in settled[r] =>
    LET S == SoldOn(LAMBDA d : AsksAbout(r, d))
        kind == request[r].kind
    IN /\ kind \in {"report", "rest", "summary", "trend"} =>
            /\ TotalRevenue(rows[r]["summary"]) = TotalRevenue(S)
            /\ TransactionCount(rows[r]["summary"]) = Cardinality(S)
       /\ kind \in {"report", "rest", "top"} =>
            /\ FirstRanked(ByUnits(rows[r]["units"])) = Best(ByUnits(S))
            /\ FirstRanked(ByRevenue(rows[r]["revenue"])) = Best(ByRevenue(S))
       /\ kind = "slow" =>
            AreSlowest(SlowMoving(rows[r]["slow"], request[r].max, request[r].limit),
                       S, request[r].max, request[r].limit)

(***************************************************************************)
(* No figure has a sale of another date in it, of a period that goes on or *)
(* of one that is over, whenever the sale's transaction ended.             *)
(***************************************************************************)
NothingForeign ==
  \A r \in Readers : Going(r) =>
    /\ \A q \in Statements \ {"before"} : rows[r][q] \subseteq SoldOn(LAMBDA d : AsksAbout(r, d))
    /\ rows[r]["before"] \subseteq
         SoldOn(LAMBDA d : FirstDate(previous[r]) <= d /\ d < NextDate(previous[r]))

-----------------------------------------------------------------------------
(* What the documents say, and the code does not do. *)

(***************************************************************************)
(* README.md: the making of a report runs "entirely inside the             *)
(* report_tasks Celery queue".  A report that is asked for is taken by a   *)
(* worker, when workers listen where README, Makefile and docker-compose   *)
(* have them listen.  ReportFlow puts it on QueueName.REPORTS instead.     *)
(***************************************************************************)
EveryReportIsTaken == \A r \in Readers : at[r] = "queued" ~> at[r] # "queued"
=============================================================================
