# SokoFlow in TLA+

SokoFlow lets the owner of a small shop keep stock and record sales by chatting:
a message arrives through a webhook, a state machine turns it into operations on
the shop's tables, and a reply goes back. The same tables are served by a REST
interface. This directory holds specifications of the parts of the program in
which something can go wrong that a test would hardly reach, the configurations
with which TLC checks them, and proofs of the most important results for every
size of the system. Paths below are relative to the repository; `app/` is
`src/app/`.

    tlc -workers 2 -config MCStock.cfg MCStock.tla      checks one run
    tlapm StockProofs.tla                               checks the proofs

`PROJECT.json` maps every definition to the lines it models, lists the runs, a
seeded fault for every property (an operator of the same module, introduced by
the words "Seeded fault"), the hazards of the code and the theorems.

## 1. Inventory of the system

    WhatsApp -> webhook --(Redis SET NX)--> Celery queue -> conversation worker
                                                              |  read session (Redis)
    REST: shops, products, inventory, sales, reports          |  FSMEngine in one DB session
              |                                               |     -> flows -> services
              +-> services -> PostgreSQL <--------------------+     -> analytics -> LLM
                                                              |  commit, save session (Lua)
    report worker: daily report, low-stock alert <--Celery----+  reply

| Component | State | Operations | What is hard |
|---|---|---|---|
| **Stock ledger**: `services/inventory_service.py`, `sales_service.py`, `product_service.py`, their repositories, models and routes | `products`, `inventory` (quantity, threshold), `sales` | `add_stock` (upsert), `deduct_stock` (`FOR UPDATE`), `update_threshold`, `record_sale`, `create_product`, `delete_product` | overlapping transactions, row locks taken in two orders, values read before a lock or after a commit, a commit that is missing, an alert handed over inside the transaction |
| **Conversation FSM**: `fsm/engine.py`, `primitives.py`, `fsm_utils.py`, `intent_resolver.py`, `routing_policy.py`, `flows/` | none of its own: a `UserSession` goes in and out | `process_message` and the handlers of `SessionState` | flows share one context; a reset that is forgotten reaches another flow; exceptions outside `InvalidInputError` |
| **Conversation worker**: `workers/conversation_tasks.py` | the session it read, the outcome | read, process, commit, save, reply | several workers for one merchant, crash or refusal between the commit and the save |
| **Session store**: `fsm/conversation_store.py`, `fsm/lua/` | one Redis key for each merchant, with a TTL; dedup keys | `get_session`, `save_session` (compare state and set), `is_duplicate` | compares the state alone; expiry in between |
| **Webhook**: `api/routes/webhook.py` | the dedup keys | verify, deduplicate, dispatch | key set before the dispatch; redelivery after the TTL |
| **Analytics**: `ai/orchestrator.py`, `executor.py`, `validator.py`, `product_resolver.py`, `handlers/`, `contracts/` | none | at most two provider calls, validation, tool execution, outcome classes; periods | which failures are repaired by a second call; errors in a shared transaction; boundaries of periods, two readings of the clock |
| **LLM client**: `ai/llm_client.py` | none | primary provider, fallback | error classes |
| **Formatter, localization**: `ai/formatter.py`, `services/localization.py` | none | a template for each outcome, filled with the parameters that the flow brings | a parameter that is missing raises, after the session was saved |
| **Report worker**: `workers/report_tasks.py`, `services/report_service.py`, `pdf_service.py` | none | daily report, low-stock alert | queue names; which day is "today"; an alert looks its shop up again |
| **Reporting queries**: `services/sales_service.py`, `repositories/sales_repo.py` | reads | day bounds, revenue, top and slow products | time zones, half-open intervals; several statements while sales are committed; a sale is stamped when its transaction begins |
| **Shops, other routes, errors**: `services/shop_service.py`, `get_shop_id` in `fsm/primitives.py`, `api/routes/` | `shops` | create, `get_shop_id`, change of the locale | two first messages at once, no `UPDATE` for a value that was loaded |
| **Configuration, Redis client, Celery app, migrations, simulator** | settings | | wiring; enters the models as constants |

For each component the properties that make it correct:

* *Stock ledger*: units are conserved; no stock below zero or outside the column;
  no stock or sale without a product; each commit is an atomic operation of the
  ledger; replies and alerts are true of what was committed; nobody waits for ever.
* *FSM and worker*: the stored session is one that the handler of its state can
  work with; the merchant moves along the flows' edges only; a sale is one that a
  prompt named, once, and not after a cancellation; nobody is told of a sale that
  is not there; every text is answered; three refusals in a row end a flow.
* *Webhook*: a message is handled once, and is not lost when the dispatch fails.
* *Analytics*: at most two calls; a repair only for what a model can repair; a
  period is the whole unit that has today in it, and the one it is compared with is
  the unit, or the range of the same length, that ends where it begins.
* *Reports*: no figure has a sale of another date; the figures of a period that is
  over are final; the figures of one answer fit together; a report reaches a worker.
* *Shops*: a phone has one shop, and nobody goes on with another's id; an
  answered change took place; an alert finds its shop.
* *Replies*: every result has the parameters that its template asks for.

## 2. Modules

| Module | What it is |
|---|---|
| `StockLedger` | The abstract ledger: every operation on stock is one step. |
| `StockTransactions` | The same operations as the statements of concurrent requests, with row locks, foreign keys, rollbacks, deadlocks and failures. Implements `StockLedger`. |
| `StockProofs` | Proofs about `StockTransactions`. |
| `ConversationFSM` | `process_message` as a relation from session, text and shelf to outcomes. No variables. |
| `Dialogue` | The abstract conversation of one merchant: every text is handled at once. Uses `ConversationFSM` and `StockLedger`. |
| `DialogueProofs` | Lemmas about `ConversationFSM`, what each handler does with a session, and proofs about `Dialogue`. |
| `ConversationWorkers` | The conversation as workers run it: begin, process and commit, save, reply; failures, crashes, expiry. With one worker and no crash after the commit it implements `Dialogue`. |
| `WorkersProofs` | Proofs about `ConversationWorkers`. |
| `Webhook` | Deliveries of messages, overlapping attempts of the provider, the dedup key and its expiry, the dispatch to the queue. |
| `WebhookProofs` | Proofs about `Webhook`. |
| `Analytics` | One merchant's questions, from the routing policy through the model's proposals and the run of a tool to the saved session. Uses `ConversationFSM`, whose one-step handlers of questions and choices it implements. |
| `AnalyticsProofs` | Proofs about `Analytics`. |
| `Periods` | Days, weeks, months and years in Nairobi as intervals of UTC time, for any calendar. No variables. |
| `Reports` | The daily report, its REST twin and the analytics tools over sales, statement by statement, while sales are recorded and the clock goes on. Uses `Periods`. |
| `ReportsProofs` | Proofs about `Periods` and `Reports`. |
| `Replies` | Which parameters each result brings and which its template asks for. No variables. |
| `Shops` | The shop of a merchant: made by messages and by REST, changed, remembered by sessions, looked up for replies and alerts. Uses `Replies`. |
| `ShopsProofs` | Proofs about `Replies` and `Shops`. |
| `SumProofs` | Lemmas about sums over finite sets, for the proofs about stock, workers and reports. |
| `MCStock`, `MCDialogue`, `MCConversation`, `MCReports`, `MCShops` | Instances for TLC; `Webhook` and `Analytics` are checked as they are. |

### StockTransactions and the code

The variables `created`, `live`, `stocked`, `quantity`, `threshold`, `sold` are the
committed tables; `received` and `removed` are history. Each request has a program
counter `pc`, the value it has written and not committed (`image`), and
`old_is_low` (`wasLow`). The locks are PostgreSQL's: the inventory row (`rowLock`),
the KEY SHARE of a foreign-key check on the product row (`keyShare`), and the product
row of a transaction that has deleted it (`deleting`). An action is a statement:

| Code | Actions |
|---|---|
| `record_sale` by a worker (`record_sale.py` 164-218, `sales_service.py` 48-84) | `LoadSale`, `LockAndDeduct`, `InsertSale`, `EnqueueAlert`, `CommitSale` |
| what `conversation_tasks.py` does after the commit (54-69) | `ReplySale` |
| `POST /sales` | `LoadSale`, `LockAndDeduct`, `InsertSale`, `CloseRestSale` |
| `POST /inventory/deduct` | `LockAndDeduct`, `CommitDeduct`, `RefreshDeduct` |
| `POST /inventory` (`add_stock.sql`) | `UpsertStock`, `CommitStock` |
| `PATCH` of the threshold | `LoadThreshold`, `WriteThreshold`, `CommitThreshold` |
| `create_product`, `delete_product` | `CommitCreate`; `LoadDelete`, `DeleteProduct`, `CheckReferences`, `CommitDelete` |
| PostgreSQL and the machine | `BreakDeadlock`, `Fail` |

Isolation is READ COMMITTED, the default that `core/database.py` leaves in place: a
statement sees what is committed when it runs. A savepoint whose error leaves the
request is the rollback of the request. A sale whose transaction is committed waits for
its reply in a state of its own: `ReplySale` answers with SALE_RECORDED or with nothing
(`silence`), since the save may be refused, the template, the sender or Redis may fail,
and the process may die. The save, the rendering and the sending are one step here and
three in `ConversationWorkers`.

### ConversationFSM, Dialogue and ConversationWorkers and the code

A session keeps what handlers test: the state, `error_count`, whether the shop, a
name and a price are there, the chosen product, the quantity, the candidates of a
selection, and whether the two analytics contexts are there. `Texts` has one text
for each way in which the parsers (`fsm_utils.py`, `intent_resolver.py`) tell texts
apart. An outcome is the next session, whether the text was `accepted`, `refused`
(an `InvalidInputError`) or ended in an exception that nobody answers (`none`), and
what it does to the tables. What depends on data that is not kept - trigram scores,
the model's proposal, the age of the last analytics call - is a choice among the
outcomes that the code has. A price is in the session or not; that the price of the
prompt may have changed by the time of the sale is not modelled.

In `ConversationWorkers`, `Begin` is the read of the session, `Process` is
`process_message` with its transaction and its commit (`get_worker_db`; what goes on
inside that transaction is in `StockTransactions`), `AddStock` is the second commit
of a new product, `Save` and `SaveRefused` are the script, `Reply` sends. `Fail` is
any exception before the commit, `Crash` the loss of the process or of Redis after
it; since tasks are acknowledged before they run (`task_acks_late=False`), nothing
is tried again. `Expire` is the TTL of the session. `Elsewhere` is the REST
interface, which changes the shelf under the conversation.

### Webhook and the code

`Deliver` is a request that has passed the signature and the parsing; several
attempts at one message may be under way at once. `Check` is `is_duplicate`
(`SET key NX EX ttl`): the attempt has set the key and goes on, or is answered as a
duplicate. `Dispatch` is `apply_async`, which may fail, when the key stays. An answer
with 200 may be lost on its way; only when it arrives does the provider stop to
deliver the message. `Die` ends a request at either place. `Failing` names the parts
that may fail in a run: Redis, the broker, the process. `Tick` is a part of the key's
life. `spoiled` records that a failure met a message after its key was set.

### Analytics and the code

The actions follow the calls: `Receive` (`process_message`, `can_route`,
`_resolve_product_choice`), `Ask` (`handle_query` up to `orchestrator.run`),
`Generate` (`LLMClient.generate`), `Inspect` and `Repair` (the loop of
`AnalyticsOrchestrator.run`), `Validate` and `RunTool` (`ToolExecutor.execute` and
the handlers), `Settle` (the flow's `match` over outcomes, the engine's counter, the
commit and the save). A payload is up to two tool calls and a rejected generation,
each with any name and with arguments of each sort that the normalization, the
schema or the domain tells apart; `Normalize` and `Malformed` are what
`_normalize_response` makes of it. Tools are told apart by what they need: a product
(`Resolving`), a period (`Dated`), nothing. A call keeps its tool and the product
that was chosen; its other arguments are left out. `fresh` is `has_fresh_context`
of the prior call, which `Age` ends at any moment, also between its two readings.
`intact` says whether the transaction that the flow shares with the worker has seen
an error of the database: after one, reading the locale fails, and the text ends in
`Fail`.

### Periods, Reports and the code

`Periods` has `handlers/utils.py` and the bounds of `sales_service.py` as operators:
`UnitBounds`, `PeriodBounds`, `PreviousBounds`, `DayBounds`. Time is in ticks; what
Python's `datetime` knows of a date (its year, its month, the first of a month) comes
in as constants, so that the proofs are about any calendar and any zone without
summer time. Beside them stands what an interval is to be (`IsUnitOf`), said of dates.

| Code | Actions of `Reports` |
|---|---|
| a sale's transaction; `created_at` is its beginning | `InsertSale`, `EndSale` |
| `ReportFlow` puts a task on the queue, a tool or the route is called | `Ask` |
| `report_task` with its `date.today()`; `GET /reports/daily` | `TakeReport`, `BeginSummary` |
| `resolve_period_boundaries`, then the second reading of the clock in a trend | `BeginTool`, `Compare` |
| the `SELECT`s of `get_daily_summary` and of the handlers, each one a statement | `Query` |
| the document goes out; an error at any place | `Send`, `Fail` |

A statement keeps the rows it selected (`Selected`, the `WHERE` clauses); totals,
`DENSE_RANK`, and the ordered and limited list of slow products are operators on them.
`settled` records that no sale could join the period any more when it was resolved.

### Replies, Shops and the code

`Replies` has one operator for each flow, with the key and the names of the
parameters of every result it returns, and the placeholders of every template;
`Renders` is what `render_message` needs of the two. A number is told from text,
since `.2f` formats only the former.

| Code | Actions of `Shops` |
|---|---|
| a message: read of the session, flow, locale, save, reply (`conversation_tasks.py`) | `BeginMessage`, `Process`, `ProcessSale`, `ReadLocale`, `Save`, `SaveRefused`, `Render` |
| `get_shop_id`: `SELECT`, `INSERT`, `COMMIT` or `IntegrityError` | `FindForMessage`, `Insert`, `CommitInsert`, `InsertFails` |
| `create_shop` (409), `update_locale` (which makes a shop too) | `BeginRest`, `FindForChange`, `Insert`, `NoUpdate`, `Update`, `CommitUpdate`, `Refresh` |
| `send_low_stock_alert` | `TakeAlert`, `Render` |
| the session's TTL; a lost process or connection | `Expire`, `Fail` |

`claim` is what PostgreSQL holds for an uncommitted `INSERT` or `UPDATE` of a phone:
others wait for it. SQLAlchemy sends a changed attribute at the commit, and nothing
for a value that equals the loaded one. What a text does beyond its reply is in
`ConversationFSM`; here it needs the shop always, only if the session knows none, or
never.

## 3. Runs

| Run | Configuration | Shows |
|---|---|---|
| `stock` | 3 requests of any kind on 1 product, stock up to 2, fairness | `TypeOK`, `Conservation`, `ReferentialIntegrity`, `SalesAnswered`, `SaleFacts`, that the transactions implement `StockLedger`, and `EveryRequestEnds`: nobody waits for ever, although a sale and a deletion lock in opposite orders |
| `dialogue` | every text, 2 products, 3 refusals | `SessionWellFormed`, `SaleIsPrompted` |
| `serial` | 1 worker, every kind of text, 2 refusals | `TypeOK`, `StrikesCounted`, `SoldOnce`, and that the worker implements `Dialogue` |
| `workers` | 2 workers with crashes, the texts of a sale | what is left without mutual exclusion: `SessionWellFormed`, `TransitionLegal`, `SaleWasPrompted`, `ToldIsSold` |
| `webhook` | 2 messages, 2 attempts at each under way, a key that lives 2 ticks | `TypeOK`, `OncePerKey`, `AcknowledgedIsCarried`, and `SentIsCarried` under fairness |
| `reports` | 1 reader with any request, 2 sales, a real calendar around five boundaries | `TypeOK`, `PeriodIsUnit`, `PreviousAdjoins`, `FiguresGrow`, `SettledIsExact`, `NothingForeign`, as if a worker were started for the queue in the code |
| `shops` | 2 messages, 2 REST requests and an alert at one phone | `TypeOK`, `OneShop`, `LocaleWasShops`, `EveryReplyRenders`, `AlertFindsShop` |
| `analytics` | any payload of the model, 3 tools, 2 products, 2 refusals | `TypeOK`, `BoundedExposure`, `ContextIsExecuted`, `FailureKeepsContext`, `HandledAsFSM`, and `EveryTextEnds` under fairness |

The next runs check one sentence each that a document or a test says of the
program, and TLC finds the behaviour in which the code does otherwise:

| Run | Sentence | Behaviour |
|---|---|---|
| `created` | the test of the daily report counts sales of `POST /sales` | the route never commits |
| `sold_twice` | README: a confirmed prompt goes to IDLE with its sale recorded | two messages read the same prompt; one worker keeps to the sentence (`serial`, `OneWorkerSellsOnce`) |
| `lost` | README: a valid message that is no duplicate is enqueued | `apply_async` raises, the key stays, and the next attempt is answered with 200 as a duplicate (only the broker fails in this run, and attempts follow each other) |
| `reports_wait` | README: a report is made "entirely inside the `report_tasks` Celery queue", for which README, `Makefile` and `docker-compose.yml` start a worker | `ReportFlow` puts the task on `reports_tasks`, where it stays for ever although every worker is fair |

### Bounds

* `Products`: one product where requests meet on a row, since no operation touches
  two products' rows; two in `dialogue`, so that a selection can have several
  candidates and a sale could name the wrong one.
* `Requests = 3`: the lock inversion takes two, and a third is there to come between.
  Each request is served once; more of the same come in the proofs, for any number.
* `MaxStock` stands for the 32-bit column: 2 is enough for a receipt of one unit and a
  receipt of two, which do not fit together, and for two sales that empty the shelf; 3
  in `created`. In the conversation runs 2 is the largest number that a text names.
* `Quantities`, `Thresholds`: two of each, on both sides of the default threshold.
* `MaxErrors`: 3 is the program's; 2 in `serial` and `workers` to keep them small,
  which still tells a first refusal from the last.
* `MaxReceived` bounds what the REST interface brings of a product in a
  conversation; without it stock that is sold is replaced for ever.
* `Typed`: the texts of a run. `serial` leaves out texts that the FSM treats as one
  that is there (`yes` is `1`, `no` is `2`, `sugar` is any other text); `workers` has
  those of the sale, the flow with the most to lose.
* `Symmetry`: workers, messages and REST requests are interchangeable; only runs
  without a liveness property use it.

* `webhook`: two messages, so that one's key is not the other's; two attempts at each, which
  may overlap, a time to live of two ticks, so that an attempt can come before, with and
  after the end of the key; one expiry of each message's key and two failures in all, of any
  of the three parts, so that a second delivery and a failed dispatch both happen. All
  messages may be acknowledged, so the run may stop (`CHECK_DEADLOCK FALSE`).
* `analytics`: one tool of each sort, since tools of a sort are handled alike; two
  tool calls in a payload, since more are as two; one name that is no tool; two
  products, so that a choice can be between several, and `2` a choice that may be
  valid. `MaxCounted` is where the count of provider calls stops, one above what the
  property allows.
* `reports`: days of 8 ticks (3 hours each), Nairobi one tick ahead, so that every
  offset between the two midnights exists; each behaviour begins on the evening of
  Sunday 31 December 2023, 29 February 2024, 15 May 2024 or 31 December 2024 and lasts
  `Horizon` = 3 ticks, so that both midnights pass: the ends of a day, a week, a
  month, a leap day, and a year, and a middle where only the day ends. Two sales that
  tie in units and not in revenue, of two products. One reader, since readers share
  nothing that they write. Only a report waits in a queue, so a run in which sales and
  the clock have ended may stop (`CHECK_DEADLOCK FALSE`).
* `shops`: requests of different phones touch different rows, so one phone; two
  requests of each kind for a race between equals and between kinds, and a REST request
  is served once. A worker serves any number of messages.

### Differences that no run checks

Met while reading, and too small, or too far from a sentence of the documents, for a
run of their own:

* The alert is handed to the broker before its sale is committed
  (`record_sale.py:176`), so a sale that then fails leaves an alert, and a broker that
  refuses rolls the sale back; ADR 007 has the alert after the sale.
* `deduct_stock` reads `remaining_stock` after its commit
  (`inventory_service.py:46`), so it may report another request's deduction.
* A confirmation that was read before a cancellation was saved still sells; and of
  two refusals that are served at once one is not counted: the script compares the
  state alone.
* Only the first message of a request is read (`fsm/models.py:220`); the others of a
  batch are acknowledged with it.
* `get_shop_id` reads and then inserts: of two first messages one may meet the unique
  phone, and its `IntegrityError` is not caught: nobody answers it. The same in
  `update_locale` ends in a 500. (`InsertFails` is that end in `Shops`; `OneShop` says
  what the race leaves behind, not that the loser is answered.)
* `PATCH` of a locale sends nothing when the locale that it loaded is the one asked
  for, so its response may tell a locale that another request has set since.
* `celery.py` lists the queue of reports twice and that of notifications never.
  Low-stock alerts wait in the queue of reports too (`report_tasks.py:42`): `Shops` has
  a worker that takes them, and says what it finds if there is one.
* README:201 has "report today" enqueued with its date. The code hands over none, and
  the worker takes its own `date.today()` in UTC: from midnight to three in Nairobi
  that is the day before. `NothingForeign` and `SettledIsExact` take the worker's date
  for the one that was asked about, so they do not see this.
* `nan` is a `Decimal`, and comparing it raises what no handler catches
  (`fsm_utils.py:46`); `InsufficientStockException` at the confirmation of a sale is
  not caught by the flow either. Both leave a text without a reply.
* `ANALYTICS_DAILY_LIMIT` and `ANALYTICS_TEMPORARILY_UNAVAILABLE` have no template;
  only `GUARDRAIL_REJECTED` leads to them, which nothing under `app/` produces.
* Phones of the REST interface are not normalized as those of messages are.
* `InfrastructureError` is raised by nothing under `app/`: every exception of a
  tool's handler, one of the database included, becomes a domain failure
  (`executor.py:147`), while ADR 014 wants technical failures strictly distinct.
* The age of the prior call is read twice (`routing_policy.py:64`, `flows/analytics.py:61`),
  so a bare number may be routed as a follow-up and then asked without its context.
* A rejected generation is looked for in the payload only after `_post_payload` has
  raised for every status of 400 and above, with which providers send it.
* `get_sales_trend` reads the clock for each of its two periods: if the unit ends
  between the two readings, it is compared with itself. `PreviousAdjoins` admits this
  case and no other.

### Fairness

`stock` assumes weak fairness of each request's statements, that is: a request that has been
begun and whose next statement can run is run. PostgreSQL and the worker processes justify
it: a waiting statement is woken when the lock is free, and the deadlock detector
(`BreakDeadlock`, a step of the request) fails one of two that wait for each other. Nobody
is assumed to make a request. `EveryRequestEnds` says that a request comes to its end, not
that somebody hears of it: a sale may end in silence. The conversation has no fairness: no
merchant has to write, and a worker may die. `webhook` assumes that the provider does not
give up a message that was not acknowledged, and that a request which is being served goes
on; not that time passes or that anybody writes. `analytics` assumes that a worker which has
begun a text goes on with it: the HTTP client has a timeout, and an exception ends the task.
It is not assumed that the model ever proposes something sensible. `reports_wait` assumes
that a reader which has been begun, or whose task waits in a queue that a worker listens to,
goes on; not that sales are recorded, that they end, or that the clock moves: so what keeps
the report waiting is the name of its queue, and no idle worker. Celery is assumed not to
deliver a task twice.

## 4. Proofs

Every theorem is for all values of the constants that satisfy the named assumptions of
the modules; those say no more than what a value is (a quantity is a positive number,
a setting is a number, a calendar's months are in order) and that workers, requests,
sales and products are finitely many.

`StockProofs` proves, for any requests, products, quantities and column width that
satisfy `StockAssumption`:

* `StockTyped`, `StockConserved`, `NoOrphans`: `TypeOK`, `Conservation` and
  `ReferentialIntegrity` hold in every state;
* `Refinement`: `Spec => ImplementsLedger`;
* `SalesReportFacts`: `Spec => SaleFacts`;
* `AnswersAreSales`: `Spec => []SalesAnswered`: the units in `sales` are those of the
  sales that a worker has told of and of those that it has committed and not told of, yet
  or ever: what is rolled back leaves nothing and is not told of.

None of them is inductive. `IndInv` adds what a transaction knows while it holds a
row: the row's lock has one holder, who is past its locking statement; the committed
quantity is still the one its `image` was computed from, the threshold still the one
`wasLow` was computed from; the product it refers to is still there because of its
key share, or because stock is there; a deletion that has passed its check still
finds no stock and no sale. `Inductive` is its invariance, one lemma for each action
and each part. The refinement and the action properties follow from it step by step.
`AnswersAreSales` needs one thing more, that an unfinished request has no answer
(`AnsweredOnce`): then a step is the commit of one sale, which adds its amount to both
sides (`CommitSaleSold`), or leaves both alone (`StepIsQuiet`), the reply included, which
moves a sale from those not told of to those told of, or loses it.

`SumProofs` is about the sum that the community modules define, by taking one chosen
element after another out of a finite set. It proves that there is one such function
(`SumsExist`, `SumsAgree`), that a sum is an integer, or a natural number, when its
terms are, that any element can be taken out first (`SumRemove`), and that a sum
changes by as much as one term does (`SumUpdate`). Each is by a minimal counterexample
among the subsets (`MinimalSubset`), for which the order of finite subsets is
well-founded; no induction rule with an operator for a parameter is used.

`DialogueProofs` begins with the lemmas about `ConversationFSM` that `WorkersProofs`
shares: for each flow, that a handler makes a well-formed session of a well-formed one
and follows the flow's edges; `ProcessMessageEffect`, that only the confirmation of a
sale sells, and what. It proves, for any products, texts, stock and number of refusals:

* `SessionsWellFormed`: `Spec => []SessionWellFormed`;
* `SalesPrompted`: `Spec => SaleIsPrompted`.

`DialogueInv` adds the types of the tables and that a product
which waits for its stock has its session still at the prompt. `WellFormed` itself
had to say that the shop is known at the selection of a sale's product, which the
confirmation reads three steps later.

`WorkersProofs` proves, for any number of workers that read, fail and die at any moment:

* `StoredSessionsWellFormed`: `Spec => []SessionWellFormed`;
* `StoredTransitionsLegal`: `Spec => TransitionLegal`;
* `SalesWerePrompted`: `Spec => SaleWasPrompted`;
* `ToldSalesAreRecorded`: `Spec => []ToldIsSold`;
* `WorkersTyped`;

for one worker (`Workers = {w}`), which may die anywhere:

* `OneWorkerCountsRefusals`: `Spec => []StrikesCounted`;

and for one worker that is not lost after its commit (`~Crashes`):

* `OneWorkerSellsOnce`: `Spec => SoldOnce`;
* `OneWorkerIsADialogue`: `Spec => ImplementsDialogue`.

The stored session alone is not inductive, for a worker saves what it made of another
one. `WorkersInv` adds `Held` (what a worker has processed is well formed and an edge
away from the session that it read) and `Asked` (a prompt that is stored, or was read,
has been asked). The script compares states, and an edge depends on the state alone:
that is why a save over another session of the same state is still an edge.

`ToldInv` counts, besides what merchants were told, what the workers still owe them: the
units of the sales that are committed and whose reply is not sent. Only the commit adds
to the debt, and it adds as much to `sales`; a reply moves its part from one to the
other, a crash or a refused save lets it go.

The hypotheses of the other three are what they need and not what makes them easy: the
run `sold_twice` breaks `SoldOnce` with two workers, two refusals that are served at once are
counted as one, and a crash between commit and save leaves the dialogue at a prompt whose
sale is recorded. `AloneInv` says that what one worker has read is what is stored, or the
session has expired since, and that a product which waits for its stock is that of the
prompt. `StrikesInv` adds that no flow goes on with fewer errors than were refused in it
(`Behind`), for the session stored and for the one read. `PromptInv` adds that the prompt is
open wherever the conversation stands at one. The refinement maps the steps one by one:
the commit of a text is the dialogue's step, whether it changes the tables or not, a
new product's stock is its second, and reading, saving and replying are stutters, because
the dialogue sees the session that is about to be saved (`SessionSeen`). A worker
alone is never refused its save; when it fails after the session has expired, that is
the dialogue's expiry, and when it fails before a new product's stock is committed, the
dialogue gives the stock up (`LostSeen`).

`WebhookProofs` proves, for any messages, attempts and bounds:

* `DispatchedOncePerKey`: `Spec => []OncePerKey`: a message is handed over at most once
  for each life of its key;
* `NothingElseIsLost`: `Spec => []AcknowledgedIsCarried`: a message that the provider
  takes for delivered is in the queue, about to be, or was met by a failure;
* `WebhookTyped`.

`WebhookInv` adds `KeyCounts` (the dispatches that were made and the attempts that may
still make one are together within the lives of the key) and `KeyCarries` (a key in
Redis stands for a message that is queued, about to be, or was met by a failure), which
is what a duplicate relies on.

`AnalyticsProofs` proves, for any tools, products, texts and number of refusals:

* `AnalyticsTyped`, `ExposureBounded`, `ContextExecuted`: `TypeOK`, `BoundedExposure`
  and `ContextIsExecuted` hold in every state;
* `FailureKeeps`: `Spec => FailureKeepsContext`;
* `AnalyticsAsFSM`: `Spec => HandledAsFSM`, so that the model of the conversation,
  which handles a question in one step, loses nothing that the steps can do.

`AnalyticsInv` adds that the session is parked exactly when it holds a call
(`SessionInv`); how many provider calls each place of the loop has behind it
(`LoopInv`); that the call which is run is the model's, or the parked one with one of
its candidates (`RunInv`); and what an outcome that is to be settled says of the text
and of the tool (`SettleInv`). `SavedSession` says what the next session can be.

`ReportsProofs` proves, for any sales, products, requests, readers and any calendar that
satisfies `CalendarAssumption` (months in order, each date in its month):

* `PeriodsAreUnits`: `Spec => []PeriodIsUnit`;
* `TrendsAdjoin`: `Spec => []PreviousAdjoins`, which alone needs `HorizonAssumption`: a
  request that lasted longer than a day could compare a day with the one after it;
* `RankingsHaveTheTotal`: `Spec => []FiguresGrow`;
* `OnlyItsDates`: `Spec => []NothingForeign`;
* `SettledReadsAll`: of a period that was over, each statement has exactly the sales of
  its dates, and `SettledFigures`: `Spec => []SettledIsExact`, what its figures are;
* `ReportsTyped`.

The first part is about `Periods` alone: the division that makes a date of an instant,
a week by its Monday, a month by the order of the months, and from them that
`UnitBounds` is the unit and that the unit of the date before it adjoins. `ReportsInv`
then says which place belongs to which request (`Routed`), that the bounds are those of
one reading of the clock and the ones compared with those of a later one (`Resolved`,
`Compared`), that what was selected is still there (`Kept`), and that a period which is
over stays over, with all its sales read (`Settled`): a sale still open when the period
was resolved is not in it, and a new one is stamped later.

From the rows to the figures: revenue and units are sums (`UnitsAreSum`, `SumProofs`); the
first of a `DENSE_RANK` is a maximum (`FirstRankedIsBest`). A list that is ordered by units
and product and cut off has, for each of its members, fewer than `limit` products ahead
of it: so it has as many members as fit (`LimitedCardinality`) and none of those left out
sold less than one of those in it (`LimitedFirst`). `ReportsAssumption` has products
numbered in the order of their names, by which the statement breaks ties, and the bounds
that `GetSlowMovingItemsInput` puts on a request.

`ShopsProofs` proves, for any phones, messages, requests and alerts, `ShopsTyped`,
`PhoneHasOneShop` (`OneShop`), `AnsweredLocaleWasShops` (`LocaleWasShops`), `RepliesRender`
(`EveryReplyRenders`) and `AlertsFindShops` (`AlertFindsShop`). `ShopsInv` adds where the
requests of each kind can be (`InPlace`), that every id which is kept is that of the phone's
committed shop (`References`), that the phone of an uncommitted `INSERT` has no shop
(`Inserting`), and what a REST request has seen of the locale before it answers
(`Witnessed`). The lemmas about `Replies` go through the templates, flow by flow.

Only model-checked: the three properties of liveness that hold, `EveryRequestEnds`,
`SentIsCarried` and `EveryTextEnds`, since the prover has no rule for fairness and
`ENABLED`. Every other property of a run that passes is the statement of a
theorem.

## 5. Not modelled

* The HTTP of the model's providers and of the message senders, token counts and costs;
  the layout of PDFs; wording, and how amounts and lists are written out.
* Migrations, the SQL loader, settings, Celery's and Redis' wiring, the chat simulator
  and the benchmark: what of them matters to the models is a constant or an action.
* Validation of REST bodies, health checks, and the status codes of most errors, which
  only refuse a request. `update_product` changes a name or a price, which the ledger
  does not keep.
* The list of products with low stock in a report, one read of tables that
  `StockTransactions` has; the percentages of a trend.
* A request of the provider with several messages; the growth of `history`.
* `START_ADD_PRODUCT` is entered by nothing, `REPORT_PENDING` is left by the handler
  that enters it, `delete_session`, `retry.py` and the outcomes of a guardrail are used
  by nothing under `app/`.
