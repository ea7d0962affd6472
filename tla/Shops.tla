-------------------------------- MODULE Shops -------------------------------
(***************************************************************************)
(* The shop of a merchant: conversations make it when they need one, the   *)
(* REST interface makes it and changes its locale, replies and alerts read *)
(* it.  All of them select it by its phone and go on in later statements;  *)
(* phone is unique in the table.                                           *)
(*                                                                         *)
(*   message  process -> find -> insert -> inserted -> locale -> save      *)
(*              -> render                                                  *)
(*   create   insert -> inserted -> refresh                                *)
(*   change   find -> insert -> inserted -> refresh                        *)
(*            find -> update -> updated -> refresh                         *)
(*   alert    queued -> render                                             *)
(*                                                                         *)
(* SQLAlchemy sends an INSERT or an UPDATE when it commits, and no UPDATE  *)
(* for a value that is the one it has loaded.  What a message says beyond  *)
(* its reply is in ConversationFSM, and which session is saved over which  *)
(* in ConversationWorkers: here a save succeeds or does not.               *)
(***************************************************************************)
EXTENDS Replies

CONSTANTS
  Phones,     \* the phones of merchants
  Messages,   \* the workers that serve messages
  Rest,       \* REST requests
  Alerts,     \* the alerts that there may be at a time
  Phone,      \* whose message, request or alert it is
  NoOne       \* no shop, or no request

Requests == Messages \union Rest \union Alerts

ASSUME ShopsAssumption ==
  /\ Messages \intersect Rest = {} /\ Messages \intersect Alerts = {} /\ Rest \intersect Alerts = {}
  /\ NoOne \notin Requests
  /\ Phone \in [Requests -> Phones]

VARIABLES
  shops,        \* the committed rows; a shop's id is the request that made it
  claim,        \* the request with an uncommitted INSERT or UPDATE for a phone
  remembered,   \* session.context.shop_id in Redis
  at,           \* where a request is
  says,         \* which results the reply to a message is one of
  asked,        \* what a REST request is and the locale that it brings
  known,        \* the shop's id that a message goes on with
  found,        \* the locale that was selected
  answer,       \* the row that is returned
  seen          \* history: the locales the shop has had since a REST request began

data == <<shops, claim, remembered>>
work == <<at, says, asked, known, found, answer>>
vars == <<data, work, seen>>

-----------------------------------------------------------------------------
Rows == [id : Requests, phone : Phones, locale : SupportedLocales]
Asking == [op : {"create", "change"}, locale : SupportedLocales]
NoRow == [id |-> NoOne, phone |-> "none", locale |-> "en"]

RowsOf(p) == {s \in shops : s.phone = p}

(* scalar_one_or_none *)
ShopOf(p) == IF RowsOf(p) = {} THEN NoRow ELSE CHOOSE s \in RowsOf(p) : TRUE

(* The locale of a message is "en" while there is no shop. *)
LocaleOf(p) == ShopOf(p).locale

(***************************************************************************)
(* What a text may come to: nothing that needs the shop, a flow that looks *)
(* it up, one that does so when the session knows none, or a sale that is  *)
(* confirmed, which the session cannot ask for without it.                 *)
(***************************************************************************)
ResultsOf(class) ==
  CASE class = "quiet"  -> EngineResults \union Refusals \union AddProductResults \union SaleResults
    [] class = "lookup" -> SearchResults \union AnalyticsResults
    [] class = "once"   -> Bare({"REPORT_GENERATING"}) \union {ProductResult("PRODUCT_ADDED")}
    [] class = "sale"   -> {SaleRecorded}

Classes == {"none", "quiet", "lookup", "once", "sale"}

Ended == {"done", "conflict", "raced", "unrendered", "ignored", "failed"}

Active(r) == at[r] \notin {"idle"} \union Ended

Init ==
  /\ shops = {}
  /\ claim = [p \in Phones |-> NoOne]
  /\ remembered = [p \in Phones |-> NoOne]
  /\ at = [r \in Requests |-> "idle"]
  /\ says = [r \in Requests |-> "none"]
  /\ asked \in [Rest -> {[op |-> "create", locale |-> "en"]}]
  /\ known = [r \in Requests |-> NoOne]
  /\ found = [r \in Requests |-> "none"]
  /\ answer = [r \in Requests |-> NoRow]
  /\ seen = [r \in Requests |-> {}]

Goto(r, place) == at' = [at EXCEPT ![r] = place]

(* A task or a request is over, and nothing of it is kept but its answer. *)
End(r, place) ==
  /\ Goto(r, place)
  /\ says' = [says EXCEPT ![r] = "none"]
  /\ known' = [known EXCEPT ![r] = NoOne]
  /\ found' = [found EXCEPT ![r] = "none"]
  /\ seen' = [seen EXCEPT ![r] = {}]
  /\ UNCHANGED <<asked, answer>>

(* conversation_task reads the session; a worker that has lost a race goes *)
(* on with other messages.                                                 *)
BeginMessage(r) ==
  /\ at[r] \in {"idle", "raced"}
  /\ Goto(r, "process")
  /\ known' = [known EXCEPT ![r] = remembered[Phone[r]]]
  /\ UNCHANGED <<data, says, asked, found, answer, seen>>

(* POST /shops, and PATCH /shops/{phone}/locale *)
BeginRest(r) ==
  /\ at[r] = "idle"
  /\ \E a \in Asking :
       /\ asked' = [asked EXCEPT ![r] = a]
       /\ Goto(r, IF a.op = "create" THEN "insert" ELSE "find")
  /\ seen' = [seen EXCEPT ![r] = {LocaleOf(Phone[r])}]
  /\ UNCHANGED <<data, says, known, found, answer>>

-----------------------------------------------------------------------------
(* process_message, and get_shop_id in it.                                 *)

Process(r) ==
  /\ at[r] = "process"
  /\ \E class \in {"quiet", "lookup", "once"} :
       /\ says' = [says EXCEPT ![r] = class]
       /\ Goto(r, IF class = "lookup" \/ (class = "once" /\ known[r] = NoOne)
                  THEN "find" ELSE "locale")
  /\ UNCHANGED <<data, asked, known, found, answer, seen>>

(* A sale that leaves little of the product hands an alert to the workers. *)
ProcessSale(r) ==
  /\ at[r] = "process"
  /\ known[r] # NoOne
  /\ says' = [says EXCEPT ![r] = "sale"]
  /\ \E alerts \in SUBSET {a \in Alerts : at[a] = "idle" /\ Phone[a] = Phone[r]} :
       /\ \A a, b \in alerts : a = b
       /\ at' = [q \in Requests |-> IF q = r THEN "locale"
                                    ELSE IF q \in alerts THEN "queued" ELSE at[q]]
  /\ UNCHANGED <<data, asked, known, found, answer, seen>>

\* Seeded fault: a new shop is left to a commit that nobody makes.
FindUncommitted(r) ==
  /\ r \in Messages /\ at[r] = "find"
  /\ known' = [known EXCEPT ![r] = IF RowsOf(Phone[r]) = {} THEN r ELSE ShopOf(Phone[r]).id]
  /\ Goto(r, "locale")
  /\ UNCHANGED <<data, says, asked, found, answer, seen>>

(* The select of get_shop_id. *)
FindForMessage(r) ==
  /\ r \in Messages /\ at[r] = "find"
  /\ known' = [known EXCEPT ![r] = ShopOf(Phone[r]).id]
  /\ Goto(r, IF RowsOf(Phone[r]) = {} THEN "insert" ELSE "locale")
  /\ UNCHANGED <<data, says, asked, found, answer, seen>>

-----------------------------------------------------------------------------
(* Writing the shop.                                                       *)

\* Seeded fault: phone is not unique.
InsertDuplicate(r) ==
  /\ at[r] = "insert"
  /\ claim[Phone[r]] = NoOne
  /\ claim' = [claim EXCEPT ![Phone[r]] = r]
  /\ Goto(r, "inserted")
  /\ UNCHANGED <<shops, remembered, says, asked, known, found, answer, seen>>

(* INSERT waits for one of the same phone that is not committed. *)
Insert(r) ==
  /\ at[r] = "insert"
  /\ claim[Phone[r]] = NoOne
  /\ RowsOf(Phone[r]) = {}
  /\ claim' = [claim EXCEPT ![Phone[r]] = r]
  /\ Goto(r, "inserted")
  /\ UNCHANGED <<shops, remembered, says, asked, known, found, answer, seen>>

(***************************************************************************)
(* IntegrityError: create_shop answers 409; get_shop_id and update_locale  *)
(* let it pass, and the task or the request ends with it.                  *)
(***************************************************************************)
InsertFails(r) ==
  /\ at[r] = "insert"
  /\ claim[Phone[r]] = NoOne
  /\ RowsOf(Phone[r]) # {}
  /\ End(r, IF r \in Rest /\ asked[r].op = "create" THEN "conflict" ELSE "raced")
  /\ UNCHANGED data

FindForChange(r) ==
  /\ r \in Rest /\ at[r] = "find"
  /\ found' = [found EXCEPT ![r] = LocaleOf(Phone[r])]
  /\ Goto(r, IF RowsOf(Phone[r]) = {} THEN "insert" ELSE "update")
  /\ UNCHANGED <<data, says, asked, known, answer, seen>>

\* Seeded fault: nothing is sent when the locale is the default one.
NoUpdateOfDefault(r) ==
  /\ at[r] = "update"
  /\ asked[r].locale = "en"
  /\ Goto(r, "refresh")
  /\ UNCHANGED <<data, says, asked, known, found, answer, seen>>

(* The locale is the one that was loaded: nothing is sent. *)
NoUpdate(r) ==
  /\ at[r] = "update"
  /\ asked[r].locale = found[r]
  /\ Goto(r, "refresh")
  /\ UNCHANGED <<data, says, asked, known, found, answer, seen>>

(* UPDATE waits for one of the same row that is not committed. *)
Update(r) ==
  /\ at[r] = "update"
  /\ asked[r].locale # found[r]
  /\ claim[Phone[r]] = NoOne
  /\ claim' = [claim EXCEPT ![Phone[r]] = r]
  /\ Goto(r, "updated")
  /\ UNCHANGED <<shops, remembered, says, asked, known, found, answer, seen>>

(* What is committed is seen by all that go on. *)
Commit(r, rows, locale) ==
  /\ shops' = rows
  /\ claim' = [claim EXCEPT ![Phone[r]] = NoOne]
  /\ seen' = [q \in Requests |->
                IF q \in Rest /\ Active(q) /\ Phone[q] = Phone[r]
                THEN seen[q] \union {locale} ELSE seen[q]]
  /\ UNCHANGED <<remembered, says, asked, found, answer>>

NewRow(r) ==
  [id |-> r, phone |-> Phone[r], locale |-> IF r \in Messages THEN "en" ELSE asked[r].locale]

CommitInsert(r) ==
  /\ at[r] = "inserted"
  /\ Commit(r, shops \union {NewRow(r)}, NewRow(r).locale)
  /\ known' = IF r \in Messages THEN [known EXCEPT ![r] = r] ELSE known
  /\ Goto(r, IF r \in Messages THEN "locale" ELSE "refresh")

CommitUpdate(r) ==
  /\ at[r] = "updated"
  /\ LET changed(s) == IF s.phone = Phone[r] THEN [s EXCEPT !.locale = asked[r].locale] ELSE s
     IN Commit(r, {changed(s) : s \in shops}, asked[r].locale)
  /\ Goto(r, "refresh")
  /\ UNCHANGED known

(* db.refresh: the row as it is by now is the response. *)
Refresh(r) ==
  /\ at[r] = "refresh"
  /\ answer' = [answer EXCEPT ![r] = ShopOf(Phone[r])]
  /\ Goto(r, "done")
  /\ UNCHANGED <<data, says, asked, known, found, seen>>

-----------------------------------------------------------------------------
(* The end of a message, and the alert.                                    *)

\* Seeded fault: `or "en"` is left out, and the merchant's first reply has no locale.
ReadLocaleOfNone(r) ==
  /\ at[r] = "locale"
  /\ found' = [found EXCEPT ![r] =
                 IF RowsOf(Phone[r]) = {} THEN "null" ELSE LocaleOf(Phone[r])]
  /\ Goto(r, "save")
  /\ UNCHANGED <<data, says, asked, known, answer, seen>>

ReadLocale(r) ==
  /\ at[r] = "locale"
  /\ found' = [found EXCEPT ![r] = LocaleOf(Phone[r])]
  /\ Goto(r, "save")
  /\ UNCHANGED <<data, says, asked, known, answer, seen>>

Save(r) ==
  /\ at[r] = "save"
  /\ remembered' = [remembered EXCEPT ![Phone[r]] = known[r]]
  /\ Goto(r, "render")
  /\ UNCHANGED <<shops, claim, says, asked, known, found, answer, seen>>

(* SessionStateMismatchError *)
SaveRefused(r) ==
  /\ at[r] = "save"
  /\ End(r, "idle")
  /\ UNCHANGED data

(***************************************************************************)
(* render_message, which raises when a parameter is missing: the session   *)
(* is saved by then.                                                       *)
(***************************************************************************)
Render(r) ==
  /\ at[r] = "render"
  /\ \E result \in IF r \in Alerts THEN {LowStockAlert} ELSE ResultsOf(says[r]) :
       End(r, IF Renders(result) THEN "idle" ELSE "unrendered")
  /\ UNCHANGED data

(* _process_low_stock_alert: no shop is an error; the product may be gone. *)
TakeAlert(r) ==
  /\ at[r] = "queued"
  /\ IF RowsOf(Phone[r]) = {}
     THEN End(r, "ignored")
     ELSE \/ End(r, "idle")
          \/ /\ found' = [found EXCEPT ![r] = LocaleOf(Phone[r])]
             /\ Goto(r, "render")
             /\ UNCHANGED <<says, asked, known, answer, seen>>
  /\ UNCHANGED data

(* session_ttl_seconds after the last save. *)
Expire(p) ==
  /\ remembered[p] # NoOne
  /\ remembered' = [remembered EXCEPT ![p] = NoOne]
  /\ UNCHANGED <<shops, claim, work, seen>>

(* The process or its connection is lost: what is not committed is undone. *)
Fail(r) ==
  /\ Active(r)
  /\ End(r, IF r \in Rest THEN "failed" ELSE "idle")
  /\ claim' = [p \in Phones |-> IF claim[p] = r THEN NoOne ELSE claim[p]]
  /\ UNCHANGED <<shops, remembered>>

Write(r) == Insert(r) \/ InsertFails(r) \/ CommitInsert(r)

MessageStep(r) ==
  \/ BeginMessage(r) \/ Process(r) \/ ProcessSale(r) \/ FindForMessage(r) \/ Write(r)
  \/ ReadLocale(r) \/ Save(r) \/ SaveRefused(r) \/ Render(r)

RestStep(r) ==
  \/ BeginRest(r) \/ FindForChange(r) \/ Write(r)
  \/ NoUpdate(r) \/ Update(r) \/ CommitUpdate(r) \/ Refresh(r)

Next ==
  \/ \E r \in Messages : MessageStep(r)
  \/ \E r \in Rest : RestStep(r)
  \/ \E r \in Alerts : TakeAlert(r) \/ Render(r)
  \/ \E r \in Requests : Fail(r)
  \/ \E p \in Phones : Expire(p)

Spec == Init /\ [][Next]_vars

-----------------------------------------------------------------------------
(* Properties.                                                             *)

Places ==
  {"idle", "process", "find", "insert", "inserted", "update", "updated", "refresh",
   "locale", "save", "render", "queued"} \union Ended

(* Where a request of each kind can be, and who holds a phone's row. *)
TypeOK ==
  /\ shops \subseteq Rows
  /\ claim \in [Phones -> Requests \union {NoOne}]
  /\ remembered \in [Phones -> Requests \union {NoOne}]
  /\ at \in [Requests -> Places]
  /\ says \in [Requests -> Classes]
  /\ asked \in [Rest -> Asking]
  /\ known \in [Requests -> Requests \union {NoOne}]
  /\ found \in [Requests -> SupportedLocales \union {"none"}]
  /\ answer \in [Requests -> Rows \union {NoRow}]
  /\ seen \in [Requests -> SUBSET SupportedLocales]
  /\ \A r \in Requests : at[r] \in {"inserted", "updated"} => claim[Phone[r]] = r

(***************************************************************************)
(* A phone has one shop, and no id that a session remembers, that a        *)
(* message goes on with or that a response tells is another's: also when   *)
(* two first messages, or a message and a request, found no shop at once.  *)
(***************************************************************************)
OneShop ==
  /\ \A s, t \in shops : s.phone = t.phone => s = t
  /\ \A p \in Phones : remembered[p] # NoOne => remembered[p] = ShopOf(p).id
  /\ \A r \in Requests :
       /\ known[r] # NoOne => known[r] = ShopOf(Phone[r]).id
       /\ answer[r] # NoRow => answer[r].id = ShopOf(Phone[r]).id

(***************************************************************************)
(* A change that is answered took place: the locale it asked for was the   *)
(* shop's at some time between request and response, though nothing is     *)
(* sent when the request has loaded it, and another may have replaced it.  *)
(* So was the locale that is returned.                                     *)
(***************************************************************************)
LocaleWasShops ==
  \A r \in Rest :
    /\ at[r] = "done" /\ asked[r].op = "change" => asked[r].locale \in seen[r]
    /\ answer[r] # NoRow => answer[r].locale \in seen[r]

(***************************************************************************)
(* A message whose session is saved has a reply that can be rendered, and  *)
(* so has an alert: every flow brings the parameters that the template of  *)
(* its key asks for, as numbers where it formats an amount.                *)
(***************************************************************************)
EveryReplyRenders == \A r \in Requests : at[r] # "unrendered"

(***************************************************************************)
(* An alert finds the shop of the sale that sent it: what the task logs as *)
(* critical does not happen, since a shop that a session knows is          *)
(* committed and stays.                                                    *)
(***************************************************************************)
AlertFindsShop == \A r \in Requests : at[r] # "ignored"
=============================================================================
