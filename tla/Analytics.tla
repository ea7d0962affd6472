------------------------------- MODULE Analytics -------------------------------
(***************************************************************************)
(* One merchant's questions to the analytics flow, from the routing policy *)
(* through the calls to the model and the run of a tool to the session     *)
(* that is saved.  The model proposes, the code disposes: a proposal that  *)
(* a model can repair is sent back once, and nothing else is.              *)
(*                                                                         *)
(*   idle --Receive--> ask --Ask--> generate --Generate--> inspect         *)
(*     ^                                ^                     | Inspect    *)
(*     |                                +------ Repair -------+            *)
(*     |                                |                     v            *)
(*     +--Settle-- settle <--RunTool-- run <--Validate-- validate          *)
(*                                                                         *)
(* A choice of a parked question's product goes from idle to run.  The     *)
(* texts, and what a session looks like to the other flows, are those of   *)
(* ConversationFSM, whose one-step handlers of questions and of choices    *)
(* are implemented here.                                                   *)
(***************************************************************************)
EXTENDS ConversationFSM

CONSTANTS
  Tools,       \* the active tools
  Resolving,   \* those that look a product up: stock level, price
  Dated,       \* those that take a period: summary, ranking, trend, slow movers
  OtherTool,   \* any other name that a model may come up with
  NoTool,      \* no tool is named
  Typed        \* the texts of the merchant

ASSUME AnalyticsAssumption ==
  /\ Resolving \subseteq Tools
  /\ Dated \subseteq Tools \ Resolving
  /\ OtherTool \notin Tools
  /\ NoTool \notin Tools \union {OtherTool}
  /\ Typed \subseteq {t \in Texts : IntentOf(t) = "UNKNOWN"}

VARIABLES
  session,    \* the session in Redis, and the copy that is worked on
  fresh,      \* the prior call is young enough for a follow-up
  live,       \* the shop's products
  pc,         \* where the worker is
  text,       \* the text that is being handled
  attempt,    \* the orchestrator's loop variable
  response,   \* what the model proposed
  call,       \* the tool that is to be run, and a chosen product
  outcome,    \* the AnalyticsOutcome
  intact,     \* the transaction has seen no database error
  calls,      \* history: calls to the provider for this text
  touched,    \* history: a tool's handler has been run for this text
  executed,   \* history: the calls that a handler ever answered
  answered    \* history: the last text got a reply

vars == <<session, fresh, live, pc, text, attempt, response, call, outcome,
          intact, calls, touched, executed, answered>>

(* What ends with the text. *)
locals == <<text, attempt, response, call, outcome, intact, calls, touched>>

-----------------------------------------------------------------------------
(* Calls, proposals, outcomes *)

(* A call that was run: the tool, and the product when one was chosen; a   *)
(* product that the model named is among the arguments, which are left out. *)
Calls == [tool : Tools, product : Products \union {NoProduct}]
NoCall == [tool |-> NoTool, product |-> NoProduct]

(* A tool call's arguments: {}; against the schema, as a shop_id is; a     *)
(* range of dates that ends before it starts; fine.  As they are sent,     *)
(* they may also be no JSON, or JSON that is no object.                    *)
Arguments == {"empty", "wrong", "backwards", "right"}
RawArguments == Arguments \union {"garbled", "list"}

Responses == [kind : {"none", "many", "one"}, tool : Tools \union {OtherTool, NoTool},
              args : Arguments]
NoResponse == [kind |-> "none", tool |-> NoTool, args |-> "empty"]
Proposal(raw) == [kind |-> "one", tool |-> raw.tool, args |-> raw.args]

Answers == {"ANSWERED", "ANSWERED_EMPTY"}

OutcomeTypes ==
  Answers \union
  {"NEEDS_SELECTION", "NO_ANALYTICS_INTENT", "INVALID_PROPOSAL",
   "ARGUMENT_VALIDATION_FAILED", "MALFORMED_RESPONSE", "DOMAIN_FAILURE",
   "PROVIDER_UNAVAILABLE", "INFRASTRUCTURE_FAILURE"}

(* Replies that no orchestration precedes. *)
OtherReplies == {"FLOW_CANCELLED", "REFUSED", "SESSION_CONTEXT_LOST"}

Outcomes == [type : OutcomeTypes \union OtherReplies, call : Calls \union {NoCall},
             choices : SUBSET Products]
Outcome(type) == [type |-> type, call |-> NoCall, choices |-> {}]

(* How the other flows see the session. *)
EmptySession ==
  [state |-> "IDLE", errors |-> 0, shop |-> FALSE, candidates |-> {},
   pending |-> NoCall, last |-> NoCall]

FSMSession ==
  [NewSession EXCEPT !.state = session.state, !.errors = session.errors,
                     !.shop = session.shop, !.candidates = session.candidates,
                     !.pending = session.pending # NoCall,
                     !.prior = session.last # NoCall]

Parked == session.state = "ANALYTICS_PRODUCT_SELECTION"

-----------------------------------------------------------------------------

NoText == "none"

Init ==
  /\ pc = "idle"
  /\ text = NoText
  /\ attempt = 0
  /\ response = NoResponse
  /\ call = NoCall
  /\ outcome = Outcome("NO_ANALYTICS_INTENT")
  /\ intact = TRUE
  /\ calls = 0
  /\ touched = FALSE
  /\ session = EmptySession
  /\ fresh = FALSE
  /\ live \in SUBSET Products
  /\ executed = {}
  /\ answered = FALSE

(* The task ends, and with it what it worked with. *)
Forget ==
  /\ pc' = "idle"
  /\ text' = NoText
  /\ attempt' = 0
  /\ response' = NoResponse
  /\ call' = NoCall
  /\ outcome' = Outcome("NO_ANALYTICS_INTENT")
  /\ intact' = TRUE
  /\ calls' = 0
  /\ touched' = FALSE

(* The outcome is known. *)
Conclude(o) == outcome' = o /\ pc' = "settle"

(* can_route: a bare number is a question only as a follow-up. *)
CanRoute(t) == AnalyticsEnabled /\ (IsDigits(t) => fresh)

Reply(type) == Conclude(Outcome(type)) /\ UNCHANGED call

ReceiveIdle(t) ==
  IF CanRoute(t) THEN pc' = "ask" /\ UNCHANGED <<call, outcome>>
  ELSE Reply("REFUSED")

(* handle_product_selection, up to the run of the tool. *)
ReceiveChoice(t) ==
  CASE Number(t) \notin 1..Cardinality(session.candidates) -> Reply("REFUSED")
    [] Number(t) \in 1..Cardinality(session.candidates) /\ session.pending = NoCall ->
         Reply("SESSION_CONTEXT_LOST")
    [] Number(t) \in 1..Cardinality(session.candidates) /\ session.pending # NoCall ->
         /\ pc' = "run"
         /\ \E p \in session.candidates : call' = [session.pending EXCEPT !.product = p]
         /\ UNCHANGED outcome

(***************************************************************************)
(* process_message, for a text that no other flow takes.  An override goes *)
(* first; a parked question waits for the number of a candidate, whose     *)
(* tool then runs with the product's id, so that nothing is left to        *)
(* validate or to resolve.                                                 *)
(***************************************************************************)
Receive(t) ==
  /\ pc = "idle"
  /\ text' = t
  /\ \/ Override(t) /\ Reply("FLOW_CANCELLED")
     \/ ~Override(t) /\ ~Parked /\ ReceiveIdle(t)
     \/ ~Override(t) /\ Parked /\ ReceiveChoice(t)
  /\ UNCHANGED <<session, fresh, live, attempt, response, intact, calls, touched,
                 executed, answered>>

(* handle_query: the shop is looked up or made, the prompt is put together. *)
Ask ==
  /\ pc = "ask"
  /\ pc' = "generate"
  /\ UNCHANGED <<session, fresh, live, executed, answered>>
  /\ UNCHANGED locals

-----------------------------------------------------------------------------
(* LLMClient.generate *)

(* What the provider sends: up to two tool calls, since more are as two,   *)
(* and the call of a generation that it rejected itself.                   *)
RawCalls == [tool : Tools \union {OtherTool, NoTool}, args : RawArguments]
Payloads == [first : RawCalls, second : RawCalls, failed : RawCalls]

(* A call without a name is passed over; arguments of any other that are   *)
(* no JSON object spoil the response.                                      *)
Malformed(p) ==
  \E raw \in {p.first, p.second} : raw.tool # NoTool /\ raw.args \notin Arguments

(* The rejected call counts when there is no other; arguments that are no  *)
(* JSON are taken for {} here.                                             *)
Rejected(raw) ==
  CASE raw.tool = NoTool \/ raw.args = "list" -> NoResponse
    [] raw.tool # NoTool /\ raw.args = "garbled" -> Proposal([raw EXCEPT !.args = "empty"])
    [] raw.tool # NoTool /\ raw.args \in Arguments -> Proposal(raw)

Normalize(p) ==
  CASE p.first.tool # NoTool /\ p.second.tool # NoTool -> [NoResponse EXCEPT !.kind = "many"]
    [] p.first.tool # NoTool /\ p.second.tool = NoTool -> Proposal(p.first)
    [] p.first.tool = NoTool /\ p.second.tool # NoTool -> Proposal(p.second)
    [] p.first.tool = NoTool /\ p.second.tool = NoTool ->
         Rejected(p.failed)

Understood == {Normalize(p) : p \in {q \in Payloads : ~Malformed(q)}}

(* Three calls are as bad as more. *)
MaxCounted == 3
Counted(n) == IF n < MaxCounted THEN n + 1 ELSE n

(* The input is over the limit before anything is sent, the request fails  *)
(* or times out, something else breaks, or a payload arrives.              *)
Generate ==
  /\ pc = "generate"
  /\ \/ /\ Conclude(Outcome("MALFORMED_RESPONSE"))
        /\ UNCHANGED <<calls, response>>
     \/ /\ calls' = Counted(calls)
        /\ Conclude(Outcome("PROVIDER_UNAVAILABLE"))
           \/ Conclude(Outcome("INFRASTRUCTURE_FAILURE"))
        /\ UNCHANGED response
     \/ /\ calls' = Counted(calls)
        /\ Conclude(Outcome("MALFORMED_RESPONSE"))
        /\ UNCHANGED response
     \/ /\ calls' = Counted(calls)
        /\ response' \in Understood
        /\ pc' = "inspect"
        /\ UNCHANGED outcome
  /\ UNCHANGED <<session, fresh, live, text, attempt, call, intact, touched, executed,
                 answered>>

-----------------------------------------------------------------------------
(* AnalyticsOrchestrator.run *)

\* Seeded fault: the attempt is not counted.
RepairUncounted(o) ==
  IF attempt = 0
  THEN pc' = "generate" /\ UNCHANGED <<attempt, outcome>>
  ELSE Conclude(o) /\ UNCHANGED attempt

(* The one repair, or the outcome o when it has been spent. *)
Repair(o) ==
  IF attempt = 0
  THEN attempt' = 1 /\ pc' = "generate" /\ UNCHANGED outcome
  ELSE Conclude(o) /\ UNCHANGED attempt

Inspect ==
  /\ pc = "inspect"
  /\ CASE response.kind = "none" ->
            Conclude(Outcome("NO_ANALYTICS_INTENT")) /\ UNCHANGED attempt
       [] response.kind = "many" \/ (response.kind = "one" /\ response.tool \notin Tools) ->
            Repair(Outcome("INVALID_PROPOSAL"))
       [] response.kind = "one" /\ response.tool \in Tools ->
            pc' = "validate" /\ UNCHANGED <<attempt, outcome>>
  /\ response' = IF pc' = "validate" THEN response ELSE NoResponse
  /\ UNCHANGED <<session, fresh, live, text, call, intact, calls, touched,
                 executed, answered>>

(* ToolValidator: extra fields are forbidden, so that only a tool without  *)
(* arguments takes {}, and only one with a period a range of dates.        *)
FitsSchema(tool, args) ==
  \/ args = "right"
  \/ args = "empty" /\ tool \notin Resolving \union Dated
  \/ args = "backwards" /\ tool \in Dated

(* A range that ends before it starts is the domain's to refuse. *)
Validate ==
  /\ pc = "validate"
  /\ CASE ~FitsSchema(response.tool, response.args) ->
            Repair(Outcome("ARGUMENT_VALIDATION_FAILED")) /\ UNCHANGED call
       [] FitsSchema(response.tool, response.args) /\ response.args = "backwards" ->
            Conclude(Outcome("DOMAIN_FAILURE")) /\ UNCHANGED <<attempt, call>>
       [] FitsSchema(response.tool, response.args) /\ response.args # "backwards" ->
            /\ pc' = "run"
            /\ call' = [NoCall EXCEPT !.tool = response.tool]
            /\ UNCHANGED <<attempt, outcome>>
  /\ response' = NoResponse
  /\ UNCHANGED <<session, fresh, live, text, intact, calls, touched,
                 executed, answered>>

-----------------------------------------------------------------------------
(* The tools' handlers, and what the executor makes of what they raise *)

Answer(type, c) == [Outcome(type) EXCEPT !.call = c]

(* Stock level and price: by the id that was chosen, or by the wording,    *)
(* which matches one product clearly, several less so, or none.            *)
RunResolving ==
  \/ /\ \E p \in live : call.product \in {p, NoProduct}
     /\ outcome' = Answer("ANSWERED", call)
  \/ \E C \in Choices([live |-> live], 5) :
       /\ call.product = NoProduct
       /\ outcome' = [Answer("NEEDS_SELECTION", call) EXCEPT !.choices = C]
  \/ /\ call.product \notin live
     /\ outcome' = Outcome("DOMAIN_FAILURE")

RunReport == \E type \in Answers : outcome' = Answer(type, call)

(* Any other exception is a domain failure, too: nothing raises the        *)
(* InfrastructureError that the executor looks for.  After one of the      *)
(* database the transaction, which the worker goes on with, is aborted.    *)
RunRaising ==
  /\ outcome' = Outcome("DOMAIN_FAILURE")
  /\ intact' \in {TRUE, FALSE}

\* Seeded fault: what a handler raises is sent back to the model.
RunToolRepairing ==
  /\ pc = "run"
  /\ touched' = TRUE
  /\ \/ /\ call.tool \in Resolving /\ RunResolving
        /\ pc' = "settle"
        /\ UNCHANGED <<attempt, intact>>
     \/ RunRaising /\ pc' = "generate" /\ attempt' = 1
  /\ executed' = IF outcome'.type \in Answers
                 THEN executed \union {outcome'.call} ELSE executed
  /\ UNCHANGED <<session, fresh, live, text, response, call, calls, answered>>

RunTool ==
  /\ pc = "run"
  /\ pc' = "settle"
  /\ touched' = TRUE
  /\ \/ call.tool \in Resolving /\ RunResolving /\ UNCHANGED intact
     \/ call.tool \notin Resolving /\ RunReport /\ UNCHANGED intact
     \/ RunRaising
  /\ executed' = IF outcome'.type \in Answers
                 THEN executed \union {outcome'.call} ELSE executed
  /\ UNCHANGED <<session, fresh, live, text, attempt, response, call, calls, answered>>

-----------------------------------------------------------------------------
(* The session that is saved *)

Cleared == [EmptySession EXCEPT !.shop = session.shop]

\* Seeded fault: the flow is given up one refusal too late.
AfterRefusalLate ==
  IF session.errors + 1 > MaxErrors THEN Cleared
  ELSE [session EXCEPT !.errors = @ + 1]

(* An InvalidInputError is counted, and the last one gives the flow up. *)
AfterRefusal ==
  IF session.errors + 1 >= MaxErrors THEN Cleared
  ELSE [session EXCEPT !.errors = @ + 1]

\* Seeded fault: a call that waits for a choice is offered for follow-ups.
AfterQuestionEager(o) ==
  LET inShop == [session EXCEPT !.errors = 0, !.shop = TRUE] IN
  CASE o.type = "NEEDS_SELECTION" ->
         [inShop EXCEPT !.state = "ANALYTICS_PRODUCT_SELECTION",
                        !.candidates = o.choices, !.pending = o.call, !.last = o.call]
    [] o.type \in Answers -> [inShop EXCEPT !.last = o.call]
    [] OTHER -> inShop

(* Only an answer becomes the prior call. *)
AfterQuestion(o) ==
  LET inShop == [session EXCEPT !.errors = 0, !.shop = TRUE] IN
  CASE o.type = "NEEDS_SELECTION" ->
         [inShop EXCEPT !.state = "ANALYTICS_PRODUCT_SELECTION",
                        !.candidates = o.choices, !.pending = o.call]
    [] o.type \in Answers -> [inShop EXCEPT !.last = o.call]
    [] OTHER -> inShop

\* Seeded fault: a choice whose tool fails takes the prior call with it.
AfterChoiceForgetting(o) ==
  [session EXCEPT !.state = "IDLE", !.errors = 0, !.candidates = {},
                  !.pending = NoCall,
                  !.last = IF o.type \in Answers THEN o.call ELSE NoCall]

\* Seeded fault: the parked call stays.
AfterChoiceParked(o) ==
  [session EXCEPT !.state = "IDLE", !.errors = 0, !.candidates = {},
                  !.last = IF o.type \in Answers THEN o.call ELSE @]

AfterChoice(o) ==
  [session EXCEPT !.state = "IDLE", !.errors = 0, !.candidates = {},
                  !.pending = NoCall,
                  !.last = IF o.type \in Answers THEN o.call ELSE @]

NextSession(o) ==
  CASE o.type \in {"FLOW_CANCELLED", "SESSION_CONTEXT_LOST"} -> Cleared
    [] o.type = "REFUSED" -> AfterRefusal
    [] o.type \in OutcomeTypes -> IF Parked THEN AfterChoice(o) ELSE AfterQuestion(o)

(* The flow returns, the locale is read in the same transaction, which is  *)
(* committed, the session is saved, and the reply sent.                    *)
Settle ==
  /\ pc = "settle"
  /\ intact
  /\ session' = NextSession(outcome)
  /\ fresh' = CASE outcome.type \in Answers -> TRUE
                [] session'.last = NoCall   -> FALSE
                [] OTHER                    -> fresh
  /\ answered' = TRUE
  /\ Forget
  /\ UNCHANGED <<live, executed>>

(* An exception outside the orchestrator, which reading the locale in an   *)
(* aborted transaction is: the session stays as it was, nobody answers.    *)
Fail ==
  /\ pc # "idle"
  /\ answered' = FALSE
  /\ Forget
  /\ UNCHANGED <<session, fresh, live, executed>>

Step == Ask \/ Generate \/ Inspect \/ Validate \/ RunTool \/ Settle

(* The prior call grows too old for a follow-up, also while one is handled. *)
Age ==
  /\ fresh
  /\ fresh' = FALSE
  /\ UNCHANGED <<session, live, pc, executed, answered>>
  /\ UNCHANGED locals

(* session_ttl_seconds *)
Expire ==
  /\ pc = "idle"
  /\ session # EmptySession
  /\ session' = EmptySession
  /\ fresh' = FALSE
  /\ UNCHANGED <<live, pc, executed, answered>>
  /\ UNCHANGED locals

(* Products come and go over REST, also between a question and its choice. *)
Elsewhere ==
  /\ \E p \in Products : live' \in {live \union {p}, live \ {p}}
  /\ UNCHANGED <<session, fresh, pc, executed, answered>>
  /\ UNCHANGED locals

Next ==
  \/ \E t \in Typed : Receive(t)
  \/ Step \/ Fail
  \/ Age \/ Expire \/ Elsewhere

Spec == Init /\ [][Next]_vars

(* A worker goes on with a text that it has begun: the provider answers or *)
(* times out, and an exception ends the task.  Nobody has to ask.          *)
FairSpec == Spec /\ WF_vars(Step \/ Fail)

-----------------------------------------------------------------------------

TypeOK ==
  /\ session \in [state : {"IDLE", "ANALYTICS_PRODUCT_SELECTION"},
                  errors : 0..MaxErrors - 1, shop : BOOLEAN,
                  candidates : SUBSET Products,
                  pending : Calls \union {NoCall}, last : Calls \union {NoCall}]
  /\ fresh \in BOOLEAN
  /\ live \subseteq Products
  /\ pc \in {"idle", "ask", "generate", "inspect", "validate", "run", "settle"}
  /\ text \in Typed \union {NoText}
  /\ attempt \in 0..1
  /\ response \in Responses
  /\ call \in Calls \union {NoCall}
  /\ outcome \in Outcomes
  /\ intact \in BOOLEAN
  /\ calls \in 0..MaxCounted
  /\ touched \in BOOLEAN
  /\ executed \subseteq Calls
  /\ answered \in BOOLEAN

(***************************************************************************)
(* A text costs two calls to the provider at most, and none is made once a *)
(* tool has touched the shop's data: a truth of the domain and a failure   *)
(* of the database are never sent back to the model for repair.  A choice  *)
(* of a product costs none.                                                *)
(***************************************************************************)
BoundedExposure ==
  /\ calls <= 2
  /\ pc \in {"ask", "generate", "inspect", "validate"} => ~touched
  /\ Parked /\ pc # "idle" => calls = 0

(***************************************************************************)
(* What the session offers for a follow-up is a call that a handler has    *)
(* answered, with the product that was chosen, whatever failed since; a    *)
(* parked call is of a tool that needs one, and has candidates for it.     *)
(***************************************************************************)
ContextIsExecuted ==
  /\ session.last # NoCall => session.last \in executed
  /\ fresh => session.last # NoCall
  /\ Parked => /\ session.pending.tool \in Resolving
               /\ session.pending.product = NoProduct
               /\ session.candidates # {}

(***************************************************************************)
(* A failure keeps the context of the last success: the prior call changes *)
(* only with an answer, to the call that was answered - after a choice,    *)
(* the parked one with a product that was offered - or when the session    *)
(* itself is given up.                                                     *)
(***************************************************************************)
FailureKeepsContext ==
  [][session'.last # session.last =>
       \/ session'.last = NoCall /\ (pc = "idle" \/ outcome.type \in OtherReplies)
       \/ /\ answered' /\ outcome.type \in Answers
          /\ Parked => \E p \in session.candidates :
                         session'.last = [session.pending EXCEPT !.product = p]]_vars

(***************************************************************************)
(* A text is either handled as ConversationFSM says, which the other       *)
(* models of the conversation build on, or not at all.                     *)
(***************************************************************************)
HandledAsFSM ==
  [][pc # "idle" /\ pc' = "idle" =>
       IF ~answered' THEN UNCHANGED session
       ELSE [session |-> FSMSession',
             reply   |-> IF outcome.type = "REFUSED" THEN "refused" ELSE "accepted",
             effect  |-> NoEffect]
              \in ProcessMessage(FSMSession, text, [live |-> Products])]_vars

(***************************************************************************)
(* No text keeps a worker for ever: the loop over the model's proposals    *)
(* ends, in a reply or in a failure.                                       *)
(***************************************************************************)
EveryTextEnds == pc # "idle" ~> pc = "idle"
=============================================================================
