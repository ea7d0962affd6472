---------------------------- MODULE AnalyticsProofs ----------------------------
(***************************************************************************)
(* Proofs about Analytics, for any tools, products and texts: what a text  *)
(* may cost, where the context of follow-ups comes from, and that the      *)
(* steps add up to the handlers of ConversationFSM.                        *)
(***************************************************************************)
EXTENDS Analytics, TLAPS

(* The texts that an orchestration is for, and the choices of a product. *)
IsQuestion ==
  /\ ~Override(text)
  /\ AnalyticsEnabled
  /\ IsDigits(text) => session.last # NoCall

IsChoice ==
  /\ ~Override(text)
  /\ Number(text) \in 1..Cardinality(session.candidates)

(* A call is parked, with its candidates, in one state only. *)
SessionInv ==
  /\ Parked <=> session.pending # NoCall
  /\ ~Parked => session.candidates = {}

(* The loop: a call to the provider for each attempt that was begun. *)
LoopInv ==
  /\ pc \in {"ask", "generate", "inspect", "validate"} =>
       ~Parked /\ ~touched /\ IsQuestion
  /\ pc \in {"idle", "ask"} => attempt = 0 /\ calls = 0 /\ ~touched
  /\ pc = "generate" => calls = attempt
  /\ pc \in {"inspect", "validate"} => calls = attempt + 1
  /\ calls <= attempt + 1
  /\ Parked /\ pc # "idle" => calls = 0
  /\ pc = "validate" => response.tool \in Tools

(* The tool that is run is the model's, or the parked one with a candidate. *)
RunInv ==
  pc = "run" =>
    /\ call \in Calls
    /\ IF Parked
       THEN /\ IsChoice
            /\ \E p \in session.candidates : call = [session.pending EXCEPT !.product = p]
       ELSE IsQuestion /\ call.product = NoProduct

(* What is to be settled is what the text and the tool made of it. *)
SettleInv ==
  pc = "settle" =>
    /\ outcome.type = "FLOW_CANCELLED" => Override(text)
    /\ outcome.type = "REFUSED" =>
         /\ ~Override(text)
         /\ IF Parked THEN ~IsChoice
            ELSE ~AnalyticsEnabled \/ IsDigits(text)
    /\ outcome.type # "SESSION_CONTEXT_LOST"
    /\ outcome.type \in OutcomeTypes => IF Parked THEN IsChoice ELSE IsQuestion
    /\ outcome.type \in Answers =>
         /\ outcome.call \in executed
         /\ Parked => \E p \in session.candidates :
                        outcome.call = [session.pending EXCEPT !.product = p]
    /\ outcome.type = "NEEDS_SELECTION" =>
         /\ ~Parked
         /\ outcome.call \in Calls
         /\ outcome.call.tool \in Resolving
         /\ outcome.call.product = NoProduct
         /\ outcome.choices \in Choices([live |-> Products], 5)

AnalyticsInv ==
  /\ TypeOK
  /\ ContextIsExecuted
  /\ SessionInv
  /\ LoopInv
  /\ RunInv
  /\ SettleInv

-----------------------------------------------------------------------------

(* What an outcome is made of. *)
LEMMA OutcomeType ==
  ASSUME NEW type \in OutcomeTypes \union OtherReplies
  PROVE  Outcome(type) \in Outcomes /\ Outcome(type).type = type
BY DEF Outcome, Outcomes

LEMMA NoResponseType == NoResponse \in Responses
BY DEF NoResponse, Responses, Arguments

LEMMA InitInv ==
  ASSUME Init
  PROVE  AnalyticsInv
<1>1. outcome \in Outcomes
  BY OutcomeType DEF Init, OutcomeTypes
<1>2. session = EmptySession /\ ~Parked /\ pc = "idle"
  BY DEF Init, Parked, EmptySession
<1>3. session \in [state : {"IDLE", "ANALYTICS_PRODUCT_SELECTION"},
                  errors : 0..MaxErrors - 1, shop : BOOLEAN,
                  candidates : SUBSET Products,
                  pending : Calls \union {NoCall}, last : Calls \union {NoCall}]
  BY <1>2, FSMAssumption DEF EmptySession
<1>4. response \in Responses
  BY NoResponseType DEF Init
<1>5. TypeOK
  <2>1. pc = "idle" /\ attempt = 0 /\ calls = 0 /\ text = NoText /\ call = NoCall
    BY DEF Init
  <2>2. /\ fresh \in BOOLEAN /\ intact \in BOOLEAN /\ touched \in BOOLEAN
        /\ answered \in BOOLEAN /\ live \subseteq Products /\ executed \subseteq Calls
    BY DEF Init
  <2> QED BY <1>1, <1>3, <1>4, <2>1, <2>2 DEF TypeOK, MaxCounted
<1>6. ContextIsExecuted /\ SessionInv
  BY <1>2 DEF Init, ContextIsExecuted, SessionInv, EmptySession
<1>7. LoopInv /\ RunInv /\ SettleInv
  BY <1>2 DEF Init, LoopInv, RunInv, SettleInv
<1> QED BY <1>5, <1>6, <1>7 DEF AnalyticsInv

(* A chosen product completes the parked call. *)
LEMMA ChosenCall ==
  ASSUME AnalyticsInv, Parked, NEW p \in session.candidates
  PROVE  [session.pending EXCEPT !.product = p] \in Calls
BY DEF AnalyticsInv, SessionInv, TypeOK, Calls

LEMMA ReceiveInv ==
  ASSUME AnalyticsInv, NEW t \in Typed, Receive(t)
  PROVE  AnalyticsInv'
<1> USE DEF AnalyticsInv, Receive
<1>1. \/ /\ Override(t) /\ pc' = "settle" /\ outcome' = Outcome("FLOW_CANCELLED")
         /\ call' = call
      \/ /\ ~Override(t) /\ ~Parked /\ CanRoute(t)
         /\ pc' = "ask" /\ UNCHANGED <<call, outcome>>
      \/ /\ ~Override(t) /\ ~Parked /\ ~CanRoute(t)
         /\ pc' = "settle" /\ outcome' = Outcome("REFUSED") /\ call' = call
      \/ /\ ~Override(t) /\ Parked /\ Number(t) \notin 1..Cardinality(session.candidates)
         /\ pc' = "settle" /\ outcome' = Outcome("REFUSED") /\ call' = call
      \/ /\ ~Override(t) /\ Parked /\ Number(t) \in 1..Cardinality(session.candidates)
         /\ pc' = "run" /\ UNCHANGED outcome
         /\ \E p \in session.candidates : call' = [session.pending EXCEPT !.product = p]
  BY DEF ReceiveIdle, ReceiveChoice, Reply, Conclude, SessionInv
<1>2. outcome' \in Outcomes /\ call' \in Calls \union {NoCall}
  BY <1>1, OutcomeType, ChosenCall DEF TypeOK, OtherReplies
<1>3. TypeOK'
  BY <1>1, <1>2 DEF TypeOK
<1>4. ContextIsExecuted' /\ SessionInv'
  BY DEF ContextIsExecuted, SessionInv, Parked
<1>5. LoopInv'
  BY <1>1 DEF LoopInv, Parked, IsQuestion, CanRoute, ContextIsExecuted, TypeOK
<1>6. RunInv'
  <2> SUFFICES ASSUME pc' = "run" PROVE RunInv'
    BY DEF RunInv
  <2>1. Parked /\ Parked' /\ session' = session /\ text' = t
    BY <1>1 DEF Parked
  <2>2. \E p \in session.candidates : call' = [session.pending EXCEPT !.product = p]
    BY <1>1
  <2>3. call' \in Calls
    BY <2>1, <2>2, ChosenCall
  <2>4. IsChoice'
    BY <1>1, <2>1 DEF IsChoice
  <2> QED BY <2>1, <2>2, <2>3, <2>4 DEF RunInv
<1>7. SettleInv'
  BY <1>1, OutcomeType
     DEF SettleInv, Parked, IsChoice, IsQuestion, CanRoute, OtherReplies, OutcomeTypes,
         Answers, Outcome
<1> QED BY <1>3, <1>4, <1>5, <1>6, <1>7

LEMMA AskInv ==
  ASSUME AnalyticsInv, Ask
  PROVE  AnalyticsInv'
BY DEF AnalyticsInv, Ask, locals, TypeOK, ContextIsExecuted, SessionInv, LoopInv, RunInv,
       SettleInv, Parked, IsQuestion, IsChoice

(* Whatever the provider sends is taken for a response. *)
LEMMA UnderstoodType == Understood \subseteq Responses
<1> SUFFICES ASSUME NEW p \in Payloads, ~Malformed(p)
             PROVE  Normalize(p) \in Responses
  BY DEF Understood
<1>1. Rejected(p.failed) \in Responses
  BY DEF Rejected, Payloads, RawCalls, RawArguments, Responses, Arguments, NoResponse, Proposal
<1>2. [NoResponse EXCEPT !.kind = "many"] \in Responses
  BY DEF Responses, Arguments, NoResponse
<1>3. \A raw \in {p.first, p.second} : raw.tool # NoTool => Proposal(raw) \in Responses
  BY DEF Malformed, Payloads, RawCalls, Responses, Proposal
<1> QED BY <1>1, <1>2, <1>3 DEF Normalize

LEMMA GenerateInv ==
  ASSUME AnalyticsInv, Generate
  PROVE  AnalyticsInv'
<1> USE DEF AnalyticsInv, Generate
<1>0. calls \in 0..1 /\ attempt \in 0..1 /\ calls = attempt
  BY DEF TypeOK, LoopInv
<1>1. /\ calls' \in {calls, calls + 1} /\ calls' \in 0..MaxCounted
      /\ \/ /\ pc' = "inspect" /\ response' \in Responses /\ UNCHANGED outcome
            /\ calls' = attempt + 1
         \/ /\ pc' = "settle" /\ UNCHANGED response
            /\ outcome' \in {Outcome("MALFORMED_RESPONSE"), Outcome("PROVIDER_UNAVAILABLE"),
                             Outcome("INFRASTRUCTURE_FAILURE")}
  BY <1>0, UnderstoodType DEF Conclude, Counted, MaxCounted
<1>2. TypeOK'
  BY <1>1, OutcomeType DEF TypeOK, OutcomeTypes
<1>3. ContextIsExecuted' /\ SessionInv' /\ RunInv'
  BY <1>1 DEF ContextIsExecuted, SessionInv, Parked, RunInv
<1>4. LoopInv'
  BY <1>0, <1>1 DEF LoopInv, Parked, IsQuestion
<1>5. SettleInv'
  BY <1>1, OutcomeType
     DEF SettleInv, LoopInv, Parked, IsChoice, IsQuestion, OutcomeTypes, Answers, Outcome
<1> QED BY <1>2, <1>3, <1>4, <1>5

(* A repair leads back to the model, once. *)
LEMMA RepairStep ==
  ASSUME TypeOK, LoopInv, pc \in {"inspect", "validate"},
         NEW type \in {"INVALID_PROPOSAL", "ARGUMENT_VALIDATION_FAILED"},
         Repair(Outcome(type))
  PROVE  \/ attempt = 0 /\ attempt' = 1 /\ pc' = "generate" /\ UNCHANGED outcome
         \/ pc' = "settle" /\ outcome' = Outcome(type) /\ UNCHANGED attempt
BY DEF Repair, Conclude

LEMMA InspectInv ==
  ASSUME AnalyticsInv, Inspect
  PROVE  AnalyticsInv'
<1> USE DEF AnalyticsInv, Inspect
<1>1. \/ /\ pc' = "settle" /\ outcome' = Outcome("NO_ANALYTICS_INTENT")
         /\ UNCHANGED attempt
      \/ /\ pc' = "validate" /\ response.tool \in Tools /\ UNCHANGED <<attempt, outcome>>
      \/ /\ attempt = 0 /\ attempt' = 1 /\ pc' = "generate" /\ UNCHANGED outcome
      \/ /\ pc' = "settle" /\ outcome' = Outcome("INVALID_PROPOSAL")
         /\ UNCHANGED attempt
  <2>1. response.kind \in {"none", "many", "one"}
    BY DEF TypeOK, Responses
  <2>2. CASE Repair(Outcome("INVALID_PROPOSAL"))
    BY <2>2 DEF Repair, Conclude
  <2>3. CASE response.kind = "none"
    BY <2>3 DEF Conclude
  <2>4. CASE response.kind = "one" /\ response.tool \in Tools
    BY <2>4
  <2> QED BY <2>1, <2>2, <2>3, <2>4
<1>2. response' \in Responses /\ (pc' = "validate" => response' = response)
  BY NoResponseType DEF TypeOK
<1>3. TypeOK'
  BY <1>1, <1>2, OutcomeType DEF TypeOK, OutcomeTypes
<1>4. ContextIsExecuted' /\ SessionInv' /\ RunInv'
  BY <1>1 DEF ContextIsExecuted, SessionInv, Parked, RunInv
<1>5. LoopInv'
  BY <1>1, <1>2 DEF LoopInv, TypeOK, Parked, IsQuestion
<1>6. SettleInv'
  BY <1>1, OutcomeType
     DEF SettleInv, LoopInv, Parked, IsChoice, IsQuestion, OutcomeTypes, Answers, Outcome
<1> QED BY <1>3, <1>4, <1>5, <1>6

LEMMA ValidateInv ==
  ASSUME AnalyticsInv, Validate
  PROVE  AnalyticsInv'
<1> USE DEF AnalyticsInv, Validate
<1>1. \/ /\ pc' = "settle" /\ outcome' = Outcome("DOMAIN_FAILURE")
         /\ UNCHANGED <<attempt, call>>
      \/ /\ pc' = "run" /\ call' = [NoCall EXCEPT !.tool = response.tool]
         /\ UNCHANGED <<attempt, outcome>>
      \/ /\ attempt = 0 /\ attempt' = 1 /\ pc' = "generate" /\ UNCHANGED <<outcome, call>>
      \/ /\ pc' = "settle" /\ outcome' = Outcome("ARGUMENT_VALIDATION_FAILED")
         /\ UNCHANGED <<attempt, call>>
  BY RepairStep DEF Conclude
<1>2. [NoCall EXCEPT !.tool = response.tool] \in Calls
  BY DEF LoopInv, NoCall, Calls
<1>3. TypeOK'
  BY <1>1, <1>2, NoResponseType, OutcomeType DEF TypeOK, OutcomeTypes
<1>4. ContextIsExecuted' /\ SessionInv'
  BY <1>1 DEF ContextIsExecuted, SessionInv, Parked
<1>5. LoopInv'
  BY <1>1 DEF LoopInv, TypeOK, Parked, IsQuestion
<1>6. RunInv'
  BY <1>1, <1>2 DEF RunInv, LoopInv, Parked, IsQuestion, NoCall
<1>7. SettleInv'
  BY <1>1, OutcomeType
     DEF SettleInv, LoopInv, Parked, IsChoice, IsQuestion, OutcomeTypes, Answers, Outcome
<1> QED BY <1>3, <1>4, <1>5, <1>6, <1>7

(* What running a tool comes to. *)
LEMMA RunOutcome ==
  ASSUME AnalyticsInv, RunTool
  PROVE  \/ \E type \in Answers, c \in Calls :
              /\ outcome' = Answer(type, c)
              /\ Parked => c = call
         \/ \E C \in Choices([live |-> Products], 5) :
              /\ ~Parked
              /\ call.tool \in Resolving
              /\ outcome' = [Answer("NEEDS_SELECTION", call) EXCEPT !.choices = C]
         \/ outcome' = Outcome("DOMAIN_FAILURE")
<1> USE DEF AnalyticsInv
<1>1. call \in Calls /\ (call.product = NoProduct => ~Parked) /\ (Parked => call.product \in Products)
  BY FSMAssumption DEF RunTool, RunInv, Calls, TypeOK, SessionInv
<1>2. CASE call.tool \in Resolving /\ RunResolving
  <2>1. CASE outcome' = Answer("ANSWERED", call)
    BY <1>1, <2>1 DEF Answers
  <2>2. Choices([live |-> live], 5) \subseteq Choices([live |-> Products], 5)
    BY DEF Choices, TypeOK
  <2> QED BY <1>1, <1>2, <2>1, <2>2 DEF RunResolving
<1>3. CASE RunReport
  BY <1>1, <1>3 DEF RunReport
<1>4. CASE RunRaising
  BY <1>4 DEF RunRaising
<1> QED BY <1>2, <1>3, <1>4 DEF RunTool

(* The parts of an answer and of a selection. *)
LEMMA AnswerParts ==
  ASSUME NEW type \in Answers \union {"NEEDS_SELECTION"}, NEW c \in Calls,
         NEW C \in SUBSET Products
  PROVE  /\ Answer(type, c) \in Outcomes
         /\ Answer(type, c).type = type /\ Answer(type, c).call = c
         /\ [Answer(type, c) EXCEPT !.choices = C] \in Outcomes
         /\ [Answer(type, c) EXCEPT !.choices = C].type = type
         /\ [Answer(type, c) EXCEPT !.choices = C].call = c
         /\ [Answer(type, c) EXCEPT !.choices = C].choices = C
BY DEF Answer, Outcome, Outcomes, OutcomeTypes

LEMMA RunToolInv ==
  ASSUME AnalyticsInv, RunTool
  PROVE  AnalyticsInv'
<1> USE DEF AnalyticsInv
<1>0. /\ pc = "run" /\ pc' = "settle" /\ touched' = TRUE
      /\ executed' = IF outcome'.type \in Answers
                     THEN executed \union {outcome'.call} ELSE executed
      /\ UNCHANGED <<session, fresh, live, text, attempt, response, call, calls, answered>>
      /\ intact' \in BOOLEAN
  BY DEF RunTool, RunRaising, TypeOK
<1>1. call \in Calls
  BY <1>0 DEF RunInv
<1>2. \/ /\ outcome' \in Outcomes /\ outcome'.type \in Answers /\ outcome'.call \in Calls
         /\ Parked => outcome'.call = call
      \/ /\ outcome' \in Outcomes /\ outcome'.type = "NEEDS_SELECTION"
         /\ ~Parked /\ call.tool \in Resolving /\ outcome'.call = call
         /\ outcome'.choices \in Choices([live |-> Products], 5)
      \/ outcome' \in Outcomes /\ outcome'.type = "DOMAIN_FAILURE"
  <2>1. Choices([live |-> Products], 5) \subseteq SUBSET Products
    BY DEF Choices
  <2>2. Outcome("DOMAIN_FAILURE") \in Outcomes /\ Outcome("DOMAIN_FAILURE").type = "DOMAIN_FAILURE"
    BY OutcomeType DEF OutcomeTypes
  <2>3. ASSUME NEW type \in Answers, NEW c \in Calls,
               outcome' = Answer(type, c), Parked => c = call
        PROVE  <1>2!1
    BY <2>3, AnswerParts
  <2>4. ASSUME NEW C \in Choices([live |-> Products], 5), ~Parked,
               call.tool \in Resolving,
               outcome' = [Answer("NEEDS_SELECTION", call) EXCEPT !.choices = C]
        PROVE  <1>2!2
    <3>1. C \in SUBSET Products
      BY <2>1
    <3> QED BY <1>1, <2>4, <3>1, AnswerParts
  <2>5. ASSUME outcome' = Outcome("DOMAIN_FAILURE")
        PROVE  <1>2!3
    BY <2>2, <2>5
  <2> QED BY <2>3, <2>4, <2>5, RunOutcome
<1>3. TypeOK'
  <2>1. outcome' \in Outcomes /\ executed' \subseteq Calls
    BY <1>0, <1>2 DEF TypeOK, Answers
  <2> QED BY <1>0, <2>1 DEF TypeOK
<1>4. ContextIsExecuted' /\ SessionInv'
  BY <1>0 DEF ContextIsExecuted, SessionInv, Parked
<1>5. LoopInv' /\ RunInv'
  BY <1>0 DEF LoopInv, RunInv, Parked
<1>6. SettleInv'
  <2>1. Parked' = Parked /\ IsChoice' = IsChoice /\ IsQuestion' = IsQuestion
    BY <1>0 DEF Parked, IsChoice, IsQuestion
  <2>2. outcome'.type \in OutcomeTypes \ {"FLOW_CANCELLED", "REFUSED", "SESSION_CONTEXT_LOST"}
    BY <1>2 DEF OutcomeTypes, Answers
  <2>3. IF Parked THEN IsChoice ELSE IsQuestion /\ call.product = NoProduct
    BY <1>0 DEF RunInv
  <2>4. outcome'.type \in Answers =>
          /\ outcome'.call \in executed'
          /\ Parked => \E p \in session.candidates :
                         outcome'.call = [session.pending EXCEPT !.product = p]
    BY <1>0, <1>2 DEF RunInv, Answers
  <2>5. outcome'.type = "NEEDS_SELECTION" =>
          /\ ~Parked
          /\ outcome'.call \in Calls
          /\ outcome'.call.tool \in Resolving
          /\ outcome'.call.product = NoProduct
          /\ outcome'.choices \in Choices([live |-> Products], 5)
    BY <1>1, <1>2, <2>3 DEF Answers
  <2> QED BY <1>0, <2>1, <2>2, <2>3, <2>4, <2>5 DEF SettleInv
<1> QED BY <1>3, <1>4, <1>5, <1>6

-----------------------------------------------------------------------------
(* The session that is saved *)

LEMMA NoCallOpen == NoCall \notin Calls
BY AnalyticsAssumption DEF NoCall, Calls

SessionType ==
  [state : {"IDLE", "ANALYTICS_PRODUCT_SELECTION"}, errors : 0..MaxErrors - 1,
   shop : BOOLEAN, candidates : SUBSET Products, pending : Calls \union {NoCall},
   last : Calls \union {NoCall}]

(* A session that nothing is parked in. *)
OpenSession(s) ==
  /\ s \in SessionType
  /\ s.state = "IDLE"
  /\ s.pending = NoCall
  /\ s.candidates = {}

LEMMA ClearedOpen ==
  ASSUME TypeOK
  PROVE  OpenSession(Cleared) /\ Cleared.last = NoCall
BY FSMAssumption DEF TypeOK, Cleared, EmptySession, OpenSession, SessionType

(* What each case of NextSession makes of the session. *)
LEMMA SavedRefusal ==
  ASSUME AnalyticsInv
  PROVE  \/ AfterRefusal = Cleared
         \/ /\ AfterRefusal = [session EXCEPT !.errors = @ + 1]
            /\ AfterRefusal \in SessionType
<1>1. session \in SessionType /\ MaxErrors \in Nat \ {0}
  BY FSMAssumption DEF AnalyticsInv, TypeOK, SessionType
<1>2. CASE session.errors + 1 >= MaxErrors
  BY <1>2 DEF AfterRefusal
<1>3. CASE ~(session.errors + 1 >= MaxErrors)
  <2>1. session.errors \in 0..MaxErrors - 1
    BY <1>1 DEF SessionType
  <2>2. session.errors + 1 \in 0..MaxErrors - 1
    BY <1>1, <1>3, <2>1
  <2> QED BY <1>1, <1>3, <2>2 DEF AfterRefusal, SessionType
<1> QED BY <1>2, <1>3

LEMMA SavedChoice ==
  ASSUME AnalyticsInv, pc = "settle", Parked, outcome.type \in OutcomeTypes
  PROVE  /\ OpenSession(AfterChoice(outcome))
         /\ AfterChoice(outcome).last = IF outcome.type \in Answers THEN outcome.call
                                        ELSE session.last
<1>1. session \in SessionType /\ 0 \in 0..MaxErrors - 1
  BY FSMAssumption DEF AnalyticsInv, TypeOK, SessionType
<1>2. outcome.type \in Answers => outcome.call \in Calls
  BY DEF AnalyticsInv, SettleInv, TypeOK
<1> QED BY <1>1, <1>2 DEF AfterChoice, OpenSession, SessionType

LEMMA SavedQuestion ==
  ASSUME AnalyticsInv, pc = "settle", ~Parked, outcome.type \in OutcomeTypes
  PROVE  LET s == AfterQuestion(outcome) IN
         \/ /\ outcome.type = "NEEDS_SELECTION"
            /\ s \in SessionType
            /\ s.state = "ANALYTICS_PRODUCT_SELECTION"
            /\ s.pending = outcome.call /\ s.candidates = outcome.choices
            /\ s.last = session.last
         \/ /\ outcome.type \in Answers
            /\ OpenSession(s)
            /\ s.last = outcome.call
         \/ /\ outcome.type \notin Answers \union {"NEEDS_SELECTION"}
            /\ OpenSession(s)
            /\ s.last = session.last
<1>1. /\ session \in SessionType /\ 0 \in 0..MaxErrors - 1
      /\ session.state = "IDLE" /\ session.pending = NoCall /\ session.candidates = {}
  BY FSMAssumption DEF AnalyticsInv, TypeOK, SessionType, SessionInv, Parked
<1>2. CASE outcome.type = "NEEDS_SELECTION"
  <2>1. outcome.call \in Calls /\ outcome.choices \in SUBSET Products
    BY <1>2 DEF AnalyticsInv, SettleInv, Choices
  <2>2. AfterQuestion(outcome)
          = [session EXCEPT !.errors = 0, !.shop = TRUE,
                            !.state = "ANALYTICS_PRODUCT_SELECTION",
                            !.candidates = outcome.choices, !.pending = outcome.call]
    BY <1>1, <1>2 DEF AfterQuestion, SessionType, Answers
  <2> QED BY <1>1, <1>2, <2>1, <2>2 DEF SessionType
<1>3. CASE outcome.type \in Answers
  <2>1. outcome.call \in Calls /\ outcome.type # "NEEDS_SELECTION"
    BY <1>3 DEF AnalyticsInv, SettleInv, TypeOK, Answers
  <2> QED BY <1>1, <1>3, <2>1 DEF AfterQuestion, OpenSession, SessionType
<1>4. CASE outcome.type \notin Answers \union {"NEEDS_SELECTION"}
  BY <1>1, <1>4 DEF AfterQuestion, OpenSession, SessionType
<1> QED BY <1>2, <1>3, <1>4

(* So the next session is well typed, open or parked with what it needs,   *)
(* and its prior call is the old one, none, or the call that was answered. *)
LEMMA SavedSession ==
  ASSUME AnalyticsInv, pc = "settle", NEW s, s = NextSession(outcome)
  PROVE  /\ s \in SessionType
         /\ \/ OpenSession(s)
            \/ s.state = session.state /\ s.pending = session.pending
               /\ s.candidates = session.candidates
            \/ /\ s.state = "ANALYTICS_PRODUCT_SELECTION"
               /\ outcome.type = "NEEDS_SELECTION"
               /\ s.pending = outcome.call /\ s.candidates = outcome.choices
         /\ IF outcome.type \in Answers THEN s.last = outcome.call
            ELSE \/ s.last = session.last
                 \/ s.last = NoCall /\ outcome.type \in OtherReplies
<1>0. outcome.type \in OutcomeTypes \union OtherReplies
  BY DEF AnalyticsInv, TypeOK, Outcomes
<1>1. CASE outcome.type \in {"FLOW_CANCELLED", "SESSION_CONTEXT_LOST"}
  <2>1. s = Cleared /\ outcome.type \in OtherReplies /\ outcome.type \notin Answers
    BY <1>1 DEF NextSession, OtherReplies, OutcomeTypes, Answers
  <2> QED BY <2>1, ClearedOpen DEF AnalyticsInv, OpenSession
<1>2. CASE outcome.type = "REFUSED"
  <2>1. s = AfterRefusal /\ outcome.type \in OtherReplies /\ outcome.type \notin Answers
    BY <1>2 DEF NextSession, OtherReplies, OutcomeTypes, Answers
  <2>2. CASE AfterRefusal = Cleared
    BY <2>1, <2>2, ClearedOpen DEF AnalyticsInv, OpenSession
  <2>3. CASE /\ AfterRefusal = [session EXCEPT !.errors = @ + 1]
             /\ AfterRefusal \in SessionType
    BY <2>1, <2>3 DEF SessionType, AnalyticsInv, TypeOK
  <2> QED BY <2>2, <2>3, SavedRefusal
<1>3. CASE outcome.type \in OutcomeTypes
  <2>1. outcome.type \notin {"FLOW_CANCELLED", "SESSION_CONTEXT_LOST", "REFUSED"}
    BY <1>3 DEF OutcomeTypes, Answers
  <2>2. CASE Parked
    <3>1. s = AfterChoice(outcome)
      BY <1>3, <2>1, <2>2 DEF NextSession
    <3> QED BY <1>3, <2>2, <3>1, SavedChoice DEF OpenSession
  <2>3. CASE ~Parked
    <3>1. s = AfterQuestion(outcome)
      BY <1>3, <2>1, <2>3 DEF NextSession
    <3>2. "NEEDS_SELECTION" \notin Answers
      BY DEF Answers
    <3> QED BY <1>3, <2>3, <3>1, <3>2, SavedQuestion DEF OpenSession
  <2> QED BY <2>2, <2>3
<1> QED BY <1>0, <1>1, <1>2, <1>3 DEF OtherReplies

LEMMA SettleStepInv ==
  ASSUME AnalyticsInv, Settle
  PROVE  AnalyticsInv'
<1>1. /\ pc = "settle" /\ pc' = "idle" /\ session' = NextSession(outcome)
      /\ attempt' = 0 /\ calls' = 0 /\ touched' = FALSE /\ executed' = executed
  BY DEF Settle, Forget
<1>2. session' \in SessionType
  BY <1>1, SavedSession
<1>3. outcome.type \in Answers => outcome.call \in executed /\ outcome.call # NoCall
  BY <1>1, NoCallOpen DEF AnalyticsInv, SettleInv, TypeOK
<1>4. TypeOK'
  <2>1. response' \in Responses /\ outcome' \in Outcomes
    BY NoResponseType, OutcomeType DEF Settle, Forget, OutcomeTypes
  <2>2. fresh' \in BOOLEAN
    BY DEF Settle, AnalyticsInv, TypeOK
  <2>3. /\ text' = NoText /\ call' = NoCall /\ intact' = TRUE /\ answered' = TRUE
        /\ live' = live
    BY DEF Settle, Forget
  <2>4. executed' \subseteq Calls /\ live' \subseteq Products
    BY <1>1, <2>3 DEF AnalyticsInv, TypeOK
  <2>5. calls' \in 0..MaxCounted /\ attempt' \in 0..1
    BY <1>1 DEF MaxCounted
  <2> QED BY <1>1, <1>2, <2>1, <2>2, <2>3, <2>4, <2>5 DEF TypeOK, SessionType
<1>5. /\ session'.last # NoCall => session'.last \in executed
      /\ fresh' => session'.last # NoCall
  <2>1. IF outcome.type \in Answers THEN session'.last = outcome.call
        ELSE session'.last \in {session.last, NoCall}
    BY <1>1, SavedSession
  <2> QED BY <1>3, <2>1 DEF AnalyticsInv, ContextIsExecuted, Settle
<1>6. \/ OpenSession(session')
      \/ session'.state = session.state /\ session'.pending = session.pending
         /\ session'.candidates = session.candidates
      \/ /\ session'.state = "ANALYTICS_PRODUCT_SELECTION"
         /\ outcome.type = "NEEDS_SELECTION"
         /\ session'.pending = outcome.call /\ session'.candidates = outcome.choices
  BY <1>1, SavedSession
<1>7. outcome.type = "NEEDS_SELECTION" =>
        /\ outcome.call \in Calls
        /\ outcome.call.tool \in Resolving
        /\ outcome.call.product = NoProduct
        /\ outcome.choices # {}
  BY <1>1 DEF AnalyticsInv, SettleInv, Choices
<1>8. ContextIsExecuted' /\ SessionInv'
  BY <1>1, <1>5, <1>6, <1>7, NoCallOpen
     DEF AnalyticsInv, ContextIsExecuted, SessionInv, Parked, OpenSession
<1>9. LoopInv' /\ RunInv' /\ SettleInv'
  BY <1>1 DEF LoopInv, RunInv, SettleInv
<1> QED BY <1>4, <1>8, <1>9 DEF AnalyticsInv

LEMMA FailInv ==
  ASSUME AnalyticsInv, Fail
  PROVE  AnalyticsInv'
<1>1. response' \in Responses /\ outcome' \in Outcomes
  BY NoResponseType, OutcomeType DEF Fail, Forget, OutcomeTypes
<1>2. /\ pc' = "idle" /\ text' = NoText /\ attempt' = 0 /\ call' = NoCall
      /\ intact' = TRUE /\ calls' = 0 /\ touched' = FALSE /\ answered' = FALSE
      /\ UNCHANGED <<session, fresh, live, executed>>
  BY DEF Fail, Forget
<1>3. TypeOK'
  <2>1. session' \in SessionType /\ fresh' \in BOOLEAN
    BY <1>2 DEF AnalyticsInv, TypeOK, SessionType
  <2>2. executed' \subseteq Calls /\ live' \subseteq Products
    BY <1>2 DEF AnalyticsInv, TypeOK
  <2>3. calls' \in 0..MaxCounted /\ attempt' \in 0..1
    BY <1>2 DEF MaxCounted
  <2> QED BY <1>1, <1>2, <2>1, <2>2, <2>3 DEF TypeOK, SessionType
<1> QED BY <1>2, <1>3 DEF AnalyticsInv, ContextIsExecuted, SessionInv, Parked,
                          LoopInv, RunInv, SettleInv

(* Time, other requests, and the session's end *)
LEMMA OutsideInv ==
  ASSUME AnalyticsInv, Age \/ Elsewhere \/ UNCHANGED vars
  PROVE  AnalyticsInv'
<1>1. /\ UNCHANGED <<session, pc, executed, answered>>
      /\ UNCHANGED locals
      /\ fresh' \in BOOLEAN /\ (fresh' => fresh)
      /\ live' \subseteq Products
  <2>1. fresh \in BOOLEAN /\ live \subseteq Products
    BY DEF AnalyticsInv, TypeOK
  <2>2. CASE Age
    BY <2>1, <2>2 DEF Age, locals
  <2>3. CASE Elsewhere
    BY <2>1, <2>3 DEF Elsewhere, locals
  <2>4. CASE UNCHANGED vars
    BY <2>1, <2>4 DEF vars, locals
  <2> QED BY <2>2, <2>3, <2>4
<1>2. TypeOK'
  BY <1>1 DEF AnalyticsInv, TypeOK, locals
<1>3. ContextIsExecuted' /\ SessionInv' /\ LoopInv'
  BY <1>1 DEF AnalyticsInv, ContextIsExecuted, SessionInv, LoopInv, Parked, IsQuestion, locals
<1>4. RunInv' /\ SettleInv'
  BY <1>1 DEF AnalyticsInv, RunInv, SettleInv, Parked, IsQuestion, IsChoice, locals
<1> QED BY <1>2, <1>3, <1>4 DEF AnalyticsInv

LEMMA ExpireInv ==
  ASSUME AnalyticsInv, Expire
  PROVE  AnalyticsInv'
<1>1. EmptySession \in SessionType
  BY FSMAssumption DEF EmptySession, SessionType
<1>2. TypeOK'
  BY <1>1 DEF AnalyticsInv, TypeOK, Expire, locals, SessionType
<1> QED BY <1>2 DEF AnalyticsInv, Expire, locals, ContextIsExecuted, SessionInv, Parked,
                    EmptySession, LoopInv, RunInv, SettleInv

LEMMA NextInv ==
  ASSUME AnalyticsInv, [Next]_vars
  PROVE  AnalyticsInv'
<1>1. CASE \E t \in Typed : Receive(t)
  BY <1>1, ReceiveInv
<1>2. CASE Step
  BY <1>2, AskInv, GenerateInv, InspectInv, ValidateInv, RunToolInv, SettleStepInv DEF Step
<1>3. CASE Fail
  BY <1>3, FailInv
<1>4. CASE Age \/ Elsewhere \/ UNCHANGED vars
  BY <1>4, OutsideInv
<1>5. CASE Expire
  BY <1>5, ExpireInv
<1> QED BY <1>1, <1>2, <1>3, <1>4, <1>5 DEF Next

-----------------------------------------------------------------------------

THEOREM AnalyticsInductive == Spec => []AnalyticsInv
<1>1. Init => AnalyticsInv
  BY InitInv
<1>2. AnalyticsInv /\ [Next]_vars => AnalyticsInv'
  BY NextInv
<1> QED BY <1>1, <1>2, PTL DEF Spec

(* Whatever the model sends, the worker's state is one that it expects. *)
THEOREM AnalyticsTyped == Spec => []TypeOK
<1>1. AnalyticsInv => TypeOK
  BY DEF AnalyticsInv
<1> QED BY <1>1, AnalyticsInductive, PTL

(***************************************************************************)
(* A text costs two calls to the provider at most, and none is made after  *)
(* a tool has run: one for each attempt of the orchestrator's loop.        *)
(***************************************************************************)
THEOREM ExposureBounded == Spec => []BoundedExposure
<1>1. AnalyticsInv => BoundedExposure
  BY DEF AnalyticsInv, TypeOK, MaxCounted, LoopInv, BoundedExposure
<1> QED BY <1>1, AnalyticsInductive, PTL

(* A follow-up builds on a call that a handler of the tools has answered. *)
THEOREM ContextExecuted == Spec => []ContextIsExecuted
<1>1. AnalyticsInv => ContextIsExecuted
  BY DEF AnalyticsInv
<1> QED BY <1>1, AnalyticsInductive, PTL

(***************************************************************************)
(* Only an answer replaces the prior call, and nothing but the end of the  *)
(* session or of the flow takes it away: no failure does.                  *)
(***************************************************************************)
THEOREM FailureKeeps == Spec => FailureKeepsContext
<1> DEFINE Kept ==
      session'.last # session.last =>
        \/ session'.last = NoCall /\ (pc = "idle" \/ outcome.type \in OtherReplies)
        \/ /\ answered' /\ outcome.type \in Answers
           /\ Parked => \E p \in session.candidates :
                          session'.last = [session.pending EXCEPT !.product = p]
<1>1. ASSUME AnalyticsInv, [Next]_vars
      PROVE  Kept
  <2>1. CASE Settle
    <3>1. pc = "settle" /\ session' = NextSession(outcome) /\ answered'
      BY <2>1 DEF Settle
    <3>2. IF outcome.type \in Answers THEN session'.last = outcome.call
          ELSE \/ session'.last = session.last
               \/ session'.last = NoCall /\ outcome.type \in OtherReplies
      BY <1>1, <3>1, SavedSession
    <3>3. outcome.type \in Answers /\ Parked =>
            \E p \in session.candidates :
              outcome.call = [session.pending EXCEPT !.product = p]
      BY <1>1, <3>1 DEF AnalyticsInv, SettleInv
    <3> QED BY <3>1, <3>2, <3>3
  <2>2. CASE Expire
    BY <2>2 DEF Expire, EmptySession
  <2>3. CASE UNCHANGED session
    BY <2>3
  <2> QED BY <1>1, <2>1, <2>2, <2>3
          DEF Next, Step, Receive, Ask, Generate, Inspect, Validate, RunTool, Fail, Age,
              Elsewhere, vars
<1>2. AnalyticsInv /\ [Next]_vars => [Kept]_vars
  BY <1>1
<1> QED BY <1>2, AnalyticsInductive, PTL DEF Spec, FailureKeepsContext

-----------------------------------------------------------------------------
(* The steps of a text add up to the handler of ConversationFSM *)

View(s) ==
  [NewSession EXCEPT !.state = s.state, !.errors = s.errors, !.shop = s.shop,
                     !.candidates = s.candidates, !.pending = s.pending # NoCall,
                     !.prior = s.last # NoCall]

(* Two sessions are one when their parts are. *)
LEMMA SameSession ==
  ASSUME NEW r \in Sessions, NEW q \in Sessions,
         r.state = q.state, r.errors = q.errors, r.shop = q.shop,
         r.product = q.product, r.name = q.name, r.price = q.price, r.qty = q.qty,
         r.candidates = q.candidates, r.pending = q.pending, r.prior = q.prior
  PROVE  r = q
BY DEF Sessions

LEMMA ViewType ==
  ASSUME NEW s \in SessionType
  PROVE  /\ View(s) \in Sessions
         /\ View(s).state = s.state /\ View(s).errors = s.errors
         /\ View(s).shop = s.shop /\ View(s).candidates = s.candidates
         /\ View(s).pending = (s.pending # NoCall) /\ View(s).prior = (s.last # NoCall)
         /\ View(s).product = NoProduct /\ View(s).name = FALSE
         /\ View(s).price = FALSE /\ View(s).qty = NoQty
BY DEF View, NewSession, Sessions, SessionStates, SessionType

LEMMA ClearedView ==
  ASSUME session \in SessionType
  PROVE  /\ View(Cleared) = Clear(View(session))
         /\ [Clear(View(session)) EXCEPT !.errors = 0] = Clear(View(session))
<1> DEFINE c == Clear(View(session))
<1>1. Cleared \in SessionType
  BY FSMAssumption DEF Cleared, EmptySession, SessionType
<1>2. /\ Cleared.state = "IDLE" /\ Cleared.errors = 0 /\ Cleared.shop = session.shop
      /\ Cleared.candidates = {}
      /\ (Cleared.pending # NoCall) = FALSE /\ (Cleared.last # NoCall) = FALSE
  BY DEF Cleared, EmptySession
<1>3. /\ c \in Sessions /\ c.state = "IDLE" /\ c.errors = 0 /\ c.shop = session.shop
      /\ c.product = NoProduct /\ c.name = FALSE /\ c.price = FALSE /\ c.qty = NoQty
      /\ c.candidates = {} /\ c.pending = FALSE /\ c.prior = FALSE
  <2>1. View(session).shop = session.shop /\ View(session).shop \in BOOLEAN
    BY ViewType DEF Sessions
  <2>2. 0 \in 0..MaxErrors - 1
    BY FSMAssumption
  <2> QED BY <2>1, <2>2 DEF Clear, NewSession, Sessions, SessionStates
<1>4. View(Cleared) = c
  BY <1>1, <1>2, <1>3, ViewType, SameSession
<1>5. [c EXCEPT !.errors = 0] = c
  BY <1>3 DEF Sessions
<1> QED BY <1>4, <1>5

LEMMA RefusalView ==
  ASSUME AnalyticsInv
  PROVE  [session |-> View(AfterRefusal), reply |-> "refused", effect |-> NoEffect]
           = Refused(View(session))
<1>0. session \in SessionType
  BY DEF AnalyticsInv, TypeOK, SessionType
<1>1. View(session) \in Sessions /\ View(session).errors = session.errors
  BY <1>0, ViewType
<1>2. CASE session.errors + 1 >= MaxErrors
  <2>1. View(AfterRefusal) = Clear(View(session))
    BY <1>0, <1>2, ClearedView DEF AfterRefusal
  <2> QED BY <1>1, <1>2, <2>1 DEF Refused
<1>3. CASE ~(session.errors + 1 >= MaxErrors)
  <2> DEFINE s == [session EXCEPT !.errors = @ + 1]
             q == [View(session) EXCEPT !.errors = @ + 1]
  <2>1. AfterRefusal = s
    BY <1>3 DEF AfterRefusal
  <2>2. session.errors + 1 \in 0..MaxErrors - 1
    BY <1>0, <1>3, FSMAssumption DEF SessionType
  <2>3. s \in SessionType /\ q \in Sessions
    BY <1>0, <1>1, <2>2 DEF SessionType, Sessions
  <2>4. View(s) = q
    <3>1. /\ s.state = session.state /\ s.errors = session.errors + 1
          /\ s.shop = session.shop /\ s.candidates = session.candidates
          /\ s.pending = session.pending /\ s.last = session.last
      BY <1>0 DEF SessionType
    <3>2. /\ q.state = View(session).state /\ q.errors = session.errors + 1
          /\ q.shop = View(session).shop /\ q.product = View(session).product
          /\ q.name = View(session).name /\ q.price = View(session).price
          /\ q.qty = View(session).qty /\ q.candidates = View(session).candidates
          /\ q.pending = View(session).pending /\ q.prior = View(session).prior
      BY <1>1 DEF Sessions
    <3>3. /\ View(s) \in Sessions
          /\ View(s).state = q.state /\ View(s).errors = q.errors /\ View(s).shop = q.shop
          /\ View(s).product = q.product /\ View(s).name = q.name
          /\ View(s).price = q.price /\ View(s).qty = q.qty
          /\ View(s).candidates = q.candidates /\ View(s).pending = q.pending
          /\ View(s).prior = q.prior
      <4>1. /\ View(s).state = session.state /\ View(s).errors = session.errors + 1
            /\ View(s).shop = session.shop /\ View(s).candidates = session.candidates
            /\ View(s).pending = (session.pending # NoCall)
            /\ View(s).prior = (session.last # NoCall)
            /\ View(s).product = NoProduct /\ View(s).name = FALSE
            /\ View(s).price = FALSE /\ View(s).qty = NoQty /\ View(s) \in Sessions
        BY <2>3, <3>1, ViewType
      <4>2. /\ q.state = session.state /\ q.shop = session.shop
            /\ q.candidates = session.candidates
            /\ q.pending = (session.pending # NoCall) /\ q.prior = (session.last # NoCall)
            /\ q.product = NoProduct /\ q.name = FALSE
            /\ q.price = FALSE /\ q.qty = NoQty
        BY <1>0, <3>2, ViewType
      <4> QED BY <3>2, <4>1, <4>2
    <3> QED BY <2>3, <3>3, SameSession
  <2> QED BY <1>1, <1>3, <2>1, <2>4 DEF Refused
<1> QED BY <1>2, <1>3

(* The texts of the merchant are no other flow's. *)
LEMMA TextUnknown ==
  ASSUME TypeOK
  PROVE  IntentOf(text) = "UNKNOWN"
<1>1. CASE text \in Typed
  BY <1>1, AnalyticsAssumption
<1>2. CASE text = NoText
  BY <1>2 DEF NoText, IntentOf
<1> QED BY <1>1, <1>2 DEF TypeOK

LEMMA RefusedAsFSM ==
  ASSUME AnalyticsInv, pc = "settle", outcome.type = "REFUSED"
  PROVE  Refused(View(session)) \in ProcessMessage(View(session), text, [live |-> Products])
<1> DEFINE F == View(session)
           shelf == [live |-> Products]
<1>1. F.state = session.state /\ F.candidates = session.candidates
  BY DEF View, NewSession
<1>2. ~Override(text)
  BY DEF AnalyticsInv, SettleInv
<1>3. CASE Parked
  <2>1. ~ValidChoice(F, text)
    BY <1>1, <1>2, <1>3 DEF AnalyticsInv, SettleInv, IsChoice, ValidChoice
  <2>2. ProcessMessage(F, text, shelf) = HandleProductSelection(F, text)
    BY <1>1, <1>2, <1>3 DEF ProcessMessage, Parked
  <2> QED BY <2>1, <2>2 DEF HandleProductSelection
<1>4. CASE ~Parked
  <2>1. ~AnalyticsEnabled \/ IsDigits(text)
    BY <1>4 DEF AnalyticsInv, SettleInv
  <2>2. F.state = "IDLE"
    BY <1>1, <1>4 DEF AnalyticsInv, TypeOK, Parked
  <2>3. ProcessMessage(F, text, shelf) = HandleIdle(F, text, shelf)
    BY <1>2, <2>2 DEF ProcessMessage
  <2>4. HandleIdle(F, text, shelf) = HandleUnknown(F, text, shelf)
    BY TextUnknown DEF HandleIdle, AnalyticsInv
  <2> QED BY <2>1, <2>3, <2>4 DEF HandleUnknown
<1> QED BY <1>3, <1>4

LEMMA ChoiceAsFSM ==
  ASSUME AnalyticsInv, pc = "settle", Parked, outcome.type \in OutcomeTypes
  PROVE  [session |-> View(AfterChoice(outcome)), reply |-> "accepted", effect |-> NoEffect]
           \in ProcessMessage(View(session), text, [live |-> Products])
<1> DEFINE F == View(session)
           over == [In(F, "IDLE") EXCEPT !.pending = FALSE, !.candidates = {}]
<1>1. /\ F.state = session.state /\ F.candidates = session.candidates /\ F.pending
  BY DEF View, NewSession, AnalyticsInv, SessionInv
<1>2. IsChoice
  BY DEF AnalyticsInv, SettleInv
<1>3. ~Override(text) /\ ValidChoice(F, text)
  BY <1>1, <1>2 DEF IsChoice, ValidChoice
<1>4. ProcessMessage(F, text, [live |-> Products]) = {Moved(over), Moved([over EXCEPT !.prior = TRUE])}
  <2>1. ProcessMessage(F, text, [live |-> Products]) = HandleProductSelection(F, text)
    BY <1>1, <1>3 DEF ProcessMessage, Parked
  <2> QED BY <1>1, <1>3, <2>1 DEF HandleProductSelection
<1>5. /\ AfterChoice(outcome).state = "IDLE" /\ AfterChoice(outcome).errors = 0
      /\ AfterChoice(outcome).candidates = {} /\ AfterChoice(outcome).pending = NoCall
      /\ AfterChoice(outcome).shop = session.shop
      /\ AfterChoice(outcome).last = IF outcome.type \in Answers THEN outcome.call
                                     ELSE session.last
  BY DEF AfterChoice, AnalyticsInv, TypeOK
<1>6. outcome.type \in Answers => outcome.call # NoCall
  BY NoCallOpen DEF AnalyticsInv, SettleInv, TypeOK
<1>7. \/ View(AfterChoice(outcome)) = [over EXCEPT !.errors = 0]
      \/ View(AfterChoice(outcome)) = [[over EXCEPT !.prior = TRUE] EXCEPT !.errors = 0]
  BY <1>5, <1>6 DEF View, NewSession, In
<1> QED BY <1>4, <1>7 DEF Moved, Accepted

LEMMA QuestionAsFSM ==
  ASSUME AnalyticsInv, pc = "settle", ~Parked, outcome.type \in OutcomeTypes
  PROVE  [session |-> View(AfterQuestion(outcome)), reply |-> "accepted", effect |-> NoEffect]
           \in ProcessMessage(View(session), text, [live |-> Products])
<1> DEFINE F == View(session)
           shelf == [live |-> Products]
           inShop == [F EXCEPT !.shop = TRUE]
           s == AfterQuestion(outcome)
<1>1. F.state = "IDLE" /\ F.prior = (session.last # NoCall)
  BY DEF View, NewSession, AnalyticsInv, TypeOK, Parked
<1>2. IsQuestion
  BY DEF AnalyticsInv, SettleInv
<1>3. ProcessMessage(F, text, shelf) = HandleUnknown(F, text, shelf)
  <2>1. ProcessMessage(F, text, shelf) = HandleIdle(F, text, shelf)
    BY <1>1, <1>2 DEF ProcessMessage, IsQuestion
  <2> QED BY <2>1, TextUnknown DEF HandleIdle, AnalyticsInv
<1>4. HandleQuery(F, shelf) \subseteq HandleUnknown(F, text, shelf)
  BY <1>1, <1>2 DEF HandleUnknown, IsQuestion
<1>5. /\ s.errors = 0 /\ s.shop = TRUE
      /\ outcome.type # "NEEDS_SELECTION" =>
           /\ s.state = "IDLE" /\ s.candidates = {} /\ s.pending = NoCall
           /\ s.last = IF outcome.type \in Answers THEN outcome.call ELSE session.last
      /\ outcome.type = "NEEDS_SELECTION" =>
           /\ s.state = "ANALYTICS_PRODUCT_SELECTION" /\ s.candidates = outcome.choices
           /\ s.pending = outcome.call /\ s.last = session.last
  BY DEF AfterQuestion, AnalyticsInv, TypeOK, SessionInv, Parked, Answers
<1>6. /\ outcome.type \in Answers => outcome.call # NoCall
      /\ outcome.type = "NEEDS_SELECTION" =>
           outcome.call # NoCall /\ outcome.choices \in Choices(shelf, 5)
  BY NoCallOpen DEF AnalyticsInv, SettleInv, TypeOK
<1>7. CASE outcome.type = "NEEDS_SELECTION"
  <2>1. View(s) = [inShop EXCEPT !.state = "ANALYTICS_PRODUCT_SELECTION",
                                 !.candidates = outcome.choices, !.pending = TRUE,
                                 !.errors = 0]
    BY <1>5, <1>6, <1>7 DEF View, NewSession
  <2>2. Moved([inShop EXCEPT !.state = "ANALYTICS_PRODUCT_SELECTION",
                             !.candidates = outcome.choices, !.pending = TRUE])
          \in HandleQuery(F, shelf)
    BY <1>6, <1>7 DEF HandleQuery
  <2>3. Moved([inShop EXCEPT !.state = "ANALYTICS_PRODUCT_SELECTION",
                             !.candidates = outcome.choices, !.pending = TRUE])
          = [session |-> View(s), reply |-> "accepted", effect |-> NoEffect]
    BY <2>1 DEF Moved, Accepted
  <2> QED BY <1>3, <1>4, <2>2, <2>3
<1>8. CASE outcome.type # "NEEDS_SELECTION"
  <2>1. /\ session.state = "IDLE" /\ session.candidates = {}
        /\ (session.pending # NoCall) = FALSE /\ (s.pending # NoCall) = FALSE
        /\ \/ (s.last # NoCall) = TRUE
           \/ (s.last # NoCall) = (session.last # NoCall)
    BY <1>5, <1>6, <1>8 DEF AnalyticsInv, SessionInv, TypeOK, Parked
  <2> DEFINE x == [inShop EXCEPT !.errors = 0]
             y == [[inShop EXCEPT !.prior = TRUE] EXCEPT !.errors = 0]
  <2>2. session \in SessionType /\ s \in SessionType
    BY <1>8, SavedQuestion DEF AnalyticsInv, TypeOK, SessionType, OpenSession
  <2>3. /\ F \in Sessions /\ F.candidates = {} /\ F.pending = FALSE
        /\ F.product = NoProduct /\ F.name = FALSE /\ F.price = FALSE /\ F.qty = NoQty
    BY <2>1, <2>2, ViewType
  <2>0. 0 \in 0..MaxErrors - 1
    BY FSMAssumption
  <2>4. /\ x \in Sessions /\ x.state = "IDLE" /\ x.errors = 0 /\ x.shop = TRUE
        /\ x.product = NoProduct /\ x.name = FALSE /\ x.price = FALSE /\ x.qty = NoQty
        /\ x.candidates = {} /\ x.pending = FALSE /\ x.prior = F.prior
    BY <1>1, <2>0, <2>3 DEF Sessions
  <2>5. /\ y \in Sessions /\ y.state = "IDLE" /\ y.errors = 0 /\ y.shop = TRUE
        /\ y.product = NoProduct /\ y.name = FALSE /\ y.price = FALSE /\ y.qty = NoQty
        /\ y.candidates = {} /\ y.pending = FALSE /\ y.prior = TRUE
    BY <1>1, <2>0, <2>3 DEF Sessions
  <2>6. View(s) = x \/ View(s) = y
    <3>0. /\ View(s) \in Sessions
          /\ View(s).state = "IDLE" /\ View(s).errors = 0 /\ View(s).shop = TRUE
          /\ View(s).candidates = {} /\ View(s).pending = FALSE
          /\ View(s).product = NoProduct /\ View(s).name = FALSE
          /\ View(s).price = FALSE /\ View(s).qty = NoQty
      BY <1>5, <1>8, <2>1, <2>2, ViewType
    <3>1. CASE View(s).prior = TRUE
      <4>1. View(s) = y
        BY <2>5, <3>0, <3>1, SameSession
      <4> QED BY <4>1
    <3>2. CASE View(s).prior = F.prior
      <4>1. View(s).prior = x.prior
        BY <2>4, <3>2
      <4>2. View(s) = x
        BY <2>4, <3>0, <4>1, SameSession
      <4> QED BY <4>2
    <3> QED BY <1>1, <2>1, <2>2, <3>1, <3>2, ViewType
  <2> QED BY <1>3, <1>4, <2>6 DEF HandleQuery, Moved, Accepted
<1> QED BY <1>7, <1>8

(***************************************************************************)
(* Every reply leaves the session as one of the outcomes of the engine's   *)
(* one-step handlers does, and no reply leaves it as it was.               *)
(***************************************************************************)
THEOREM AnalyticsAsFSM == Spec => HandledAsFSM
<1> DEFINE Handled ==
      pc # "idle" /\ pc' = "idle" =>
        IF ~answered' THEN UNCHANGED session
        ELSE [session |-> FSMSession',
              reply   |-> IF outcome.type = "REFUSED" THEN "refused" ELSE "accepted",
              effect  |-> NoEffect]
               \in ProcessMessage(FSMSession, text, [live |-> Products])
<1>0. FSMSession = View(session) /\ FSMSession' = View(session')
  BY DEF FSMSession, View
<1>1. ASSUME AnalyticsInv, Settle
      PROVE  Handled
  <2>1. pc = "settle" /\ session' = NextSession(outcome) /\ answered'
    BY <1>1 DEF Settle
  <2>2. outcome.type \in OutcomeTypes \union {"FLOW_CANCELLED", "REFUSED"}
    BY <1>1, <2>1 DEF AnalyticsInv, SettleInv, TypeOK, Outcomes, OtherReplies
  <2>3. CASE outcome.type = "FLOW_CANCELLED"
    <3>1. Override(text) /\ session' = Cleared
      BY <1>1, <2>1, <2>3 DEF AnalyticsInv, SettleInv, NextSession, OutcomeTypes, Answers
    <3>2. ProcessMessage(View(session), text, [live |-> Products])
            = {Moved(Clear(View(session)))}
      BY <3>1 DEF ProcessMessage
    <3>3. session \in SessionType
      BY <1>1 DEF AnalyticsInv, TypeOK, SessionType
    <3>4. Moved(Clear(View(session)))
            = [session |-> View(Cleared), reply |-> "accepted", effect |-> NoEffect]
      BY <3>3, ClearedView DEF Moved, Accepted
    <3> QED BY <1>0, <2>1, <2>3, <3>1, <3>2, <3>4
  <2>4. CASE outcome.type = "REFUSED"
    <3>1. session' = AfterRefusal
      BY <2>1, <2>4 DEF NextSession, OutcomeTypes, Answers
    <3> QED BY <1>0, <1>1, <2>1, <2>4, <3>1, RefusalView, RefusedAsFSM
  <2>5. CASE outcome.type \in OutcomeTypes
    <3>1. outcome.type \notin {"FLOW_CANCELLED", "SESSION_CONTEXT_LOST", "REFUSED"}
      BY <2>5 DEF OutcomeTypes, Answers
    <3>2. session' = IF Parked THEN AfterChoice(outcome) ELSE AfterQuestion(outcome)
      BY <2>1, <2>5, <3>1 DEF NextSession
    <3> QED BY <1>0, <1>1, <2>1, <2>5, <3>1, <3>2, ChoiceAsFSM, QuestionAsFSM
  <2> QED BY <2>2, <2>3, <2>4, <2>5
<1>2. AnalyticsInv /\ [Next]_vars => [Handled]_vars
  <2> SUFFICES ASSUME AnalyticsInv, [Next]_vars PROVE Handled
    OBVIOUS
  <2>1. CASE Fail
    BY <2>1 DEF Fail
  <2>2. CASE \/ \E t \in Typed : Receive(t)
             \/ Ask \/ Generate \/ Inspect \/ Validate \/ RunTool
    <3>1. pc = "idle" \/ pc' # "idle"
      <4>1. CASE \E t \in Typed : Receive(t)
        BY <4>1 DEF Receive
      <4>2. CASE Ask \/ Generate \/ RunTool
        BY <4>2 DEF Ask, Generate, RunTool, Conclude
      <4>3. CASE Inspect \/ Validate
        <5>1. ASSUME NEW o, Repair(o) PROVE pc' \in {"generate", "settle"}
          BY <5>1 DEF Repair, Conclude
        <5>2. CASE Inspect
          BY <5>1, <5>2 DEF Inspect, Conclude, AnalyticsInv, TypeOK, Responses
        <5>3. CASE Validate
          BY <5>1, <5>3 DEF Validate, Conclude
        <5> QED BY <4>3, <5>2, <5>3
      <4> QED BY <2>2, <4>1, <4>2, <4>3
    <3> QED BY <3>1
  <2>3. CASE Age \/ Expire \/ Elsewhere \/ UNCHANGED vars
    <3>1. pc' = pc
      BY <2>3 DEF Age, Expire, Elsewhere, vars
    <3> QED BY <3>1
  <2> QED BY <1>1, <2>1, <2>2, <2>3 DEF Next, Step
<1> QED BY <1>2, AnalyticsInductive, PTL DEF Spec, HandledAsFSM
=============================================================================
