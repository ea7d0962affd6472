-------------------------------- MODULE Webhook --------------------------------
(***************************************************************************)
(* How a message comes in.  The provider delivers it until it is answered  *)
(* with 200, and may deliver it again while an earlier attempt is still    *)
(* under way; the handler sets a key in Redis for the message's id (SET    *)
(* with NX and EX), drops the message when the key was there, and hands it *)
(* to Celery otherwise.                                                    *)
(*                                                                         *)
(*   idle --Deliver--> check --Check--> dispatch --Dispatch--> idle        *)
(*                                                                         *)
(* A signature or a body that is refused changes nothing and is left out;  *)
(* what becomes of a message in the queue is in ConversationWorkers.       *)
(***************************************************************************)
EXTENDS Integers, FiniteSets

CONSTANTS
  Messages,      \* message ids
  Attempts,      \* the attempts at one message that may be under way at once
  Ttl,           \* dedup_ttl_seconds, in ticks
  Failing,       \* the parts that may fail: "redis", "broker", "process"
  MaxExpiries,   \* bound: how often the key of one message expires
  MaxOutages     \* bound: how often a part fails

ASSUME WebhookAssumption ==
  /\ IsFiniteSet(Attempts)
  /\ Ttl \in Nat \ {0}
  /\ Failing \subseteq {"redis", "broker", "process"}
  /\ MaxExpiries \in Nat
  /\ MaxOutages \in Nat

VARIABLES
  sent,          \* the messages that merchants sent
  acknowledged,  \* the messages for which the provider saw a 200
  at,            \* where the handler is, for each attempt at each message
  key,           \* the ticks that the message's dedup key has to live, or 0
  outages,       \* failures so far
  dispatched,    \* history: how often the message was handed to Celery
  spoiled,       \* history: a failure met the message when its key was set
  expired        \* history: how often the message's key expired

vars == <<sent, acknowledged, at, key, outages, dispatched, spoiled, expired>>

-----------------------------------------------------------------------------

Calls == Messages \X Attempts

Init ==
  /\ sent = {}
  /\ acknowledged = {}
  /\ at = [c \in Calls |-> "idle"]
  /\ key = [m \in Messages |-> 0]
  /\ outages = 0
  /\ dispatched = [m \in Messages |-> 0]
  /\ spoiled = {}
  /\ expired = [m \in Messages |-> 0]

Send(m) ==
  /\ m \notin sent
  /\ sent' = sent \union {m}
  /\ UNCHANGED <<acknowledged, at, key, outages, dispatched, spoiled, expired>>

(* A message that was not answered with 200 is delivered (again). *)
Deliver(m, a) ==
  /\ m \in sent \ acknowledged
  /\ at[<<m, a>>] = "idle"
  /\ at' = [at EXCEPT ![<<m, a>>] = "check"]
  /\ UNCHANGED <<sent, acknowledged, key, outages, dispatched, spoiled, expired>>

(* The answer may be lost on its way, or come too late. *)
Answer200(m, a) ==
  /\ at' = [at EXCEPT ![<<m, a>>] = "idle"]
  /\ acknowledged' \in {acknowledged, acknowledged \union {m}}

Answer500(m, a) ==
  /\ at' = [at EXCEPT ![<<m, a>>] = "idle"]
  /\ UNCHANGED acknowledged

Outage(part) ==
  /\ part \in Failing
  /\ outages < MaxOutages
  /\ outages' = outages + 1

\* Seeded fault: the key is kept for session_ttl_seconds, the longer of the two.
SetKeyForSession(m) == key' = [key EXCEPT ![m] = 2 * Ttl]

(* SET with NX and EX of a key that is not there. *)
SetKey(m) == key' = [key EXCEPT ![m] = Ttl]

\* Seeded fault: the key is looked up and not set.
CheckForgetting(m, a) ==
  /\ at[<<m, a>>] = "check"
  /\ IF key[m] = 0
     THEN at' = [at EXCEPT ![<<m, a>>] = "dispatch"] /\ UNCHANGED acknowledged
     ELSE Answer200(m, a)
  /\ UNCHANGED <<sent, key, outages, dispatched, spoiled, expired>>

(***************************************************************************)
(* is_duplicate: the key is set if it was not there.  When Redis fails,    *)
(* the key may have been set or not.                                       *)
(***************************************************************************)
Check(m, a) ==
  /\ at[<<m, a>>] = "check"
  /\ \/ /\ key[m] = 0
        /\ SetKey(m)
        /\ at' = [at EXCEPT ![<<m, a>>] = "dispatch"]
        /\ UNCHANGED <<acknowledged, outages, spoiled>>
     \/ /\ key[m] > 0
        /\ Answer200(m, a)
        /\ UNCHANGED <<key, outages, spoiled>>
     \/ /\ Outage("redis")
        /\ Answer500(m, a)
        /\ \/ UNCHANGED <<key, spoiled>>
           \/ /\ key[m] = 0
              /\ SetKey(m)
              /\ spoiled' = spoiled \union {m}
  /\ UNCHANGED <<sent, dispatched, expired>>

\* Seeded fault: the failure of the dispatch is logged and answered with 200.
DispatchSwallowed(m, a) ==
  /\ at[<<m, a>>] = "dispatch"
  /\ \/ dispatched' = [dispatched EXCEPT ![m] = @ + 1] /\ UNCHANGED outages
     \/ Outage("broker") /\ UNCHANGED dispatched
  /\ Answer200(m, a)
  /\ UNCHANGED <<sent, key, spoiled, expired>>

(* apply_async; the key stays when the broker refuses. *)
Dispatch(m, a) ==
  /\ at[<<m, a>>] = "dispatch"
  /\ \/ /\ dispatched' = [dispatched EXCEPT ![m] = @ + 1]
        /\ Answer200(m, a)
        /\ UNCHANGED <<outages, spoiled>>
     \/ /\ Outage("broker")
        /\ Answer500(m, a)
        /\ spoiled' = spoiled \union {m}
        /\ UNCHANGED dispatched
  /\ UNCHANGED <<sent, key, expired>>

(* The process that serves the request dies. *)
Die(m, a) ==
  /\ at[<<m, a>>] # "idle"
  /\ Outage("process")
  /\ Answer500(m, a)
  /\ spoiled' = IF at[<<m, a>>] = "dispatch" THEN spoiled \union {m} ELSE spoiled
  /\ UNCHANGED <<sent, key, dispatched, expired>>

(* Redis counts the keys down. *)
Tick ==
  /\ \E m \in Messages : key[m] > 0
  /\ \A m \in Messages : key[m] = 1 => expired[m] < MaxExpiries
  /\ key' = [m \in Messages |-> IF key[m] > 0 THEN key[m] - 1 ELSE 0]
  /\ expired' = [m \in Messages |-> IF key[m] = 1 THEN expired[m] + 1 ELSE expired[m]]
  /\ UNCHANGED <<sent, acknowledged, at, outages, dispatched, spoiled>>

Handle(m, a) == Check(m, a) \/ Dispatch(m, a)

Next ==
  \/ \E m \in Messages : Send(m)
  \/ \E m \in Messages, a \in Attempts : Deliver(m, a) \/ Handle(m, a) \/ Die(m, a)
  \/ Tick

Spec == Init /\ [][Next]_vars

(* A request that is being served goes on, and the provider does not give  *)
(* a message up; nobody has to send one, and no time has to pass.          *)
FairSpec ==
  /\ Spec
  /\ \A c \in Calls : WF_vars(Deliver(c[1], c[2])) /\ WF_vars(Handle(c[1], c[2]))

-----------------------------------------------------------------------------

TypeOK ==
  /\ sent \subseteq Messages
  /\ acknowledged \subseteq sent
  /\ at \in [Calls -> {"idle", "check", "dispatch"}]
  /\ key \in [Messages -> 0..Ttl]
  /\ outages \in 0..MaxOutages
  /\ dispatched \in [Messages -> Nat]
  /\ spoiled \subseteq sent
  /\ expired \in [Messages -> 0..MaxExpiries]

(***************************************************************************)
(* However many attempts overlap, whatever fails and whichever answer is   *)
(* lost, a message is handed to Celery once for each life of its key, also *)
(* when the key expires between an attempt's check and its dispatch.       *)
(***************************************************************************)
OncePerKey == \A m \in Messages : dispatched[m] <= expired[m] + 1

Claimed(m) == {a \in Attempts : at[<<m, a>>] = "dispatch"}

(* Somebody has handed the message over, is about to, or failed to. *)
Carried(m) == dispatched[m] > 0 \/ Claimed(m) # {} \/ m \in spoiled

(***************************************************************************)
(* A message that the provider takes for delivered, and will not deliver   *)
(* again, is in the queue, or one attempt is about to put it there: a 200  *)
(* for a duplicate may overtake the dispatch that it is a duplicate of.    *)
(* Only a failure between the key and the queue makes an exception.        *)
(***************************************************************************)
AcknowledgedIsCarried == \A m \in acknowledged : Carried(m)

(***************************************************************************)
(* A message that was sent gets into the queue, unless a failure met it    *)
(* when its key was set: outages before the key are made up for by the     *)
(* provider's next attempts.                                               *)
(***************************************************************************)
SentIsCarried ==
  \A m \in Messages : m \in sent ~> (dispatched[m] > 0 \/ m \in spoiled)

-----------------------------------------------------------------------------
(* What the documents say, and the code does not do. *)

(***************************************************************************)
(* README.md: a valid, non-duplicate message is enqueued.  When nobody is  *)
(* serving it any more, a message that was acknowledged is in the queue.   *)
(* It is not when apply_async raised after the key was set: the provider's *)
(* next attempt is taken for a duplicate and answered with 200.            *)
(***************************************************************************)
AcknowledgedIsQueued ==
  \A m \in acknowledged :
    (\A a \in Attempts : at[<<m, a>>] = "idle") => dispatched[m] > 0
=============================================================================
