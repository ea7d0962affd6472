----------------------------- MODULE WebhookProofs -----------------------------
(***************************************************************************)
(* Proofs about Webhook, for any messages, attempts, time to live and      *)
(* number of failures: a message is handed over once for each life of its  *)
(* key, and one that is acknowledged is handed over unless a failure came  *)
(* between its key and the queue.                                          *)
(***************************************************************************)
EXTENDS Webhook, FiniteSetTheorems, TLAPS

(* An attempt that has passed the check holds the right to one dispatch:   *)
(* the key that it set, or the expiry of that key, stands for it.          *)
Rights(m) == expired[m] + (IF key[m] > 0 THEN 1 ELSE 0)

KeyCounts ==
  \A m \in Messages : dispatched[m] + Cardinality(Claimed(m)) <= Rights(m)

(* A key is only there, and a message only acknowledged, when the message  *)
(* is carried.                                                             *)
KeyCarries ==
  \A m \in Messages : key[m] > 0 \/ m \in acknowledged => Carried(m)

WebhookInv == TypeOK /\ KeyCounts /\ KeyCarries

-----------------------------------------------------------------------------

LEMMA ClaimsAreFinite ==
  ASSUME NEW m
  PROVE  IsFiniteSet(Claimed(m)) /\ Cardinality(Claimed(m)) \in Nat
BY WebhookAssumption, FS_Subset, FS_CardinalityType DEF Claimed

LEMMA ClaimsAreFiniteAfter ==
  ASSUME NEW m
  PROVE  IsFiniteSet(Claimed(m)') /\ Cardinality(Claimed(m)') \in Nat
BY WebhookAssumption, FS_Subset, FS_CardinalityType DEF Claimed

(* What a step of one attempt does to the claims of all messages. *)
LEMMA ClaimMade ==
  ASSUME TypeOK, NEW m \in Messages, NEW a \in Attempts, at[<<m, a>>] # "dispatch",
         at' = [at EXCEPT ![<<m, a>>] = "dispatch"]
  PROVE  /\ Cardinality(Claimed(m)') = Cardinality(Claimed(m)) + 1
         /\ \A n \in Messages : n # m => Claimed(n)' = Claimed(n)
         /\ Claimed(m)' # {}
<1>1. Claimed(m)' = Claimed(m) \union {a}
  BY DEF Claimed, TypeOK, Calls
<1>2. a \notin Claimed(m)
  BY DEF Claimed
<1>3. \A n \in Messages : n # m => Claimed(n)' = Claimed(n)
  BY DEF Claimed, TypeOK, Calls
<1> QED BY <1>1, <1>2, <1>3, ClaimsAreFinite, FS_AddElement

LEMMA ClaimGone ==
  ASSUME TypeOK, NEW m \in Messages, NEW a \in Attempts, at[<<m, a>>] = "dispatch",
         at' = [at EXCEPT ![<<m, a>>] = "idle"]
  PROVE  /\ Cardinality(Claimed(m)') = Cardinality(Claimed(m)) - 1
         /\ \A n \in Messages : n # m => Claimed(n)' = Claimed(n)
<1>1. Claimed(m)' = Claimed(m) \ {a}
  BY DEF Claimed, TypeOK, Calls
<1>2. a \in Claimed(m)
  BY DEF Claimed
<1>3. \A n \in Messages : n # m => Claimed(n)' = Claimed(n)
  BY DEF Claimed, TypeOK, Calls
<1> QED BY <1>1, <1>2, <1>3, ClaimsAreFinite, FS_RemoveElement

LEMMA ClaimsKept ==
  ASSUME TypeOK, NEW m \in Messages, NEW a \in Attempts, at[<<m, a>>] # "dispatch",
         NEW place \in {"idle", "check"}, at' = [at EXCEPT ![<<m, a>>] = place]
  PROVE  \A n \in Messages : Claimed(n)' = Claimed(n)
BY DEF Claimed, TypeOK, Calls

-----------------------------------------------------------------------------
(* Steps that neither make nor use a claim, and leave the keys alone *)

LEMMA QuietStep ==
  ASSUME WebhookInv,
         \A n \in Messages : Claimed(n)' = Claimed(n),
         UNCHANGED <<key, dispatched, expired>>,
         spoiled \subseteq spoiled',
         \A n \in acknowledged' : n \in acknowledged \/ key[n] > 0,
         acknowledged' \subseteq Messages
  PROVE  KeyCounts' /\ KeyCarries'
<1>1. KeyCounts'
  BY DEF WebhookInv, KeyCounts, Rights
<1>2. KeyCarries'
  BY DEF WebhookInv, KeyCarries, Carried
<1> QED BY <1>1, <1>2

LEMMA InitInv ==
  ASSUME Init
  PROVE  WebhookInv
<1>1. TypeOK
  BY WebhookAssumption DEF Init, TypeOK
<1>2. \A m \in Messages : Claimed(m) = {}
  BY DEF Init, Claimed, Calls
<1>3. KeyCounts
  BY <1>2, FS_EmptySet DEF Init, KeyCounts, Rights
<1>4. KeyCarries
  BY DEF Init, KeyCarries
<1> QED BY <1>1, <1>3, <1>4 DEF WebhookInv

LEMMA SendInv ==
  ASSUME WebhookInv, NEW m \in Messages, Send(m)
  PROVE  WebhookInv'
<1>1. TypeOK'
  BY DEF WebhookInv, Send, TypeOK
<1>2. \A n \in Messages : Claimed(n)' = Claimed(n)
  BY DEF Send, Claimed
<1> QED BY <1>1, <1>2, QuietStep DEF Send, WebhookInv, TypeOK

LEMMA DeliverInv ==
  ASSUME WebhookInv, NEW m \in Messages, NEW a \in Attempts, Deliver(m, a)
  PROVE  WebhookInv'
<1>1. TypeOK'
  BY DEF WebhookInv, Deliver, TypeOK, Calls
<1>2. \A n \in Messages : Claimed(n)' = Claimed(n)
  BY ClaimsKept DEF Deliver, WebhookInv
<1> QED BY <1>1, <1>2, QuietStep DEF Deliver, WebhookInv, TypeOK

-----------------------------------------------------------------------------
(* Steps that make a claim, use one or lose one *)

(* The attempt that sets the key gets the right that comes with it. *)
LEMMA CheckClaims ==
  ASSUME WebhookInv, NEW m \in Messages, NEW a \in Attempts,
         at[<<m, a>>] = "check", key[m] = 0,
         key' = [key EXCEPT ![m] = Ttl],
         at' = [at EXCEPT ![<<m, a>>] = "dispatch"],
         UNCHANGED <<sent, acknowledged, outages, dispatched, spoiled, expired>>
  PROVE  WebhookInv'
<1> USE DEF WebhookInv
<1>1. TypeOK'
  BY WebhookAssumption DEF TypeOK, Calls
<1>2. /\ Cardinality(Claimed(m)') = Cardinality(Claimed(m)) + 1
      /\ \A n \in Messages : n # m => Claimed(n)' = Claimed(n)
      /\ Claimed(m)' # {}
  BY ClaimMade
<1>3. KeyCounts'
  <2> SUFFICES ASSUME NEW n \in Messages
               PROVE  dispatched[n] + Cardinality(Claimed(n)') <= Rights(n)'
    BY DEF KeyCounts
  <2>1. CASE n # m
    BY <1>2, <2>1 DEF KeyCounts, Rights, TypeOK
  <2>2. CASE n = m
    <3>1. Rights(m)' = Rights(m) + 1
      BY WebhookAssumption DEF Rights, TypeOK
    <3>2. dispatched[m] + Cardinality(Claimed(m)) <= Rights(m)
      BY DEF KeyCounts
    <3>3. /\ dispatched[m] \in Nat /\ Cardinality(Claimed(m)) \in Nat
          /\ Rights(m) \in Nat
      BY ClaimsAreFinite DEF TypeOK, Rights
    <3> QED BY <1>2, <2>2, <3>1, <3>2, <3>3
  <2> QED BY <2>1, <2>2
<1>4. KeyCarries'
  BY <1>2 DEF KeyCarries, Carried, TypeOK
<1> QED BY <1>1, <1>3, <1>4

(* The key may be set although Redis failed: nobody has the right. *)
LEMMA CheckSpoils ==
  ASSUME WebhookInv, NEW m \in Messages, NEW a \in Attempts,
         m \in sent, at[<<m, a>>] = "check", key[m] = 0,
         key' = [key EXCEPT ![m] = Ttl],
         at' = [at EXCEPT ![<<m, a>>] = "idle"],
         spoiled' = spoiled \union {m},
         outages' \in 0..MaxOutages,
         UNCHANGED <<sent, acknowledged, dispatched, expired>>
  PROVE  WebhookInv'
<1> USE DEF WebhookInv
<1>1. TypeOK'
  BY WebhookAssumption DEF TypeOK, Calls
<1>2. \A n \in Messages : Claimed(n)' = Claimed(n)
  BY ClaimsKept
<1>3. KeyCounts'
  <2> SUFFICES ASSUME NEW n \in Messages
               PROVE  dispatched[n] + Cardinality(Claimed(n)) <= Rights(n)'
    BY <1>2 DEF KeyCounts
  <2>1. Rights(n) <= Rights(n)' /\ Rights(n) \in Nat /\ Rights(n)' \in Nat
    BY WebhookAssumption DEF Rights, TypeOK
  <2>2. dispatched[n] + Cardinality(Claimed(n)) <= Rights(n)
    BY DEF KeyCounts
  <2>3. dispatched[n] \in Nat /\ Cardinality(Claimed(n)) \in Nat
    BY ClaimsAreFinite DEF TypeOK
  <2> QED BY <2>1, <2>2, <2>3
<1>4. KeyCarries'
  BY <1>2 DEF KeyCarries, Carried, TypeOK
<1> QED BY <1>1, <1>3, <1>4

(* A claim goes: the message is handed over, or it is spoiled. *)
LEMMA ClaimUsed ==
  ASSUME WebhookInv, NEW m \in Messages, NEW a \in Attempts,
         at[<<m, a>>] = "dispatch", m \in sent,
         at' = [at EXCEPT ![<<m, a>>] = "idle"],
         acknowledged' \in {acknowledged, acknowledged \union {m}},
         outages' \in 0..MaxOutages,
         \/ /\ dispatched' = [dispatched EXCEPT ![m] = @ + 1]
            /\ UNCHANGED spoiled
         \/ /\ spoiled' = spoiled \union {m}
            /\ UNCHANGED dispatched,
         UNCHANGED <<sent, key, expired>>
  PROVE  WebhookInv'
<1> USE DEF WebhookInv
<1>1. TypeOK'
  BY DEF TypeOK, Calls
<1>2. /\ Cardinality(Claimed(m)') = Cardinality(Claimed(m)) - 1
      /\ \A n \in Messages : n # m => Claimed(n)' = Claimed(n)
  BY ClaimGone
<1>3. KeyCounts'
  <2> SUFFICES ASSUME NEW n \in Messages
               PROVE  dispatched'[n] + Cardinality(Claimed(n)') <= Rights(n)
    BY DEF KeyCounts, Rights
  <2>1. /\ dispatched[n] \in Nat /\ Cardinality(Claimed(n)) \in Nat
        /\ Rights(n) \in Nat
        /\ dispatched[n] + Cardinality(Claimed(n)) <= Rights(n)
    BY ClaimsAreFinite DEF TypeOK, Rights, KeyCounts
  <2>2. CASE n # m
    <3>1. dispatched'[n] = dispatched[n]
      BY <2>2 DEF TypeOK
    <3> QED BY <1>2, <2>1, <2>2, <3>1
  <2>3. CASE n = m
    <3>1. dispatched'[n] \in {dispatched[n], dispatched[n] + 1}
      BY <2>3 DEF TypeOK
    <3> QED BY <1>2, <2>1, <2>3, <3>1
  <2> QED BY <2>2, <2>3
<1>4. KeyCarries'
  <2> SUFFICES ASSUME NEW n \in Messages, key[n] > 0 \/ n \in acknowledged'
               PROVE  Carried(n)'
    BY DEF KeyCarries
  <2>1. CASE n # m
    <3>1. Carried(n)
      BY <2>1 DEF KeyCarries
    <3> QED BY <1>2, <2>1, <3>1 DEF Carried, TypeOK
  <2>2. CASE n = m
    BY <2>2 DEF Carried, TypeOK
  <2> QED BY <2>1, <2>2
<1> QED BY <1>1, <1>3, <1>4

(* A handler is only busy with a message that was sent. *)
BusyIsSent == \A m \in Messages, a \in Attempts : at[<<m, a>>] # "idle" => m \in sent

LEMMA BusyIsSentStep ==
  ASSUME TypeOK, BusyIsSent, [Next]_vars
  PROVE  BusyIsSent'
<1>1. \/ sent \subseteq sent' /\ at' = at
      \/ \E m \in Messages, a \in Attempts :
           /\ m \in sent \/ at[<<m, a>>] # "idle"
           /\ sent' = sent
           /\ \E place \in {"idle", "check", "dispatch"} :
                at' = [at EXCEPT ![<<m, a>>] = place]
  BY DEF Next, Send, Deliver, Handle, Check, Dispatch, Die, Tick, Answer200, Answer500,
         vars
<1> QED BY <1>1 DEF BusyIsSent, TypeOK, Calls

LEMMA CheckInv ==
  ASSUME WebhookInv, BusyIsSent, NEW m \in Messages, NEW a \in Attempts, Check(m, a)
  PROVE  WebhookInv'
<1>1. m \in sent /\ at[<<m, a>>] = "check"
  BY DEF Check, BusyIsSent
<1>2. CASE key[m] = 0 /\ at' = [at EXCEPT ![<<m, a>>] = "dispatch"]
                     /\ key' = [key EXCEPT ![m] = Ttl]
                     /\ UNCHANGED <<acknowledged, outages, spoiled>>
  BY <1>1, <1>2, CheckClaims DEF Check
<1>3. CASE key[m] > 0 /\ Answer200(m, a) /\ UNCHANGED <<key, outages, spoiled>>
  <2>1. TypeOK'
    BY <1>1, <1>3 DEF Check, Answer200, WebhookInv, TypeOK, Calls
  <2>2. \A n \in Messages : Claimed(n)' = Claimed(n)
    BY <1>1, <1>3, ClaimsKept DEF Answer200, WebhookInv
  <2> QED BY <1>3, <2>1, <2>2, QuietStep DEF Check, Answer200, WebhookInv, TypeOK
<1>4. CASE Outage("redis") /\ Answer500(m, a) /\ UNCHANGED <<key, spoiled>>
  <2>1. TypeOK'
    BY <1>4, WebhookAssumption DEF Check, Outage, Answer500, WebhookInv, TypeOK, Calls
  <2>2. \A n \in Messages : Claimed(n)' = Claimed(n)
    BY <1>1, <1>4, ClaimsKept DEF Answer500, WebhookInv
  <2> QED BY <1>4, <2>1, <2>2, QuietStep DEF Check, Answer500, WebhookInv, TypeOK
<1>5. CASE /\ Outage("redis") /\ Answer500(m, a) /\ key[m] = 0
           /\ key' = [key EXCEPT ![m] = Ttl] /\ spoiled' = spoiled \union {m}
  <2>1. outages' \in 0..MaxOutages
    BY <1>5, WebhookAssumption DEF Outage, WebhookInv, TypeOK
  <2> QED BY <1>1, <1>5, <2>1, CheckSpoils DEF Check, Answer500
<1> QED BY <1>2, <1>3, <1>4, <1>5 DEF Check, SetKey

LEMMA DispatchInv ==
  ASSUME WebhookInv, BusyIsSent, NEW m \in Messages, NEW a \in Attempts, Dispatch(m, a)
  PROVE  WebhookInv'
<1>1. m \in sent /\ at[<<m, a>>] = "dispatch"
  BY DEF Dispatch, BusyIsSent
<1>2. outages' \in 0..MaxOutages
  BY WebhookAssumption DEF Dispatch, Outage, WebhookInv, TypeOK
<1> QED BY <1>1, <1>2, ClaimUsed DEF Dispatch, Answer200, Answer500

LEMMA DieInv ==
  ASSUME WebhookInv, BusyIsSent, NEW m \in Messages, NEW a \in Attempts, Die(m, a)
  PROVE  WebhookInv'
<1>1. m \in sent /\ outages' \in 0..MaxOutages
  BY WebhookAssumption DEF Die, BusyIsSent, Outage, WebhookInv, TypeOK
<1>2. CASE at[<<m, a>>] = "dispatch"
  BY <1>1, <1>2, ClaimUsed DEF Die, Answer500
<1>3. CASE at[<<m, a>>] # "dispatch"
  <2>1. TypeOK'
    BY <1>1, <1>3 DEF Die, Answer500, WebhookInv, TypeOK, Calls
  <2>2. \A n \in Messages : Claimed(n)' = Claimed(n)
    BY <1>3, ClaimsKept DEF Die, Answer500, WebhookInv
  <2> QED BY <1>3, <2>1, <2>2, QuietStep DEF Die, Answer500, WebhookInv, TypeOK
<1> QED BY <1>2, <1>3

(* The right of a key outlives it. *)
LEMMA TickInv ==
  ASSUME WebhookInv, Tick
  PROVE  WebhookInv'
<1> USE DEF WebhookInv
<1>1. TypeOK'
  BY WebhookAssumption DEF Tick, TypeOK
<1>2. \A n \in Messages : Claimed(n)' = Claimed(n)
  BY DEF Tick, Claimed
<1>3. \A n \in Messages : Rights(n)' = Rights(n)
  BY WebhookAssumption DEF Tick, Rights, TypeOK
<1>4. KeyCounts'
  BY <1>2, <1>3 DEF Tick, KeyCounts
<1>5. KeyCarries'
  BY <1>2, WebhookAssumption DEF Tick, KeyCarries, Carried, TypeOK
<1> QED BY <1>1, <1>4, <1>5

-----------------------------------------------------------------------------
(* The theorems *)

LEMMA NextInv ==
  ASSUME WebhookInv, BusyIsSent, [Next]_vars
  PROVE  WebhookInv'
<1>1. CASE Next
  BY <1>1, SendInv, DeliverInv, CheckInv, DispatchInv, DieInv, TickInv
     DEF Next, Handle
<1>2. CASE UNCHANGED vars
  <2>1. TypeOK'
    BY <1>2 DEF vars, WebhookInv, TypeOK
  <2>2. \A n \in Messages : Claimed(n)' = Claimed(n)
    BY <1>2 DEF vars, Claimed
  <2> QED BY <1>2, <2>1, <2>2, QuietStep DEF vars, WebhookInv, TypeOK
<1> QED BY <1>1, <1>2

(***************************************************************************)
(* Every right to a dispatch comes from a key that is there or has         *)
(* expired, and every key is the mark of an attempt that carried the       *)
(* message or failed (webhook.py, the check and the dispatch).             *)
(***************************************************************************)
THEOREM WebhookInductive == Spec => [](WebhookInv /\ BusyIsSent)
<1>1. Init => WebhookInv /\ BusyIsSent
  <2>1. Init => BusyIsSent
    BY DEF Init, BusyIsSent, Calls
  <2> QED BY <2>1, InitInv
<1>2. WebhookInv /\ BusyIsSent /\ [Next]_vars => (WebhookInv /\ BusyIsSent)'
  BY NextInv, BusyIsSentStep DEF WebhookInv
<1> QED BY <1>1, <1>2, PTL DEF Spec

(***************************************************************************)
(* The bounded counters stay in their bounds, and only a message that was  *)
(* sent is acknowledged or spoiled.                                        *)
(***************************************************************************)
THEOREM WebhookTyped == Spec => []TypeOK
<1>1. WebhookInv => TypeOK
  BY DEF WebhookInv
<1> QED BY <1>1, WebhookInductive, PTL

(***************************************************************************)
(* A message gets into the queue once for each life of its key, whatever   *)
(* overlaps, fails or expires (ConversationStore.is_duplicate).            *)
(***************************************************************************)
THEOREM DispatchedOncePerKey == Spec => []OncePerKey
<1>1. WebhookInv => OncePerKey
  <2> SUFFICES ASSUME WebhookInv, NEW m \in Messages
               PROVE  dispatched[m] <= expired[m] + 1
    BY DEF OncePerKey
  <2>1. /\ dispatched[m] \in Nat /\ expired[m] \in Nat
        /\ Cardinality(Claimed(m)) \in Nat
        /\ dispatched[m] + Cardinality(Claimed(m)) <= Rights(m)
    BY ClaimsAreFinite DEF WebhookInv, TypeOK, KeyCounts
  <2>2. Rights(m) <= expired[m] + 1
    BY <2>1 DEF Rights
  <2> QED BY <2>1, <2>2 DEF Rights
<1> QED BY <1>1, WebhookInductive, PTL

(***************************************************************************)
(* What the provider takes for delivered is queued, about to be, or was    *)
(* met by a failure after its key was set.                                 *)
(***************************************************************************)
THEOREM NothingElseIsLost == Spec => []AcknowledgedIsCarried
<1>1. WebhookInv => AcknowledgedIsCarried
  BY DEF WebhookInv, TypeOK, KeyCarries, AcknowledgedIsCarried
<1> QED BY <1>1, WebhookInductive, PTL
=============================================================================
