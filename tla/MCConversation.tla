----------------------------- MODULE MCConversation ----------------------------
(* Instances of ConversationWorkers for TLC. *)
EXTENDS ConversationWorkers, TLC

Symmetry == Permutations(Workers)
=============================================================================
