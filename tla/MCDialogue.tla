------------------------------- MODULE MCDialogue ------------------------------
(* An instance of Dialogue for TLC. *)
EXTENDS Dialogue, TLC

Symmetry == Permutations(Products)
=============================================================================
