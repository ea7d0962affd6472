------------------------------- MODULE MCShops ------------------------------
(* Two workers serve a merchant, while two REST requests ask for the shop. *)
EXTENDS Shops, TLC

CONSTANT amina

Symmetry == Permutations(Messages) \union Permutations(Rest)

MCPhone == [r \in Requests |-> amina]
=============================================================================
