-------------------------------- MODULE MCStock --------------------------------
(* The instance of StockTransactions for TLC; the configurations give it values. *)
EXTENDS StockTransactions
=============================================================================
