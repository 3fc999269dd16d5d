--------------------------- MODULE MCTradeService ---------------------------
(* Small instances of TradeService for TLC. *)
EXTENDS TradeService

=============================================================================
