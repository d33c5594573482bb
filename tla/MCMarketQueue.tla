----------------------------- MODULE MCMarketQueue -----------------------------
(* Values of the constants of MarketQueue for TLC. *)
EXTENDS MarketQueue
=============================================================================
