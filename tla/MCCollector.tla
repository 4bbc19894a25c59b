----------------------------- MODULE MCCollector -----------------------------
(* Instances of Collector for TLC. *)
EXTENDS Collector, TLC

CONSTANTS btc, eth

RankDef == (btc :> 1 @@ eth :> 2)
=============================================================================
