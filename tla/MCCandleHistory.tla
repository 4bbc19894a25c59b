--------------------------- MODULE MCCandleHistory ---------------------------
(* Instances of CandleHistory for TLC. *)
EXTENDS CandleHistory, TLC

CONSTANTS e1, e2, e3

\* e1 and e2 have the same timestamp, e3 is of the next minute.
TimeDef == (e1 :> 1 @@ e2 :> 1 @@ e3 :> 2)
IdDef == (e1 :> 2 @@ e2 :> 1 @@ e3 :> 3)
PriceDef == (e1 :> 5 @@ e2 :> 7 @@ e3 :> 3)
=============================================================================
