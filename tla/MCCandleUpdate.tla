---------------------------- MODULE MCCandleUpdate ----------------------------
(***************************************************************************)
(* Instances of CandleUpdate for TLC: four quotes of one symbol, three of  *)
(* them in one minute, with equal and distinct prices; the order of their  *)
(* keys is not the order of their names.                                   *)
(***************************************************************************)
EXTENDS CandleUpdate, TLC

CONSTANTS w1, w2, w3, w4, e1, e2, e3, e4, m1, m2, btc

BucketDef == (e1 :> m1) @@ (e2 :> m1) @@ (e3 :> m1) @@ (e4 :> m2)
KeyDef    == (e1 :> 2) @@ (e2 :> 1) @@ (e3 :> 3) @@ (e4 :> 4)
PriceDef  == (e1 :> 5) @@ (e2 :> 7) @@ (e3 :> 5) @@ (e4 :> 6)
SymbolDef == [e \in {e1, e2, e3, e4} |-> btc]

=============================================================================
