-------------------------- MODULE MCClientDelivery --------------------------
(***************************************************************************)
(* Instances of ClientDelivery for TLC.                                    *)
(***************************************************************************)
EXTENDS ClientDelivery, TLC

CONSTANTS p1, p2, c1, c2, btc, eth

RankDef == [s \in Symbols |-> IF s = btc THEN 1 ELSE 2]
=============================================================================
