----------------------- MODULE MCSubscriptionRegistry -----------------------
(***************************************************************************)
(* Instances of SubscriptionRegistry for TLC.                              *)
(***************************************************************************)
EXTENDS SubscriptionRegistry, TLC

CONSTANTS c1, c2, i1, i2

\* Every connection on one instance.
HomeOne == [c \in Connections |-> i1]

\* One connection on each of two instances.
HomeTwo == (c1 :> i1) @@ (c2 :> i2)

\* With HomeTwo the two instances are interchangeable together with their
\* connections.
InstanceSymmetry == {(c1 :> c2) @@ (c2 :> c1) @@ (i1 :> i2) @@ (i2 :> i1)}
=============================================================================
