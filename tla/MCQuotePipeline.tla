--------------------------- MODULE MCQuotePipeline ---------------------------
(***************************************************************************)
(* Instances of QuotePipeline for TLC: one quote, or three quotes of one   *)
(* symbol with a hole in their sequence numbers.                           *)
(***************************************************************************)
EXTENDS QuotePipeline, TLC

CONSTANTS p1, p2, e1, e2, e3, btc

\* One quote: every entry is a delivery of it, or malformed.
SymbolOne == e1 :> btc
SequenceOne == e1 :> 1

\* Three quotes of one symbol: number 1, number 3 (2 is missing), and one
\* without a number.
SymbolTriple == [e \in {e1, e2, e3} |-> btc]
SequenceTriple == (e1 :> 1) @@ (e2 :> 3) @@ (e3 :> NoSequence)

\* Processors are interchangeable: used only in runs without liveness.
ProcessorSymmetry == Permutations(Processors)
=============================================================================
