----------------------------- MODULE CandleMerge -----------------------------
(***************************************************************************)
(* The canonical one-minute candle (candles.py, BaseMinuteCandle) and what *)
(* the hot candle store promises: every accepted quote is merged into the  *)
(* candle of its symbol and minute at once, in any order.                  *)
(*                                                                         *)
(* A quote is an element of Events; Key[e] is the rank of its              *)
(* (provider_timestamp, event_id) pair, which orders quotes totally.       *)
(***************************************************************************)
EXTENDS Naturals, FiniteSets

CONSTANTS
  Events,     \* accepted quotes
  Bucket,     \* Bucket[e]: symbol and minute of e
  Key,        \* Key[e]: rank of (provider_timestamp, event_id)
  Price,      \* Price[e]
  NoCandle    \* the candle key does not exist

Buckets == {Bucket[e] : e \in Events}

ASSUME CandleAssumption ==
  /\ IsFiniteSet(Events)
  /\ Bucket \in [Events -> Buckets]
  /\ Key \in [Events -> Nat]
  /\ \A e, f \in Events : Key[e] = Key[f] => e = f
  /\ Price \in [Events -> Nat]

Candles == [open : Nat, high : Nat, low : Nat, close : Nat, activity : Nat,
            first : Events, last : Events]

ASSUME NoCandleAssumption == NoCandle \notin Candles

VARIABLES
  candle,   \* the candle of each bucket
  merged    \* the quotes merged so far

Highest(a, b) == IF a < b THEN b ELSE a
Lowest(a, b)  == IF a < b THEN a ELSE b

\* BaseMinuteCandle.from_quote
FromQuote(e) ==
  [open |-> Price[e], high |-> Price[e], low |-> Price[e], close |-> Price[e],
   activity |-> 1, first |-> e, last |-> e]

\* Faulty variant: the quote that arrives last closes the candle.
WithQuoteArrival(c, e) ==
  LET opens == Key[e] < Key[c.first]
  IN  [open     |-> IF opens THEN Price[e] ELSE c.open,
       high     |-> Highest(c.high, Price[e]),
       low      |-> Lowest(c.low, Price[e]),
       close    |-> Price[e],
       activity |-> c.activity + 1,
       first    |-> IF opens THEN e ELSE c.first,
       last     |-> e]

\* BaseMinuteCandle.with_quote; `first' and `last' stand for the timestamps
\* and ids of the first and the last event.
WithQuote(c, e) ==
  LET opens  == Key[e] < Key[c.first]
      closes == Key[e] > Key[c.last]
  IN  [open     |-> IF opens THEN Price[e] ELSE c.open,
       high     |-> Highest(c.high, Price[e]),
       low      |-> Lowest(c.low, Price[e]),
       close    |-> IF closes THEN Price[e] ELSE c.close,
       activity |-> c.activity + 1,
       first    |-> IF opens THEN e ELSE c.first,
       last     |-> IF closes THEN e ELSE c.last]

\* The branch of cache_quote on a missing candle key.
Merge(c, e) == IF c = NoCandle THEN FromQuote(e) ELSE WithQuote(c, e)

Init ==
  /\ candle = [b \in Buckets |-> NoCandle]
  /\ merged = {}

MergeQuote(e) ==
  /\ e \notin merged
  /\ candle' = [candle EXCEPT ![Bucket[e]] = Merge(@, e)]
  /\ merged' = merged \cup {e}

Next == \E e \in Events : MergeQuote(e)

Spec == Init /\ [][Next]_<<candle, merged>>

-----------------------------------------------------------------------------
(* Properties *)

MergedInto(b) == {e \in merged : Bucket[e] = b}

\* c is the OHLC aggregate of the quotes in S: it opens with the first and
\* closes with the last by (timestamp, event id), spans the extreme prices
\* and counts every quote once.
IsAggregate(c, S) ==
  /\ c.first \in S /\ \A e \in S : Key[c.first] <= Key[e]
  /\ c.last \in S /\ \A e \in S : Key[e] <= Key[c.last]
  /\ c.open = Price[c.first] /\ c.close = Price[c.last]
  /\ \A e \in S : c.low <= Price[e] /\ Price[e] <= c.high
  /\ \E e \in S : c.low = Price[e]
  /\ \E e \in S : c.high = Price[e]
  /\ c.activity = Cardinality(S)

\* Out-of-order quotes produce deterministic OHLC values: whatever the order
\* of the merges, the candle is the aggregate of the set of merged quotes
\* (from_quote and with_quote).
CandlesAggregate ==
  \A b \in Buckets :
    IF MergedInto(b) = {} THEN candle[b] = NoCandle
                          ELSE IsAggregate(candle[b], MergedInto(b))
=============================================================================
