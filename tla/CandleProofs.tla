----------------------------- MODULE CandleProofs -----------------------------
(***************************************************************************)
(* Proofs about the hot candle store, for every set of quotes, buckets and *)
(* concurrent calls: the candle is the aggregate of the quotes merged into *)
(* it, and the optimistic loop of cache_quote implements atomic merges.    *)
(***************************************************************************)
EXTENDS CandleUpdate, FiniteSetTheorems, TLAPS

-----------------------------------------------------------------------------
(* BaseMinuteCandle *)

\* from_quote is the aggregate of one quote.
LEMMA FromQuoteAggregates ==
  ASSUME NEW e \in Events
  PROVE  FromQuote(e) \in Candles /\ IsAggregate(FromQuote(e), {e})
<1>1. Cardinality({e}) = 1
  BY FS_Singleton
<1>2. QED
  BY <1>1, CandleAssumption DEF FromQuote, Candles, IsAggregate

\* with_quote extends the aggregate of a set by one more quote, whichever
\* place it has in the order.
LEMMA WithQuoteAggregates ==
  ASSUME NEW c \in Candles, NEW S \in SUBSET Events, NEW e \in Events \ S,
         IsAggregate(c, S)
  PROVE  WithQuote(c, e) \in Candles /\ IsAggregate(WithQuote(c, e), S \cup {e})
<1> DEFINE d == WithQuote(c, e)
<1> USE CandleAssumption
<1>1. /\ c.first \in S /\ c.last \in S
      /\ \A f \in Events : Key[f] \in Nat /\ Price[f] \in Nat
      /\ c.open \in Nat /\ c.high \in Nat /\ c.low \in Nat /\ c.close \in Nat
      /\ c.activity \in Nat
  BY DEF IsAggregate, Candles
<1>2. d \in Candles
  BY <1>1 DEF WithQuote, Candles, Highest, Lowest
<1>3. d.first \in S \cup {e} /\ \A f \in S \cup {e} : Key[d.first] <= Key[f]
  BY <1>1 DEF WithQuote, IsAggregate
<1>4. d.last \in S \cup {e} /\ \A f \in S \cup {e} : Key[f] <= Key[d.last]
  BY <1>1 DEF WithQuote, IsAggregate
<1>5. d.open = Price[d.first] /\ d.close = Price[d.last]
  BY <1>1 DEF WithQuote, IsAggregate
<1>6. d.high = Highest(c.high, Price[e]) /\ d.low = Lowest(c.low, Price[e])
  BY DEF WithQuote
<1>7. \A f \in S \cup {e} : d.low <= Price[f] /\ Price[f] <= d.high
  BY <1>1, <1>6 DEF IsAggregate, Highest, Lowest
<1>8. /\ \E f \in S \cup {e} : d.low = Price[f]
      /\ \E f \in S \cup {e} : d.high = Price[f]
  BY <1>1, <1>6 DEF IsAggregate, Highest, Lowest
<1>9. d.activity = Cardinality(S \cup {e})
  <2>1. IsFiniteSet(S)
    BY FS_Subset
  <2>2. Cardinality(S \cup {e}) = Cardinality(S) + 1
    BY <2>1, FS_AddElement
  <2>3. QED
    BY <2>2 DEF WithQuote, IsAggregate
<1>10. QED
  BY <1>2, <1>3, <1>4, <1>5, <1>7, <1>8, <1>9 DEF IsAggregate

-----------------------------------------------------------------------------
(* The abstract store *)

MergeTypeOK ==
  /\ candle \in [Buckets -> Candles \cup {NoCandle}]
  /\ merged \subseteq Events

\* The inductive invariant: CandlesAggregate, and a bucket with quotes has a
\* candle (an aggregate could otherwise be the absent one).
MergeInv ==
  /\ MergeTypeOK
  /\ CandlesAggregate
  /\ \A b \in Buckets : MergedInto(b) # {} => candle[b] \in Candles

\* The empty store satisfies the invariant.
LEMMA MergeInit == Init => MergeInv
  BY DEF Init, MergeInv, MergeTypeOK, CandlesAggregate, MergedInto

\* Merging one more quote preserves the invariant, by the two lemmas above.
LEMMA MergeStep ==
  ASSUME MergeInv, NEW e \in Events, MergeQuote(e)
  PROVE  MergeInv'
<1> USE CandleAssumption, NoCandleAssumption
<1> DEFINE b == Bucket[e]
           c == Merge(candle[b], e)
<1>1. /\ candle \in [Buckets -> Candles \cup {NoCandle}]
      /\ merged \subseteq Events /\ e \notin merged
      /\ candle' = [candle EXCEPT ![b] = c]
      /\ merged' = merged \cup {e} /\ b \in Buckets
  BY DEF MergeInv, MergeTypeOK, MergeQuote
<1>2. MergedInto(b) \in SUBSET Events /\ e \in Events \ MergedInto(b)
  BY <1>1 DEF MergedInto
<1>3. c \in Candles /\ IsAggregate(c, MergedInto(b) \cup {e})
  <2>1. CASE MergedInto(b) = {}
    <3>1. candle[b] = NoCandle
      BY <1>1, <2>1 DEF MergeInv, CandlesAggregate
    <3>2. c = FromQuote(e) /\ MergedInto(b) \cup {e} = {e}
      BY <2>1, <3>1 DEF Merge
    <3>3. QED
      BY <3>2, FromQuoteAggregates
  <2>2. CASE MergedInto(b) # {}
    <3>1. IsAggregate(candle[b], MergedInto(b)) /\ candle[b] \in Candles
      BY <1>1, <2>2 DEF MergeInv, CandlesAggregate
    <3>2. c = WithQuote(candle[b], e)
      BY <3>1 DEF Merge
    <3>3. QED
      BY <1>2, <3>1, <3>2, WithQuoteAggregates
  <2>3. QED
    BY <2>1, <2>2
<1> HIDE DEF c
<1>4. ASSUME NEW x \in Buckets
      PROVE  /\ MergedInto(x)' = IF x = b THEN MergedInto(b) \cup {e} ELSE MergedInto(x)
             /\ candle'[x] = IF x = b THEN c ELSE candle[x]
  BY <1>1 DEF MergedInto
<1>5. MergeTypeOK'
  BY <1>1, <1>3 DEF MergeTypeOK
<1>6. ASSUME NEW x \in Buckets
      PROVE  /\ IF MergedInto(x)' = {} THEN candle'[x] = NoCandle
                                       ELSE IsAggregate(candle'[x], MergedInto(x)')
             /\ MergedInto(x)' # {} => candle'[x] \in Candles
  <2>1. CASE x = b
    <3>1. MergedInto(x)' = MergedInto(b) \cup {e} /\ candle'[x] = c
      BY <1>4, <2>1
    <3>2. MergedInto(x)' # {}
      BY <3>1
    <3>3. QED
      BY <1>3, <3>1, <3>2
  <2>2. CASE x # b
    <3>1. MergedInto(x)' = MergedInto(x) /\ candle'[x] = candle[x]
      BY <1>4, <2>2
    <3>2. QED
      BY <3>1 DEF MergeInv, CandlesAggregate
  <2>3. QED
    BY <2>1, <2>2
<1>7. CandlesAggregate'
  BY <1>6 DEF CandlesAggregate, IsAggregate
<1>8. QED
  BY <1>5, <1>6, <1>7 DEF MergeInv

\* A step that changes neither candle nor merged preserves the invariant.
LEMMA MergeStutter ==
  ASSUME MergeInv, UNCHANGED <<candle, merged>>
  PROVE  MergeInv'
  BY DEF MergeInv, MergeTypeOK, CandlesAggregate, IsAggregate, MergedInto

\* Merged atomically, in any order, the quotes of a minute give one candle:
\* their OHLC aggregate (from_quote and with_quote).
THEOREM AtomicCandlesAggregate == Spec => []CandlesAggregate
<1>1. MergeInv /\ [Next]_<<candle, merged>> => MergeInv'
  BY MergeStep, MergeStutter DEF Next
<1>2. MergeInv => CandlesAggregate
  BY DEF MergeInv
<1>3. QED
  BY MergeInit, <1>1, <1>2, PTL DEF Spec

-----------------------------------------------------------------------------
(* The optimistic loop *)

\* A transaction whose key was not touched holds the current candle.
CleanCopies ==
  \A w \in Workers :
    pc[w] = "exec" /\ ~dirty[w] => copy[w] = candle[Bucket[event[w]]]

\* The quote of a call under way is in no candle yet ...
UnmergedWork ==
  \A w \in Workers : pc[w] \in {"watch", "get", "exec"} => event[w] \notin merged

\* ... and is the quote of no other call.
OwnEvents ==
  \A v, w \in Workers : event[v] = event[w] /\ event[v] \in Events => v = w

\* A call under way has attempts left, and one that has not begun failed none.
AttemptsLeft ==
  \A w \in Workers :
    /\ pc[w] \in {"watch", "get", "exec"} => attempts[w] < UpdateRetryLimit
    /\ pc[w] = "idle" => attempts[w] = 0

\* The failed attempts of a call, the one that is doomed included, are paid
\* for by as many quotes merged into the candle it watches.
Doomed(w) == pc[w] \in {"get", "exec"} /\ dirty[w]
ConflictsPaid ==
  \A w \in Workers :
    pc[w] # "idle" =>
      attempts[w] + (IF Doomed(w) THEN 1 ELSE 0)
        <= Cardinality(MergedInto(Bucket[event[w]]))

UInv ==
  /\ UTypeOK /\ CleanCopies /\ UnmergedWork /\ OwnEvents
  /\ AttemptsLeft /\ ConflictsPaid

\* The calls begin with nothing in hand.
LEMMA UInitInv == UInit => UInv
  BY UpdateAssumption
  DEF UInit, Init, UInv, UTypeOK, CleanCopies, UnmergedWork, OwnEvents,
      AttemptsLeft, ConflictsPaid

\* Every branch of Merge returns a candle.
LEMMA MergeType ==
  ASSUME NEW c \in Candles \cup {NoCandle}, NEW e \in Events
  PROVE  Merge(c, e) \in Candles
<1> USE CandleAssumption
<1>1. FromQuote(e) \in Candles
  BY DEF FromQuote, Candles
<1>2. ASSUME c \in Candles PROVE WithQuote(c, e) \in Candles
  <2>1. /\ Highest(c.high, Price[e]) \in Nat /\ Lowest(c.low, Price[e]) \in Nat
        /\ c.activity + 1 \in Nat /\ Price[e] \in Nat
    BY <1>2 DEF Candles, Highest, Lowest
  <2>2. QED
    BY <1>2, <2>1 DEF WithQuote, Candles
<1>3. QED
  BY <1>1, <1>2 DEF Merge

\* The type invariant is preserved by every step of a call.
LEMMA UTypeStep ==
  ASSUME UTypeOK, AttemptsLeft, UNext
  PROVE  UTypeOK' /\ AttemptsLeft'
<1> USE CandleAssumption, UpdateAssumption DEF UTypeOK, AttemptsLeft
<1> DEFINE Goal == UTypeOK' /\ AttemptsLeft'
<1>1. ASSUME NEW w \in Workers, NEW e \in Events, CacheQuote(w, e) PROVE Goal
  BY <1>1 DEF CacheQuote
<1>2. ASSUME NEW w \in Workers, StoreStale(w) PROVE Goal
  BY <1>2 DEF StoreStale
<1>3. ASSUME NEW w \in Workers, Watch(w) PROVE Goal
  BY <1>3 DEF Watch
<1>4. ASSUME NEW w \in Workers, Get(w) PROVE Goal
  BY <1>4 DEF Get
<1>5. ASSUME NEW w \in Workers, Commit(w) PROVE Goal
  <2>1. event[w] \in Events /\ copy[w] \in Candles \cup {NoCandle}
    BY <1>5 DEF Commit
  <2>2. Merge(copy[w], event[w]) \in Candles
    BY <2>1, MergeType
  <2>3. QED
    BY <1>5, <2>1, <2>2 DEF Commit
<1>6. ASSUME NEW w \in Workers, Conflict(w) PROVE Goal
  BY <1>6 DEF Conflict
<1>7. QED
  BY <1>1, <1>2, <1>3, <1>4, <1>5, <1>6 DEF UNext, Call

\* The number of quotes in a candle is a natural number.
LEMMA MergedCount ==
  ASSUME merged \subseteq Events, NEW b
  PROVE  IsFiniteSet(MergedInto(b)) /\ Cardinality(MergedInto(b)) \in Nat
<1>1. MergedInto(b) \subseteq Events
  BY DEF MergedInto
<1>2. QED
  BY <1>1, CandleAssumption, FS_Subset, FS_CardinalityType

\* Every step preserves the inductive invariant. Commit is the interesting
\* one: it dooms the other transactions on its candle, which pays for their
\* next conflict and leaves only clean copies of the other candles.
LEMMA UStep ==
  ASSUME UInv, UNext
  PROVE  UInv'
<1> USE CandleAssumption, UpdateAssumption
<1>a. UTypeOK' /\ AttemptsLeft'
  BY UTypeStep DEF UInv
<1>b. \A b : Cardinality(MergedInto(b)) \in Nat
  BY MergedCount DEF UInv, UTypeOK
<1> DEFINE Goal == CleanCopies' /\ UnmergedWork' /\ OwnEvents' /\ ConflictsPaid'
           Same == merged' = merged => \A b : MergedInto(b)' = MergedInto(b)
<1>c. Same
  BY DEF MergedInto
<1>1. ASSUME NEW w \in Workers, NEW e \in Events, CacheQuote(w, e) PROVE Goal
  <2>1. CleanCopies' /\ UnmergedWork' /\ OwnEvents'
    BY <1>1 DEF CacheQuote, UInv, UTypeOK, CleanCopies, UnmergedWork, OwnEvents
  <2>2. ConflictsPaid'
    BY <1>1, <1>b, <1>c DEF CacheQuote, UInv, UTypeOK, AttemptsLeft, ConflictsPaid, Doomed
  <2>3. QED
    BY <2>1, <2>2
<1>2. ASSUME NEW w \in Workers, StoreStale(w) PROVE Goal
  <2>1. CleanCopies' /\ UnmergedWork' /\ OwnEvents'
    BY <1>2 DEF StoreStale, UInv, UTypeOK, CleanCopies, UnmergedWork, OwnEvents
  <2>2. ConflictsPaid'
    BY <1>2, <1>b, <1>c DEF StoreStale, UInv, UTypeOK, ConflictsPaid, Doomed
  <2>3. QED
    BY <2>1, <2>2
<1>3. ASSUME NEW w \in Workers, Watch(w) PROVE Goal
  <2>1. CleanCopies' /\ UnmergedWork' /\ OwnEvents'
    BY <1>3 DEF Watch, UInv, UTypeOK, CleanCopies, UnmergedWork, OwnEvents
  <2>2. ConflictsPaid'
    BY <1>3, <1>b, <1>c DEF Watch, UInv, UTypeOK, ConflictsPaid, Doomed
  <2>3. QED
    BY <2>1, <2>2
<1>4. ASSUME NEW w \in Workers, Get(w) PROVE Goal
  <2>1. CleanCopies' /\ UnmergedWork' /\ OwnEvents'
    BY <1>4 DEF Get, UInv, UTypeOK, CleanCopies, UnmergedWork, OwnEvents
  <2>2. ConflictsPaid'
    BY <1>4, <1>b, <1>c DEF Get, UInv, UTypeOK, ConflictsPaid, Doomed
  <2>3. QED
    BY <2>1, <2>2
<1>5. ASSUME NEW w \in Workers, Commit(w) PROVE Goal
  <2> DEFINE e == event[w]
  <2>1. /\ e \in Events /\ e \notin merged /\ merged' = merged \cup {e}
        /\ event' = event /\ attempts' = attempts
        /\ \A v \in Workers : v # w => pc'[v] = pc[v]
        /\ pc'[w] = "done"
    BY <1>5 DEF Commit, UInv, UTypeOK, UnmergedWork
  <2>2. CleanCopies'
    BY <1>5, <2>1 DEF Commit, UInv, UTypeOK, CleanCopies
  <2>3. UnmergedWork' /\ OwnEvents'
    BY <1>5, <2>1 DEF Commit, UInv, UTypeOK, UnmergedWork, OwnEvents
  <2> DEFINE Count(b) == Cardinality({f \in merged' : Bucket[f] = b})
  <2>4. ASSUME NEW b
        PROVE  Count(b) =
                 IF b = Bucket[e] THEN Cardinality(MergedInto(b)) + 1
                                  ELSE Cardinality(MergedInto(b))
    <3>1. IsFiniteSet(MergedInto(b)) /\ e \notin MergedInto(b)
      BY <2>1, MergedCount DEF MergedInto, UInv, UTypeOK
    <3>2. {f \in merged' : Bucket[f] = b} =
            IF b = Bucket[e] THEN MergedInto(b) \cup {e} ELSE MergedInto(b)
      BY <2>1 DEF MergedInto
    <3>3. QED
      BY <3>1, <3>2, FS_AddElement
  <2>5. \A v \in Workers : Doomed(v)' => Doomed(v) \/ Bucket[event[v]] = Bucket[e]
    BY <1>5, <2>1 DEF Commit, UInv, UTypeOK, Doomed
  <2>6. ConflictsPaid'
    <3>1. ASSUME NEW v \in Workers, pc'[v] # "idle"
          PROVE  attempts[v] + (IF Doomed(v)' THEN 1 ELSE 0)
                   <= Count(Bucket[event[v]])
      <4>1. pc[v] # "idle" /\ attempts[v] \in Nat
        BY <1>5, <2>1, <3>1 DEF Commit, UInv, UTypeOK
      <4>2. attempts[v] + (IF Doomed(v) THEN 1 ELSE 0)
              <= Cardinality(MergedInto(Bucket[event[v]]))
        BY <4>1 DEF UInv, ConflictsPaid
      <4>3. /\ Cardinality(MergedInto(Bucket[event[v]])) \in Nat
            /\ Count(Bucket[event[v]]) =
                 IF Bucket[event[v]] = Bucket[e]
                   THEN Cardinality(MergedInto(Bucket[event[v]])) + 1
                   ELSE Cardinality(MergedInto(Bucket[event[v]]))
        BY <1>b, <2>4
      <4>4. Doomed(v)' => Doomed(v) \/ Bucket[event[v]] = Bucket[e]
        BY <2>5
      <4> HIDE DEF Count
      <4>5. QED
        BY <4>1, <4>2, <4>3, <4>4
    <3>2. QED
      BY <2>1, <3>1 DEF ConflictsPaid, MergedInto
  <2>7. QED
    BY <2>2, <2>3, <2>6
<1>6. ASSUME NEW w \in Workers, Conflict(w) PROVE Goal
  <2>1. CleanCopies' /\ UnmergedWork' /\ OwnEvents'
    BY <1>6 DEF Conflict, UInv, UTypeOK, CleanCopies, UnmergedWork, OwnEvents
  <2>2. ConflictsPaid'
    BY <1>6, <1>b, <1>c DEF Conflict, UInv, UTypeOK, ConflictsPaid, Doomed
  <2>3. QED
    BY <2>1, <2>2
<1>7. Goal
  BY <1>1, <1>2, <1>3, <1>4, <1>5, <1>6 DEF UNext, Call
<1>8. QED
  BY <1>a, <1>7 DEF UInv

\* The invariant holds through every step and stutter.
LEMMA UInductive == UInv /\ [UNext]_uvars => UInv'
<1>1. ASSUME UInv, UNCHANGED uvars PROVE UInv'
  BY <1>1 DEF UInv, uvars, callVars, UTypeOK, CleanCopies, UnmergedWork, OwnEvents,
    AttemptsLeft, ConflictsPaid, Doomed, MergedInto
<1>2. QED
  BY <1>1, UStep

\* A step of the loop merges one quote or leaves the candles alone.
LEMMA StepMerges ==
  ASSUME UInv, [UNext]_uvars
  PROVE  [Next]_<<candle, merged>>
<1>1. ASSUME NEW w \in Workers, Commit(w) PROVE Next
  <2>1. event[w] \in Events /\ MergeQuote(event[w])
    BY <1>1 DEF UInv, Commit, UTypeOK, CleanCopies, UnmergedWork, MergeQuote
  <2>2. QED
    BY <2>1 DEF Next
<1>2. QED
  BY <1>1 DEF UNext, Call, CacheQuote, StoreStale, Watch, Get, Conflict, uvars

\* The optimistic loop implements the atomic merge: a commit is a merge of a
\* quote that was not merged before, every other step leaves the candles
\* alone (WATCH in cache_quote).
THEOREM OptimisticLoopIsAtomic == USpec => AtomicMerges
<1>1. UInit => Atomic!Init
  BY DEF UInit, Init, Atomic!Init, Buckets, Atomic!Buckets
<1>2. Next => Atomic!Next
  BY DEF Next, Atomic!Next, MergeQuote, Atomic!MergeQuote, Merge, Atomic!Merge,
    FromQuote, Atomic!FromQuote, WithQuote, Atomic!WithQuote,
    Highest, Atomic!Highest, Lowest, Atomic!Lowest
<1>3. UInv /\ [UNext]_uvars => [Atomic!Next]_<<candle, merged>>
  BY <1>2, StepMerges
<1>4. QED
  BY UInitInv, UInductive, <1>1, <1>3, PTL DEF USpec, AtomicMerges, Atomic!Spec

\* Whatever the interleaving of the calls, the hot candle of a minute is the
\* aggregate of the quotes committed to it (cache_quote).
THEOREM HotCandlesAggregate == USpec => []CandlesAggregate
<1>1. UInit => MergeInv
  BY MergeInit DEF UInit
<1>2. UInv /\ MergeInv /\ [UNext]_uvars => MergeInv'
  BY StepMerges, MergeStep, MergeStutter DEF Next
<1>3. MergeInv => CandlesAggregate
  BY DEF MergeInv
<1>4. QED
  BY UInitInv, UInductive, <1>1, <1>2, <1>3, PTL DEF USpec

\* An optimistic attempt fails only because another quote of the same minute
\* was merged, so exhausting the retries needs UpdateRetryLimit such quotes
\* (the WatchError loop of cache_quote).
THEOREM ConflictsPayForProgress == USpec => []ConflictsAreProgress
<1>1. ASSUME UInv, NEW w \in Workers, pc[w] # "idle"
      PROVE  attempts[w] <= Cardinality(MergedInto(Bucket[event[w]]))
  BY <1>1, MergedCount, CandleAssumption, UpdateAssumption
  DEF UInv, UTypeOK, ConflictsPaid
<1>2. UInv => ConflictsAreProgress
  BY <1>1 DEF ConflictsAreProgress
<1>3. QED
  BY UInitInv, UInductive, <1>2, PTL DEF USpec

\* A snapshot never shows a quote that the candles miss, unless the quote was
\* too old for them: the latest quote is written in the transaction that merges
\* it (MULTI in cache_quote).
THEOREM LatestQuoteInHistory == USpec => []LatestInHistory
<1>1. UInit => LatestInHistory
  BY DEF UInit, LatestInHistory
<1>2. ASSUME UInv, LatestInHistory, [UNext]_uvars PROVE LatestInHistory'
  <2>1. merged \subseteq merged' /\ stale \subseteq stale'
    BY <1>2 DEF UNext, Call, CacheQuote, StoreStale, Watch, Get, Commit, Conflict, uvars
  <2>2. \/ latest' = latest
        \/ \E e \in merged' \cup stale' : latest' = [latest EXCEPT ![SymbolOf[e]] = e]
    BY <1>2 DEF UNext, Call, CacheQuote, StoreStale, Watch, Get, Commit, Conflict, uvars
  <2>3. \A s \in DOMAIN latest : latest[s] # NoEvent => latest[s] \in merged' \cup stale'
    BY <1>2, <2>1 DEF LatestInHistory
  <2>4. QED
    BY <2>2, <2>3 DEF LatestInHistory
<1>3. QED
  BY UInitInv, UInductive, <1>1, <1>2, PTL DEF USpec
=============================================================================
