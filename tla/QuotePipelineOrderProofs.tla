---------------------- MODULE QuotePipelineOrderProofs ----------------------
(***************************************************************************)
(* What QuotePipeline guarantees about the order of quotes when one        *)
(* gateway instance runs, for any number of events, entries, faults and    *)
(* crashes: the stored sequence number never decreases, and up to the      *)
(* first failure gaps are noticed and the cache follows the stream. With   *)
(* two instances none of them holds: the GET and the SET of                *)
(* observe_sequence interleave, and cache_quote overwrites in the order of *)
(* arrival.                                                                *)
(***************************************************************************)
EXTENDS QuotePipelineProofs

\* There is one gateway instance.
OneProcessor == \E p \in Processors : \A q \in Processors : q = p

-----------------------------------------------------------------------------
(* The inductive invariants *)

\* What observe_sequence has read is still stored when it compares.
ReadIsStored ==
  \A p \in Processors : pc[p] = "compare" => previous[p] = seqKey[Symbol[Quote(p)]]

\* The numbers observed for s have no hole and end with the stored one.
Unbroken(s) ==
  IF seqKey[s] = NoSequence THEN ObservedNumbers(s) = {}
  ELSE \E first \in 0..seqKey[s] : ObservedNumbers(s) = first..seqKey[s]

NumbersOK ==
  Undisturbed => \A s \in Symbols : Unbroken(s) \/ \E e \in flagged : Symbol[e] = s

\* The group has delivered what is pending, acknowledged, in a batch or in
\* hand, and a processor that polls has finished its batch.
DeliveredOK ==
  /\ pending \subseteq 1..cursor /\ acked \subseteq 1..cursor
  /\ \A p \in Processors :
       /\ batch[p] \subseteq 1..cursor
       /\ pc[p] \in Processing \cup Handling => entry[p] \in 1..cursor
       /\ pc[p] = "poll" => batch[p] = {}

IsQuote(i) == stream[i] # Malformed

\* Only malformed entries fail, every pending quote is in the batch or in hand,
\* the entry in hand precedes the batch, and acknowledged quotes precede both.
HandOK(p) ==
  /\ pc[p] # "recover" /\ (pc[p] \in Handling => Quote(p) = Malformed)
  /\ \A i \in pending : IsQuote(i) =>
       i \in batch[p] \/ (pc[p] \in Processing /\ i = entry[p])
  /\ pc[p] \in Processing => \A i \in batch[p] : entry[p] < i
  /\ \A j \in acked : IsQuote(j) =>
       /\ \A i \in batch[p] : IsQuote(i) => j < i
       /\ pc[p] \in Processing => j < entry[p]

\* Entry j was acknowledged, or it is in the hands of p in one of the stages.
Passed(p, j, stages) == j \in acked \/ (pc[p] \in stages /\ entry[p] = j)

\* A dedupe key belongs to an entry that is past accept_event_once, and a
\* duplicate to an earlier entry.
KeysOK(p) ==
  /\ \A e \in dedupe : \E k \in 1..Len(stream) :
       stream[k] = e /\ Passed(p, k, Processing \ {"accept"})
  /\ pc[p] = "duplicate" => \E k \in 1..(entry[p] - 1) : stream[k] = Quote(p)

\* Entry j is malformed, repeats an earlier one, or is not newer than the
\* cached quote.
Superseded(j) ==
  \/ stream[j] = Malformed
  \/ \E k \in 1..(j - 1) : stream[k] = stream[j]
  \/ \E i \in j..Len(stream) : stream[i] = latest[Symbol[stream[j]]]

\* LatestIsNewest, for the quote in hand too once it is cached.
LatestOK(p) ==
  \A j \in 1..Len(stream) : Passed(p, j, {"fanout", "ack"}) => Superseded(j)

InOrder(p) == HandOK(p) /\ KeysOK(p) /\ LatestOK(p)

OrderInv == DeliveredOK /\ (Undisturbed => \A p \in Processors : InOrder(p))

-----------------------------------------------------------------------------
(* Sequence numbers *)

\* Failures are never undone.
LEMMA DisturbedStays ==
  ASSUME TypeOK, [Next]_vars, Undisturbed'
  PROVE  Undisturbed
<1> USE PipelineAssumption DEF TypeOK, Undisturbed
<1>1. ASSUME NEW p \in Processors, Step(p) PROVE Undisturbed
  <2>1. crashes' = crashes /\ (faults' = faults \/ faults' = faults + 1)
    BY <1>1 DEF Step, ReadGroup, ClaimStale, NextMessage, EndOfBatch, Recover, AcceptEventOnce,
                ReadSequence, CompareSequence, MarkDegraded, CacheQuote, PublishFanout, Ack,
                IncrementRetry, MoveToDeadLetter, Reply
  <2>2. QED
    BY <2>1
<1>2. ASSUME NEW p \in Processors, RequestFails(p) \/ Crash(p) PROVE Undisturbed
  BY <1>2 DEF RequestFails, Crash
<1>3. QED
  BY <1>1, <1>2 DEF Next, PublishQuote, DedupeKeyExpires, vars

\* The steps that do not touch the sequence keys.
LEMMA SequenceKept ==
  ASSUME [Next]_vars, ~ \E p \in Processors : CompareSequence(p)
  PROVE  UNCHANGED <<seqKey, observed, flagged>>
BY DEF Next, Step, PublishQuote, DedupeKeyExpires, ReadGroup, ClaimStale, NextMessage,
       EndOfBatch, Recover, AcceptEventOnce, ReadSequence, MarkDegraded, CacheQuote,
       PublishFanout, Ack, IncrementRetry, MoveToDeadLetter, RequestFails, Crash,
       vars, redisVars, historyVars

\* Nobody else stores a number between the GET and the SET (observe_sequence).
LEMMA StoredStep ==
  ASSUME OneProcessor, TypeOK, InHandOK, ReadIsStored, [Next]_vars
  PROVE  ReadIsStored'
<1>1. ASSUME NEW payload \in Payloads, PublishQuote(payload)
      PROVE  ReadIsStored'
  <2>1. /\ \A i \in 1..Len(stream) : stream'[i] = stream[i]
        /\ UNCHANGED <<pc, entry, previous, seqKey>>
    BY <1>1, AppendKeeps DEF PublishQuote, TypeOK, localVars
  <2>2. QED
    BY <2>1 DEF ReadIsStored, InHandOK, Processing, Quote
<1>2. ASSUME NEW e \in Events, DedupeKeyExpires(e)
      PROVE  ReadIsStored'
  BY <1>2 DEF DedupeKeyExpires, localVars, ReadIsStored, Quote
<1>3. ASSUME NEW p \in Processors, ReadSequence(p)
      PROVE  ReadIsStored'
  <2>1. UNCHANGED <<stream, entry, seqKey>> /\ \A q \in Processors : q = p
    BY <1>3 DEF ReadSequence, redisVars, OneProcessor
  <2>2. CASE Number(p) = NoSequence
    BY <1>3, <2>1, <2>2 DEF ReadSequence, ReadIsStored, TypeOK
  <2>3. CASE Number(p) # NoSequence
    BY <1>3, <2>1, <2>3 DEF ReadSequence, ReadIsStored, TypeOK, Quote
  <2>4. QED
    BY <2>2, <2>3
<1>4. ASSUME NEW p \in Processors, Step(p) \/ RequestFails(p) \/ Crash(p), ~ReadSequence(p)
      PROVE  ReadIsStored'
  <2>1. pc'[p] # "compare"
    BY <1>4, Moves, LocalSteps DEF Step
  <2>2. QED
    BY <2>1 DEF OneProcessor, ReadIsStored
<1>5. CASE UNCHANGED vars
  BY <1>5 DEF vars, redisVars, localVars, ReadIsStored, Quote
<1>6. QED
  BY <1>1, <1>2, <1>3, <1>4, <1>5 DEF Next

\* The SET of observe_sequence and its anomaly keep the observed numbers
\* without a hole or flag one of their events.
LEMMA CompareKeeps ==
  ASSUME TypeOK, InHandOK, ReadIsStored, NumbersOK, Undisturbed, Undisturbed',
         NEW p \in Processors, CompareSequence(p)
  PROVE  NumbersOK'
<1> DEFINE e == Quote(p)
           n == Number(p)
           t == Symbol[e]
<1> USE PipelineAssumption
<1>1. /\ pc[p] = "compare" /\ e \in Events /\ n \in Nat /\ n = Sequence[e] /\ t \in Symbols
      /\ previous[p] = seqKey[t]
  BY DEF CompareSequence, InHandOK, ReadIsStored, Processing, Number, Symbols
<1>2. pc'[p] = IF Anomalous(p) THEN "degrade" ELSE "cache"
  <2>1. CASE Advances(p)
    BY <2>1, UndisturbedReply DEF CompareSequence, Undisturbed
  <2>2. CASE ~Advances(p)
    BY <2>2 DEF CompareSequence, TypeOK
  <2>3. QED
    BY <2>1, <2>2
<1>3. /\ observed' = observed \cup {e}
      /\ flagged' = IF Anomalous(p) THEN flagged \cup {e} ELSE flagged
      /\ seqKey' = IF Advances(p) THEN [seqKey EXCEPT ![t] = n] ELSE seqKey
  BY <1>2 DEF CompareSequence
<1>4. ASSUME NEW s \in Symbols
      PROVE  ObservedNumbers(s)' = IF s = t THEN ObservedNumbers(s) \cup {n} ELSE ObservedNumbers(s)
  BY <1>1, <1>3 DEF ObservedNumbers
<1>5. seqKey \in [Symbols -> Nat \cup {NoSequence}] /\ seqKey[t] \in Nat \cup {NoSequence}
  BY <1>1 DEF TypeOK
<1>6. ASSUME NEW s \in Symbols
      PROVE  Unbroken(s)' \/ \E f \in flagged' : Symbol[f] = s
  <2>1. CASE \E f \in flagged : Symbol[f] = s
    BY <1>3, <2>1
  <2>2. CASE s # t /\ Unbroken(s)
    <3>1. seqKey'[s] = seqKey[s] /\ ObservedNumbers(s)' = ObservedNumbers(s)
      BY <1>3, <1>4, <1>5, <2>2
    <3>2. QED
      BY <2>2, <3>1 DEF Unbroken
  <2>3. CASE s = t /\ Anomalous(p)
    BY <1>3, <2>3
  <2>4. CASE s = t /\ ~Anomalous(p) /\ Unbroken(s)
    <3>1. ObservedNumbers(s)' = ObservedNumbers(s) \cup {n}
      BY <1>4, <2>4
    <3>2. CASE seqKey[s] = NoSequence
      <4>1. seqKey'[s] = n /\ ObservedNumbers(s) = {}
        BY <1>1, <1>3, <1>5, <2>4, <3>2 DEF Advances, Unbroken
      <4>2. ObservedNumbers(s)' = n..n /\ n \in 0..n /\ n # NoSequence
        BY <1>1, <3>1, <4>1
      <4> HIDE DEF n, t
      <4>3. QED
        BY <2>4, <4>1, <4>2 DEF Unbroken
    <3>3. CASE seqKey[s] # NoSequence
      <4>1. seqKey[s] \in Nat /\ n = seqKey[s] + 1
        BY <1>1, <1>5, <2>4, <3>3 DEF Anomalous
      <4>2. seqKey'[s] = n
        BY <1>1, <1>3, <1>5, <2>4, <3>3, <4>1 DEF Advances
      <4>3. PICK first \in 0..seqKey[s] : ObservedNumbers(s) = first..seqKey[s]
        BY <2>4, <3>3 DEF Unbroken
      <4>4. ObservedNumbers(s)' = first..n /\ first \in 0..n /\ n # NoSequence
        BY <1>1, <3>1, <4>1, <4>3
      <4> HIDE DEF n, t
      <4>5. QED
        BY <2>4, <4>2, <4>4 DEF Unbroken
    <3>4. QED
      BY <3>2, <3>3
  <2>5. QED
    BY <2>1, <2>2, <2>3, <2>4 DEF NumbersOK
<1>7. QED
  BY <1>6 DEF NumbersOK

\* Every step keeps the observed numbers without an unnoticed hole.
LEMMA NumbersStep ==
  ASSUME TypeOK, InHandOK, ReadIsStored, NumbersOK, [Next]_vars
  PROVE  NumbersOK'
<1> SUFFICES ASSUME Undisturbed' PROVE NumbersOK'
  BY DEF NumbersOK
<1>1. Undisturbed
  BY DisturbedStays
<1>2. CASE \E p \in Processors : CompareSequence(p)
  BY <1>1, <1>2, CompareKeeps
<1>3. CASE ~ \E p \in Processors : CompareSequence(p)
  <2>1. UNCHANGED <<seqKey, observed, flagged>>
    BY <1>3, SequenceKept
  <2>2. QED
    BY <1>1, <2>1 DEF NumbersOK, Unbroken, ObservedNumbers
<1>4. QED
  BY <1>2, <1>3

\* With one instance the stored sequence number of a symbol never decreases,
\* also across failures and restarts (observe_sequence).
THEOREM StoredNumberGrows == OneProcessor => (Spec => SequenceNeverDecreases)
<1> SUFFICES ASSUME OneProcessor PROVE Spec => SequenceNeverDecreases
  OBVIOUS
<1>1. Init => ReadIsStored
  BY DEF Init, ReadIsStored
<1>2. PipelineInv /\ ReadIsStored /\ [Next]_vars => ReadIsStored'
  BY StoredStep DEF PipelineInv
<1>3. PipelineInv /\ ReadIsStored /\ [Next]_vars =>
        [\A s \in Symbols : seqKey[s] # NoSequence => seqKey'[s] >= seqKey[s]]_vars
  <2> SUFFICES ASSUME PipelineInv, ReadIsStored, [Next]_vars, NEW s \in Symbols,
                      seqKey[s] # NoSequence
               PROVE  seqKey'[s] >= seqKey[s]
    OBVIOUS
  <2>1. seqKey[s] \in Nat /\ seqKey \in [Symbols -> Nat \cup {NoSequence}]
    BY DEF PipelineInv, TypeOK
  <2>2. CASE ~ \E p \in Processors : CompareSequence(p)
    BY <2>1, <2>2, SequenceKept
  <2>3. ASSUME NEW p \in Processors, CompareSequence(p)
        PROVE  seqKey'[s] >= seqKey[s]
    <3>1. /\ previous[p] = seqKey[Symbol[Quote(p)]] /\ Number(p) \in Nat
      BY <2>3 DEF CompareSequence, ReadIsStored, PipelineInv, InHandOK
    <3>2. \/ seqKey' = seqKey
          \/ Advances(p) /\ seqKey' = [seqKey EXCEPT ![Symbol[Quote(p)]] = Number(p)]
      BY <2>3 DEF CompareSequence
    <3>3. QED
      BY <2>1, <3>1, <3>2 DEF Advances
  <2>4. QED
    BY <2>2, <2>3
<1>4. QED
  BY <1>1, <1>2, <1>3, PipelineInvariant, PTL DEF Spec, SequenceNeverDecreases

\* With one instance and up to the first failure, a hole in the observed
\* numbers of a symbol was noticed (observe_sequence, gap_events).
THEOREM GapsAreFlagged == OneProcessor => (Spec => []GapsFlagged)
<1> SUFFICES ASSUME OneProcessor PROVE Spec => []GapsFlagged
  OBVIOUS
<1>1. Init => ReadIsStored /\ NumbersOK
  BY DEF Init, ReadIsStored, NumbersOK, Unbroken, ObservedNumbers
<1>2. PipelineInv /\ ReadIsStored /\ NumbersOK /\ [Next]_vars => ReadIsStored' /\ NumbersOK'
  BY StoredStep, NumbersStep DEF PipelineInv
<1>3. PipelineInv /\ NumbersOK => GapsFlagged
  <2> SUFFICES ASSUME PipelineInv, NEW s \in Symbols, Unbroken(s),
                      NEW a \in ObservedNumbers(s), NEW b \in ObservedNumbers(s)
               PROVE  a..b \subseteq ObservedNumbers(s)
    BY DEF NumbersOK, GapsFlagged
  <2>1. PICK first \in 0..seqKey[s] : ObservedNumbers(s) = first..seqKey[s]
    BY DEF Unbroken
  <2>2. seqKey[s] \in Nat
    BY DEF PipelineInv, TypeOK, Unbroken
  <2>3. QED
    BY <2>1, <2>2
<1>4. QED
  BY <1>1, <1>2, <1>3, PipelineInvariant, PTL DEF Spec

-----------------------------------------------------------------------------
(* The order of the entries *)

\* Every step keeps what is known of the delivered entries.
LEMMA DeliveredStep ==
  ASSUME TypeOK, InHandOK, DeliveredOK, [Next]_vars
  PROVE  DeliveredOK'
<1> USE DEF DeliveredOK
<1>1. ASSUME NEW p \in Processors, ReadGroup(p)
      PROVE  DeliveredOK'
  <2> DEFINE last == Min2(FirstUnread + BatchCount - 1, Len(stream))
             new == FirstUnread..last
  <2>1. /\ new # {} /\ cursor' = last /\ pending' = pending \cup new
        /\ batch' = [batch EXCEPT ![p] = IF pc'[p] = "batch" THEN new ELSE {}]
        /\ UNCHANGED <<acked, entry>> /\ pc[p] = "poll"
    BY <1>1 DEF ReadGroup, historyVars
  <2>2. FirstUnread \in Nat /\ FirstUnread > cursor /\ last \in Nat /\ cursor \in Nat
    BY PipelineAssumption DEF FirstUnread, Max2, Min2, TypeOK
  <2> HIDE DEF last
  <2>3. new \subseteq 1..last /\ 1..cursor \subseteq 1..last
    BY <2>1, <2>2
  <2>4. pc'[p] \in {"batch", "recover"} /\ \A q \in Processors : q # p => pc'[q] = pc[q]
    BY <1>1, Moves, RoundTripSteps DEF RoundTrip
  <2> HIDE DEF new
  <2>5. ASSUME NEW q \in Processors
        PROVE  /\ batch'[q] \subseteq 1..last
               /\ pc'[q] \in Processing \cup Handling => entry'[q] \in 1..last
               /\ pc'[q] = "poll" => batch'[q] = {}
    <3>1. CASE q = p
      BY <2>1, <2>3, <2>4, <3>1 DEF TypeOK, Processing, Handling
    <3>2. CASE q # p
      BY <2>1, <2>3, <2>4, <3>2 DEF TypeOK
    <3>3. QED
      BY <3>1, <3>2
  <2>6. QED
    BY <2>1, <2>3, <2>5
<1>2. ASSUME NEW p \in Processors, ClaimStale(p)
      PROVE  DeliveredOK'
  <2>1. /\ cursor' = cursor /\ pending' \subseteq pending /\ UNCHANGED <<acked, entry>>
        /\ \E b \in SUBSET pending : batch' = [batch EXCEPT ![p] = b]
    BY <1>2 DEF ClaimStale, historyVars
  <2>2. pc'[p] \in {"batch", "recover"} /\ \A q \in Processors : q # p => pc'[q] = pc[q]
    BY <1>2, Moves, RoundTripSteps DEF RoundTrip
  <2>3. QED
    BY <2>1, <2>2 DEF TypeOK, Processing, Handling
<1>3. ASSUME NEW p \in Processors, NextMessage(p)
      PROVE  DeliveredOK'
  <2>1. PICK i \in batch[p] : /\ entry' = [entry EXCEPT ![p] = i]
                              /\ batch' = [batch EXCEPT ![p] = @ \ {i}]
    BY <1>3 DEF NextMessage
  <2>2. UNCHANGED <<cursor, pending, acked>> /\ pc'[p] # "poll"
    BY <1>3 DEF NextMessage, redisVars, historyVars, TypeOK
  <2>3. \A q \in Processors : q # p => pc'[q] = pc[q]
    BY <1>3, LocalSteps
  <2>4. QED
    BY <2>1, <2>2, <2>3 DEF TypeOK
<1>4. ASSUME NEW p \in Processors, EndOfBatch(p) \/ Recover(p) \/ Crash(p)
      PROVE  DeliveredOK'
  <2>1. ToPoll(p) /\ UNCHANGED <<cursor, pending, acked>>
    BY <1>4 DEF EndOfBatch, Recover, Crash, redisVars, historyVars
  <2>2. batch'[p] = {} /\ pc'[p] \notin Processing \cup Handling
    BY <2>1 DEF ToPoll, TypeOK, Processing, Handling
  <2>3. \A q \in Processors : q # p =>
          batch'[q] = batch[q] /\ pc'[q] = pc[q] /\ entry'[q] = entry[q]
    BY <2>1 DEF ToPoll, TypeOK
  <2>4. ASSUME NEW q \in Processors
        PROVE  /\ batch'[q] \subseteq 1..cursor
               /\ pc'[q] \in Processing \cup Handling => entry'[q] \in 1..cursor
               /\ pc'[q] = "poll" => batch'[q] = {}
    <3>1. CASE q = p
      BY <2>2, <3>1
    <3>2. CASE q # p
      BY <2>3, <3>2
    <3>3. QED
      BY <3>1, <3>2
  <2>5. QED
    BY <2>1, <2>4
<1>5. ASSUME NEW p \in Processors, Ack(p)
      PROVE  DeliveredOK'
  <2>1. /\ UNCHANGED <<cursor, batch, entry>> /\ pending' \subseteq pending
        /\ acked' = acked \cup {entry[p]} /\ entry[p] \in 1..cursor
    BY <1>5 DEF Ack, Processing, Handling
  <2>2. pc'[p] # "poll" /\ pc[p] \in Processing \cup Handling
    BY <1>5, Moves DEF Ack, Processing, Handling
  <2>3. \A q \in Processors : q # p => pc'[q] = pc[q]
    BY <1>5, RoundTripSteps DEF RoundTrip
  <2>4. QED
    BY <2>1, <2>2, <2>3
<1>6. ASSUME NEW p \in Processors,
             \/ AcceptEventOnce(p) \/ ReadSequence(p) \/ CompareSequence(p)
             \/ MarkDegraded(p) \/ CacheQuote(p) \/ PublishFanout(p)
             \/ IncrementRetry(p) \/ MoveToDeadLetter(p) \/ RequestFails(p)
      PROVE  DeliveredOK'
  <2>1. UNCHANGED <<cursor, pending, acked, batch, entry>>
    BY <1>6 DEF AcceptEventOnce, ReadSequence, CompareSequence, MarkDegraded, CacheQuote,
                PublishFanout, IncrementRetry, MoveToDeadLetter, RequestFails, redisVars,
                historyVars
  <2>2. pc'[p] # "poll" /\ (pc[p] \in Processing \cup Handling \/ pc'[p] = "recover")
    <3>1. pc'[p] # "poll"
      BY <1>6, Moves
    <3>2. CASE RequestFails(p)
      BY <3>1, <3>2, Moves DEF RequestFails
    <3>3. CASE ~RequestFails(p)
      <4>1. pc[p] \in {"accept", "observe", "compare", "degrade", "cache", "fanout", "failure",
                       "deadletter"}
        BY <1>6, <3>3 DEF AcceptEventOnce, ReadSequence, CompareSequence, MarkDegraded,
                          CacheQuote, PublishFanout, IncrementRetry, MoveToDeadLetter
      <4>2. QED
        BY <3>1, <4>1 DEF Processing, Handling
    <3>4. QED
      BY <3>1, <3>2, <3>3
  <2>3. \A q \in Processors : q # p => pc'[q] = pc[q]
    BY <1>6, RoundTripSteps DEF RoundTrip
  <2>4. QED
    BY <2>1, <2>2, <2>3 DEF Processing, Handling
<1>7. CASE \/ \E payload \in Payloads : PublishQuote(payload)
           \/ \E e \in Events : DedupeKeyExpires(e)
           \/ UNCHANGED vars
  BY <1>7 DEF PublishQuote, DedupeKeyExpires, vars, redisVars, localVars, historyVars
<1>8. QED
  BY <1>1, <1>2, <1>3, <1>4, <1>5, <1>6, <1>7 DEF Next, Step

\* A stage of the handler that reads or writes none of the keys the order
\* depends on, observe_sequence and publish_fanout among them.
LEMMA QuietKeeps ==
  ASSUME NEW p \in Processors, InOrder(p),
         UNCHANGED <<stream, pending, acked, dedupe, latest, batch, entry>>,
         pc[p] \in Processing \ {"accept", "duplicate"},
         pc'[p] \in Processing \ {"accept", "duplicate"},
         pc'[p] \in {"fanout", "ack"} => pc[p] \in {"fanout", "ack"}
  PROVE  InOrder(p)'
<1>1. HandOK(p)'
  BY DEF InOrder, HandOK, IsQuote, Quote, Processing, Handling
<1>2. KeysOK(p)'
  BY DEF InOrder, KeysOK, Passed
<1>3. LatestOK(p)'
  BY DEF InOrder, LatestOK, Passed, Superseded
<1>4. QED
  BY <1>1, <1>2, <1>3 DEF InOrder

\* A malformed entry goes through _handle_failure without touching the order.
LEMMA HandlingKeeps ==
  ASSUME NEW p \in Processors, InOrder(p),
         UNCHANGED <<stream, pending, acked, dedupe, latest, batch, entry>>,
         pc[p] \in Handling, pc'[p] \in Handling \cup {"batch"}
  PROVE  InOrder(p)'
<1>1. HandOK(p)'
  BY DEF InOrder, HandOK, IsQuote, Quote, Processing, Handling
<1>2. KeysOK(p)'
  BY DEF InOrder, KeysOK, Passed, Processing, Handling
<1>3. LatestOK(p)'
  BY DEF InOrder, LatestOK, Passed, Superseded, Handling
<1>4. QED
  BY <1>1, <1>2, <1>3 DEF InOrder

\* An append keeps the order (publish_quote).
LEMMA PublishOrder ==
  ASSUME TypeOK, InHandOK, DeliveredOK, NEW p \in Processors, InOrder(p),
         NEW payload \in Payloads, PublishQuote(payload)
  PROVE  InOrder(p)'
<1>1. /\ Len(stream') = Len(stream) + 1 /\ Len(stream) \in Nat
      /\ \A i \in 1..Len(stream) : stream'[i] = stream[i]
      /\ UNCHANGED <<cursor, pending, acked, dedupe, latest, pc, batch, entry>>
  BY AppendKeeps DEF PublishQuote, TypeOK, localVars, historyVars
<1>2. /\ pending \subseteq 1..Len(stream) /\ acked \subseteq 1..Len(stream)
      /\ batch[p] \subseteq 1..Len(stream)
      /\ pc[p] \in Processing \cup Handling => entry[p] \in 1..Len(stream)
  BY DEF TypeOK, InHandOK
<1>3. pc[p] \in Processing \cup Handling => Quote(p)' = Quote(p)
  BY <1>1, <1>2 DEF Quote
<1>4. HandOK(p)'
  BY <1>1, <1>2, <1>3 DEF InOrder, HandOK, IsQuote
<1>5. KeysOK(p)'
  <2>1. ASSUME NEW e \in dedupe'
        PROVE  \E k \in 1..Len(stream') : stream'[k] = e /\ Passed(p, k, Processing \ {"accept"})'
    <3>1. PICK k \in 1..Len(stream) : stream[k] = e /\ Passed(p, k, Processing \ {"accept"})
      BY <1>1 DEF InOrder, KeysOK
    <3>2. k \in 1..Len(stream') /\ stream'[k] = e
      BY <1>1, <3>1
    <3>3. QED
      BY <1>1, <3>1, <3>2 DEF Passed
  <2>2. ASSUME pc[p] = "duplicate"
        PROVE  \E k \in 1..(entry[p] - 1) : stream'[k] = Quote(p)
    <3>1. PICK k \in 1..(entry[p] - 1) : stream[k] = Quote(p)
      BY <2>2 DEF InOrder, KeysOK
    <3>2. k \in 1..Len(stream)
      BY <1>1, <1>2, <2>2 DEF Processing
    <3>3. QED
      BY <1>1, <3>1, <3>2
  <2>3. pc[p] = "duplicate" => \E k \in 1..(entry'[p] - 1) : stream'[k] = Quote(p)'
    BY <1>1, <1>3, <2>2 DEF Processing
  <2>4. QED
    BY <1>1, <2>1, <2>3 DEF KeysOK
<1>6. ASSUME NEW j \in 1..Len(stream'), Passed(p, j, {"fanout", "ack"})'
      PROVE  Superseded(j)'
  <2>1. j \in 1..Len(stream) /\ Passed(p, j, {"fanout", "ack"})
    BY <1>1, <1>2, <1>6 DEF Passed, Processing
  <2>2. Superseded(j) /\ stream'[j] = stream[j]
    BY <1>1, <2>1 DEF InOrder, LatestOK
  <2>3. CASE \E k \in 1..(j - 1) : stream[k] = stream[j]
    <3>1. PICK k \in 1..(j - 1) : stream[k] = stream[j]
      BY <2>3
    <3>2. k \in 1..Len(stream)
      BY <1>1, <2>1
    <3>3. QED
      BY <1>1, <2>2, <3>1, <3>2 DEF Superseded
  <2>4. CASE \E i \in j..Len(stream) : stream[i] = latest[Symbol[stream[j]]]
    <3>1. PICK i \in j..Len(stream) : stream[i] = latest[Symbol[stream[j]]]
      BY <2>4
    <3>2. i \in 1..Len(stream) /\ i \in j..Len(stream')
      BY <1>1, <2>1
    <3>3. QED
      BY <1>1, <2>2, <3>1, <3>2 DEF Superseded
  <2>5. QED
    BY <2>2, <2>3, <2>4 DEF Superseded
<1>7. QED
  BY <1>4, <1>5, <1>6 DEF InOrder, LatestOK

\* New entries follow all the others (XREADGROUP).
LEMMA ReadOrder ==
  ASSUME TypeOK, DeliveredOK, NEW p \in Processors, InOrder(p), ReadGroup(p), faults' = 0
  PROVE  InOrder(p)'
<1> DEFINE last == Min2(FirstUnread + BatchCount - 1, Len(stream))
           new == FirstUnread..last
<1>1. /\ pc[p] = "poll" /\ pc'[p] = "batch" /\ pending' = pending \cup new
      /\ batch' = [batch EXCEPT ![p] = new]
      /\ UNCHANGED <<stream, acked, dedupe, latest, entry>>
  BY UndisturbedReply DEF ReadGroup, historyVars
<1>2. FirstUnread \in Nat /\ FirstUnread > cursor /\ cursor \in Nat /\ last \in Int
  BY PipelineAssumption DEF FirstUnread, Max2, Min2, TypeOK
<1>3. batch[p] = {} /\ batch'[p] = new
  BY <1>1 DEF DeliveredOK, TypeOK
<1> HIDE DEF last
<1>4. ASSUME NEW j \in acked, NEW i \in new PROVE j < i
  <2>1. j \in 1..cursor
    BY DEF DeliveredOK
  <2>2. QED
    BY <1>2, <2>1
<1> HIDE DEF new
<1>5. HandOK(p)'
  BY <1>1, <1>3, <1>4 DEF InOrder, HandOK, IsQuote, Processing, Handling
<1>6. KeysOK(p)'
  BY <1>1 DEF InOrder, KeysOK, Passed, Processing
<1>7. LatestOK(p)'
  BY <1>1 DEF InOrder, LatestOK, Passed, Superseded
<1>8. QED
  BY <1>5, <1>6, <1>7 DEF InOrder

\* Without a failure only malformed entries are left to be claimed
\* (_claim_stale).
LEMMA ClaimOrder ==
  ASSUME TypeOK, DeliveredOK, NEW p \in Processors, InOrder(p), ClaimStale(p), faults' = 0
  PROVE  InOrder(p)'
<1>1. /\ pc[p] = "poll" /\ pc'[p] = "batch" /\ pending' \subseteq pending
      /\ UNCHANGED <<stream, acked, dedupe, latest, entry>>
  BY UndisturbedReply DEF ClaimStale, historyVars
<1>2. PICK b \in SUBSET pending : batch' = [batch EXCEPT ![p] = b]
  BY DEF ClaimStale
<1>3. batch[p] = {} /\ batch'[p] = b
  BY <1>1, <1>2 DEF DeliveredOK, TypeOK
<1>4. \A i \in pending : ~IsQuote(i)
  BY <1>1, <1>3 DEF InOrder, HandOK, Processing
<1>5. HandOK(p)'
  BY <1>1, <1>3, <1>4 DEF InOrder, HandOK, IsQuote, Processing, Handling
<1>6. KeysOK(p)'
  BY <1>1 DEF InOrder, KeysOK, Passed, Processing
<1>7. LatestOK(p)'
  BY <1>1 DEF InOrder, LatestOK, Passed, Superseded
<1>8. QED
  BY <1>5, <1>6, <1>7 DEF InOrder

\* The next message is the first of the batch (run).
LEMMA NextOrder ==
  ASSUME TypeOK, NEW p \in Processors, InOrder(p), NextMessage(p)
  PROVE  InOrder(p)'
<1>1. PICK i \in batch[p] :
        /\ \A j \in batch[p] : i <= j
        /\ entry' = [entry EXCEPT ![p] = i]
        /\ batch' = [batch EXCEPT ![p] = @ \ {i}]
        /\ pc' = [pc EXCEPT ![p] = IF stream[i] = Malformed THEN "failure" ELSE "accept"]
  BY DEF NextMessage
<1>2. pc[p] = "batch" /\ UNCHANGED <<stream, pending, acked, dedupe, latest>>
  BY DEF NextMessage, redisVars, historyVars
<1>3. /\ entry'[p] = i /\ batch'[p] = batch[p] \ {i}
      /\ pc'[p] = IF stream[i] = Malformed THEN "failure" ELSE "accept"
  BY <1>1 DEF TypeOK
<1>4. batch[p] \subseteq Nat
  BY DEF TypeOK
<1>5. \A j \in batch'[p] : i < j
  BY <1>1, <1>3, <1>4
<1>6. HandOK(p)'
  BY <1>2, <1>3, <1>5 DEF InOrder, HandOK, IsQuote, Quote, Processing, Handling
<1>7. KeysOK(p)'
  BY <1>2, <1>3 DEF InOrder, KeysOK, Passed, Processing
<1>8. LatestOK(p)'
  BY <1>2, <1>3 DEF InOrder, LatestOK, Passed, Superseded
<1>9. QED
  BY <1>6, <1>7, <1>8 DEF InOrder

\* An empty batch leaves no quote pending (run).
LEMMA EndOrder ==
  ASSUME TypeOK, NEW p \in Processors, InOrder(p), EndOfBatch(p)
  PROVE  InOrder(p)'
<1>1. /\ pc[p] = "batch" /\ batch[p] = {} /\ pc'[p] = "poll" /\ batch'[p] = {}
      /\ UNCHANGED <<stream, pending, acked, dedupe, latest>>
  BY DEF EndOfBatch, ToPoll, redisVars, historyVars, TypeOK
<1>2. HandOK(p)'
  BY <1>1 DEF InOrder, HandOK, IsQuote, Processing, Handling
<1>3. KeysOK(p)'
  BY <1>1 DEF InOrder, KeysOK, Passed, Processing
<1>4. LatestOK(p)'
  BY <1>1 DEF InOrder, LatestOK, Passed, Superseded
<1>5. QED
  BY <1>2, <1>3, <1>4 DEF InOrder

\* A duplicate repeats an earlier entry (accept_event_once).
LEMMA AcceptOrder ==
  ASSUME TypeOK, InHandOK, NEW p \in Processors, InOrder(p), AcceptEventOnce(p), faults' = 0
  PROVE  InOrder(p)'
<1>1. /\ pc[p] = "accept" /\ dedupe' = dedupe \cup {Quote(p)}
      /\ pc'[p] = IF Quote(p) \in dedupe THEN "duplicate" ELSE "observe"
      /\ UNCHANGED <<stream, pending, acked, latest, batch, entry>>
  BY UndisturbedReply DEF AcceptEventOnce, historyVars
<1>2. entry[p] \in 1..Len(stream) /\ Quote(p) \in Events
  BY <1>1 DEF InHandOK, Processing
<1>3. HandOK(p)'
  BY <1>1 DEF InOrder, HandOK, IsQuote, Quote, Processing, Handling
<1>4. ASSUME NEW e \in dedupe'
      PROVE  \E k \in 1..Len(stream) : stream[k] = e /\ Passed(p, k, Processing \ {"accept"})'
  <2>1. CASE e = Quote(p)
    BY <1>1, <1>2, <2>1 DEF Passed, Quote, Processing
  <2>2. CASE e \in dedupe
    <3>1. PICK k \in 1..Len(stream) : stream[k] = e /\ Passed(p, k, Processing \ {"accept"})
      BY <2>2 DEF InOrder, KeysOK
    <3>2. k \in acked
      BY <1>1, <3>1 DEF Passed
    <3>3. QED
      BY <1>1, <3>1, <3>2 DEF Passed
  <2>3. QED
    BY <1>1, <2>1, <2>2
<1>5. ASSUME Quote(p) \in dedupe
      PROVE  \E k \in 1..(entry[p] - 1) : stream[k] = Quote(p)
  <2>1. PICK k \in 1..Len(stream) : stream[k] = Quote(p) /\ Passed(p, k, Processing \ {"accept"})
    BY <1>5 DEF InOrder, KeysOK
  <2>2. k \in acked /\ IsQuote(k)
    BY <1>1, <1>2, <2>1, PipelineAssumption DEF Passed, IsQuote
  <2>3. k < entry[p]
    BY <1>1, <2>2 DEF InOrder, HandOK, Processing
  <2>4. k \in 1..(entry[p] - 1)
    BY <1>2, <2>3
  <2>5. QED
    BY <2>1, <2>4
<1>6. KeysOK(p)'
  BY <1>1, <1>4, <1>5 DEF KeysOK, Quote
<1>7. LatestOK(p)'
  BY <1>1 DEF InOrder, LatestOK, Passed, Superseded
<1>8. QED
  BY <1>3, <1>6, <1>7 DEF InOrder

\* The quote in hand is newer than every acknowledged one (cache_quote).
LEMMA CacheOrder ==
  ASSUME TypeOK, InHandOK, NEW p \in Processors, InOrder(p), CacheQuote(p), faults' = 0
  PROVE  InOrder(p)'
<1> DEFINE i == entry[p]
<1>1. /\ pc[p] = "cache" /\ pc'[p] = "fanout"
      /\ latest' = [latest EXCEPT ![Symbol[Quote(p)]] = Quote(p)]
      /\ UNCHANGED <<stream, pending, acked, dedupe, batch, entry>>
  BY UndisturbedReply DEF CacheQuote
<1>2. i \in 1..Len(stream) /\ stream[i] = Quote(p) /\ Quote(p) \in Events /\ Len(stream) \in Nat
  BY <1>1 DEF InHandOK, Processing, Quote, TypeOK
<1>3. HandOK(p)'
  BY <1>1 DEF InOrder, HandOK, IsQuote, Quote, Processing, Handling
<1>4. KeysOK(p)'
  BY <1>1 DEF InOrder, KeysOK, Passed, Processing
<1>5. /\ latest'[Symbol[Quote(p)]] = Quote(p)
      /\ \A s \in Symbols : s # Symbol[Quote(p)] => latest'[s] = latest[s]
  BY <1>1, <1>2 DEF TypeOK, Symbols
<1>6. ASSUME NEW j \in 1..Len(stream), Passed(p, j, {"fanout", "ack"})', stream[j] # Malformed
      PROVE  Superseded(j)'
  <2>1. stream[j] \in Events /\ Symbol[stream[j]] \in Symbols
    BY <1>6 DEF TypeOK, Payloads, Symbols
  <2>2. j <= i
    <3>1. j \in acked => j < i
      BY <1>1, <1>6 DEF InOrder, HandOK, IsQuote, Processing
    <3>2. j \in acked \/ j = i
      BY <1>1, <1>6 DEF Passed
    <3>3. QED
      BY <1>2, <3>1, <3>2
  <2>3. CASE Symbol[stream[j]] = Symbol[Quote(p)]
    <3>1. i \in j..Len(stream)
      BY <1>2, <2>2
    <3>2. QED
      BY <1>1, <1>2, <1>5, <2>3, <3>1 DEF Superseded
  <2>4. CASE Symbol[stream[j]] # Symbol[Quote(p)]
    <3>1. j \in acked
      BY <1>1, <1>2, <1>6, <2>4 DEF Passed
    <3>2. Superseded(j)
      BY <3>1 DEF InOrder, LatestOK, Passed
    <3>3. latest'[Symbol[stream[j]]] = latest[Symbol[stream[j]]]
      BY <1>5, <2>1, <2>4
    <3>4. QED
      BY <1>1, <3>2, <3>3 DEF Superseded
  <2>5. QED
    BY <2>3, <2>4
<1>7. LatestOK(p)'
  BY <1>1, <1>6 DEF LatestOK, Superseded
<1>8. QED
  BY <1>3, <1>4, <1>7 DEF InOrder

\* An acknowledged quote is a repetition or was cached (XACK).
LEMMA AckOrder ==
  ASSUME TypeOK, InHandOK, NEW p \in Processors, InOrder(p), Ack(p), faults' = 0
  PROVE  InOrder(p)'
<1> DEFINE i == entry[p]
<1>1. /\ pc[p] \in {"ack", "duplicate", "discard"} /\ pc'[p] = "batch"
      /\ pending' = pending \ {i} /\ acked' = acked \cup {i}
      /\ UNCHANGED <<stream, dedupe, latest, batch, entry>>
  BY UndisturbedReply DEF Ack
<1>2. i \in 1..Len(stream)
  BY <1>1 DEF InHandOK, Processing, Handling
<1>3. IsQuote(i) => pc[p] \in Processing
  BY <1>1 DEF InOrder, HandOK, IsQuote, Quote, Processing, Handling
<1>4. HandOK(p)'
  BY <1>1, <1>3 DEF InOrder, HandOK, IsQuote, Processing, Handling
<1>5. KeysOK(p)'
  BY <1>1 DEF InOrder, KeysOK, Passed
<1>6. Superseded(i)
  <2>1. CASE pc[p] = "ack"
    BY <1>2, <2>1 DEF InOrder, LatestOK, Passed
  <2>2. CASE pc[p] = "duplicate"
    BY <2>2 DEF InOrder, KeysOK, Superseded, Quote
  <2>3. CASE pc[p] = "discard"
    BY <2>3 DEF InOrder, HandOK, Handling, Superseded, Quote
  <2>4. QED
    BY <1>1, <2>1, <2>2, <2>3
<1>7. ASSUME NEW j \in 1..Len(stream), Passed(p, j, {"fanout", "ack"})'
      PROVE  Superseded(j)
  <2>1. j \in acked \/ j = i
    BY <1>1, <1>7 DEF Passed
  <2>2. QED
    BY <1>6, <2>1 DEF InOrder, LatestOK, Passed
<1>8. LatestOK(p)'
  BY <1>1, <1>7 DEF LatestOK, Superseded
<1>9. QED
  BY <1>4, <1>5, <1>8 DEF InOrder

\* Up to the first failure every step of the only instance keeps the order.
LEMMA OrderStep ==
  ASSUME OneProcessor, TypeOK, InHandOK, OrderInv, [Next]_vars
  PROVE  OrderInv'
<1>1. DeliveredOK'
  BY DeliveredStep DEF OrderInv
<1> SUFFICES ASSUME Undisturbed', NEW p \in Processors PROVE InOrder(p)'
  BY <1>1 DEF OrderInv
<1>2. InOrder(p) /\ DeliveredOK /\ Undisturbed /\ faults' = 0 /\ crashes' = 0
  BY DisturbedStays DEF OrderInv, Undisturbed
<1>3. ASSUME NEW payload \in Payloads, PublishQuote(payload) PROVE InOrder(p)'
  BY <1>2, <1>3, PublishOrder
<1>4. ASSUME NEW e \in Events, DedupeKeyExpires(e) PROVE InOrder(p)'
  <2>1. /\ UNCHANGED <<stream, pending, acked, latest, pc, batch, entry>> /\ dedupe' \subseteq dedupe
    BY <1>4 DEF DedupeKeyExpires, localVars
  <2>2. QED
    BY <1>2, <2>1 DEF InOrder, HandOK, KeysOK, LatestOK, Passed, Superseded, IsQuote, Quote
<1>5. ASSUME ReadSequence(p) \/ CompareSequence(p) \/ MarkDegraded(p) \/ PublishFanout(p)
      PROVE  InOrder(p)'
  <2>1. UNCHANGED <<stream, pending, acked, dedupe, latest, batch, entry>>
    BY <1>5 DEF ReadSequence, CompareSequence, MarkDegraded, PublishFanout, redisVars, historyVars
  <2>2. pc[p] \in {"observe", "compare", "degrade", "fanout"}
    BY <1>5 DEF ReadSequence, CompareSequence, MarkDegraded, PublishFanout
  <2>3. pc'[p] # "failure"
    <3>1. CASE ReadSequence(p)
      <4>1. CASE Number(p) = NoSequence
        BY <3>1, <4>1 DEF ReadSequence, TypeOK
      <4>2. CASE Number(p) # NoSequence
        BY <1>2, <3>1, <4>2, UndisturbedReply DEF ReadSequence
      <4>3. QED
        BY <4>1, <4>2
    <3>2. CASE CompareSequence(p)
      <4>1. CASE Advances(p)
        BY <1>2, <3>2, <4>1, UndisturbedReply DEF CompareSequence
      <4>2. CASE ~Advances(p)
        BY <3>2, <4>2 DEF CompareSequence, TypeOK
      <4>3. QED
        BY <4>1, <4>2
    <3>3. CASE MarkDegraded(p)
      BY <1>2, <3>3, UndisturbedReply DEF MarkDegraded
    <3>4. CASE PublishFanout(p)
      BY <1>2, <3>4, UndisturbedReply DEF PublishFanout
    <3>5. QED
      BY <1>5, <3>1, <3>2, <3>3, <3>4
  <2>4. /\ pc'[p] \in {"cache", "compare", "degrade", "ack"}
        /\ pc'[p] = "ack" => pc[p] = "fanout"
    BY <1>5, <2>3, Moves DEF ReadSequence, CompareSequence, MarkDegraded, PublishFanout
  <2>5. QED
    BY <1>2, <2>1, <2>2, <2>4, QuietKeeps DEF Processing
<1>6. ASSUME IncrementRetry(p) \/ MoveToDeadLetter(p) PROVE InOrder(p)'
  <2>1. UNCHANGED <<stream, pending, acked, dedupe, latest, batch, entry>>
    BY <1>6 DEF IncrementRetry, MoveToDeadLetter, historyVars
  <2>2. pc[p] \in Handling /\ pc'[p] \in Handling \cup {"batch"}
    BY <1>2, <1>6, UndisturbedReply DEF IncrementRetry, MoveToDeadLetter, Handling
  <2>3. QED
    BY <1>2, <2>1, <2>2, HandlingKeeps
<1>7. ~Recover(p)
  BY <1>2 DEF Recover, InOrder, HandOK
<1>8. ASSUME Step(p) PROVE InOrder(p)'
  BY <1>2, <1>5, <1>6, <1>7, <1>8, ReadOrder, ClaimOrder, NextOrder, EndOrder, AcceptOrder,
     CacheOrder, AckOrder DEF Step
<1>9. ~RequestFails(p) /\ ~Crash(p)
  BY <1>2, PipelineAssumption DEF RequestFails, Crash, Undisturbed
<1>10. CASE UNCHANGED vars
  BY <1>2, <1>10 DEF vars, redisVars, localVars, historyVars, InOrder, HandOK, KeysOK, LatestOK,
                     Passed, Superseded, IsQuote, Quote
<1>11. QED
  BY <1>3, <1>4, <1>8, <1>9, <1>10 DEF Next, OneProcessor

\* With one instance and up to the first failure, the cached quote of a symbol
\* is not behind an acknowledged first delivery (cache_quote, run).
THEOREM CacheFollowsStream == OneProcessor => (Spec => []LatestIsNewest)
<1> SUFFICES ASSUME OneProcessor PROVE Spec => []LatestIsNewest
  OBVIOUS
<1>1. Init => OrderInv
  <2> SUFFICES ASSUME Init PROVE OrderInv
    OBVIOUS
  <2>1. DeliveredOK
    BY DEF Init, DeliveredOK, Processing, Handling
  <2>2. ASSUME NEW p \in Processors PROVE InOrder(p)
    BY DEF Init, InOrder, HandOK, KeysOK, LatestOK, Passed, Processing, Handling
  <2>3. QED
    BY <2>1, <2>2 DEF OrderInv
<1>2. PipelineInv /\ OrderInv /\ [Next]_vars => OrderInv'
  BY OrderStep DEF PipelineInv
<1>3. PipelineInv /\ OrderInv => LatestIsNewest
  <2> SUFFICES ASSUME PipelineInv, OrderInv, Undisturbed, NEW j \in acked PROVE Superseded(j)
    BY DEF LatestIsNewest, Superseded
  <2>1. j \in 1..Len(stream)
    BY DEF PipelineInv, TypeOK
  <2>2. PICK p \in Processors : TRUE
    BY DEF OneProcessor
  <2>3. QED
    BY <2>1, <2>2 DEF OrderInv, InOrder, LatestOK, Passed
<1>4. QED
  BY <1>1, <1>2, <1>3, PipelineInvariant, PTL DEF Spec
=============================================================================
