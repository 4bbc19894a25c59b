------------------------- MODULE QuotePipelineProofs -------------------------
(***************************************************************************)
(* Proofs of the safety properties of QuotePipeline, for every number of   *)
(* processors, events, entries, faults and crashes.                        *)
(***************************************************************************)
EXTENDS QuotePipeline, TLAPS

-----------------------------------------------------------------------------
(* The inductive invariant. *)

\* A processor past validation holds an entry of the stream; in the stages of
\* _process_one its payload is a valid quote, and observe_sequence compares
\* only a quote that has a number.
InHandOK ==
  \A p \in Processors :
    /\ pc[p] \in Processing \cup Handling => entry[p] \in 1..Len(stream)
    /\ pc[p] \in Processing => Quote(p) \in Events
    /\ pc[p] \in {"compare", "degrade"} => Number(p) \in Nat

InWork(p, e) == pc[p] \in Accepted /\ Quote(p) = e

\* While the dedupe key of e has never expired, at most one delivery is past
\* accept_event_once, none before the key exists, and the effects that this
\* delivery has yet to perform have not been performed.
EffectsOK ==
  \A e \in Events \ expired :
    /\ fanned[e] <= 1 /\ merged[e] <= 1
    /\ e \notin dedupe => fanned[e] = 0 /\ merged[e] = 0
    /\ \A p \in Processors : InWork(p, e) =>
         /\ e \in dedupe
         /\ pc[p] \in {"observe", "compare", "degrade", "cache"}
              => merged[e] = 0
         /\ pc[p] \in {"observe", "compare", "degrade", "cache", "fanout"}
              => fanned[e] = 0
         /\ \A q \in Processors : InWork(q, e) => q = p

\* What each stage knows about the entry in hand.
StagesOK ==
  \A p \in Processors :
    /\ pc[p] \in Accepted \cup {"duplicate"} => Quote(p) \in dedupe \cup expired
    /\ pc[p] \in {"fanout", "ack"} => Quote(p) \in cached
    /\ pc[p] \in {"deadletter", "discard"} => retries[entry[p]] >= RetryLimit
    /\ pc[p] = "discard" => entry[p] \in deadLetter

\* A cached event left a quote in the latest-value cache.
CachedOK == \A e \in cached : latest[Symbol[e]] # NoEvent

PipelineInv ==
  /\ TypeOK /\ InHandOK /\ EffectsOK /\ StagesOK /\ CachedOK
  /\ AckedHasOutcome /\ DeadLetterAfterRetries /\ PublishedWasCached

-----------------------------------------------------------------------------
(* Lemmas about the helpers. *)

\* A round trip leaves its processor at the stage it asked for or in the
\* error path of the stage it was in, and moves no other processor.
LEMMA ReplyEffect ==
  ASSUME NEW p \in Processors, NEW next \in Labels,
         pc \in [Processors -> Labels], faults \in 0..MaxFaults,
         Reply(p, next)
  PROVE  /\ pc' \in [Processors -> Labels]
         /\ faults' \in 0..MaxFaults
         /\ pc'[p] \in {next, OnError(pc[p])}
         /\ \A q \in Processors : q # p => pc'[q] = pc[q]
<1>1. OnError(pc[p]) \in Labels
  BY DEF OnError, Labels, Processing, Handling
<1>2. QED
  BY <1>1, PipelineAssumption DEF Reply

\* Quotes already in the stream stay where they are.
LEMMA AppendKeeps ==
  ASSUME NEW payload \in Payloads, stream \in Seq(Payloads)
  PROVE  /\ Append(stream, payload) \in Seq(Payloads)
         /\ Len(Append(stream, payload)) = Len(stream) + 1
         /\ \A i \in 1..Len(stream) : Append(stream, payload)[i] = stream[i]
  OBVIOUS

\* Replacing one batch keeps the batches within the stream.
LEMMA BatchExcept ==
  ASSUME NEW p \in Processors, NEW b, b \subseteq 1..Len(stream),
         batch \in [Processors -> SUBSET (1..Len(stream))]
  PROVE  [batch EXCEPT ![p] = b] \in [Processors -> SUBSET (1..Len(stream))]
  OBVIOUS

-----------------------------------------------------------------------------
(* Every step preserves the type invariant. *)

\* Every action of the processors, the producer and the failures is well typed.
LEMMA TypeStep ==
  ASSUME TypeOK, InHandOK, [Next]_vars
  PROVE  TypeOK'
<1> USE PipelineAssumption DEF TypeOK, Entries
<1>1. ASSUME NEW payload \in Payloads, PublishQuote(payload)
      PROVE  TypeOK'
  <2>1. /\ stream' \in Seq(Payloads)
        /\ Len(stream') = Len(stream) + 1
        /\ Len(stream') <= MaxEntries
    BY <1>1, AppendKeeps DEF PublishQuote
  <2>2. trimmed' \in 0..Len(stream')
    BY <1>1, <2>1 DEF PublishQuote, Max2
  <2>3. 1..Len(stream) \subseteq 1..Len(stream') /\ 0..Len(stream) \subseteq 0..Len(stream')
    BY <2>1
  <2>4. batch' \in [Processors -> SUBSET (1..Len(stream'))]
    BY <1>1, <2>3 DEF PublishQuote, localVars
  <2>5. entry' \in [Processors -> 0..Len(stream')]
    BY <1>1, <2>3 DEF PublishQuote, localVars
  <2>6. QED
    BY <1>1, <2>1, <2>2, <2>3, <2>4, <2>5
    DEF PublishQuote, localVars, historyVars
<1>2. ASSUME NEW e \in Events, DedupeKeyExpires(e)
      PROVE  TypeOK'
  BY <1>2 DEF DedupeKeyExpires, localVars
<1>3. ASSUME NEW p \in Processors, ReadGroup(p)
      PROVE  TypeOK'
  <2>1. pc[p] = "poll" /\ Reply(p, "batch")
    BY <1>3 DEF ReadGroup
  <2>2. pc' \in [Processors -> Labels] /\ faults' \in 0..MaxFaults
    BY <2>1, ReplyEffect DEF Labels
  <2>3. DEFINE last == Min2(FirstUnread + BatchCount - 1, Len(stream))
               new  == FirstUnread .. last
  <2>4. last \in Nat /\ new \subseteq 1..Len(stream) /\ last <= Len(stream)
    <3>1. FirstUnread \in Nat \ {0}
      BY DEF FirstUnread, Max2
    <3>2. last \in Nat /\ last <= Len(stream)
      BY <3>1, PipelineAssumption DEF Min2
    <3> HIDE DEF last
    <3>3. QED
      BY <3>1, <3>2
  <2>5. cursor' \in 0..Len(stream) /\ pending' \subseteq 1..Len(stream)
    <3>1. cursor' = last /\ pending' = pending \cup new
      BY <1>3 DEF ReadGroup
    <3>2. Len(stream) \in Nat
      OBVIOUS
    <3> HIDE DEF last, new
    <3>3. QED
      BY <2>4, <3>1, <3>2
  <2>6. batch' \in [Processors -> SUBSET (1..Len(stream))]
    <3>1. batch' = [batch EXCEPT ![p] = IF pc'[p] = "batch" THEN new ELSE {}]
      BY <1>3 DEF ReadGroup
    <3>2. (IF pc'[p] = "batch" THEN new ELSE {}) \subseteq 1..Len(stream)
      BY <2>4
    <3>3. QED
      BY <3>1, <3>2, BatchExcept
  <2>7. QED
    BY <1>3, <2>2, <2>5, <2>6 DEF ReadGroup, historyVars
<1>4. ASSUME NEW p \in Processors, ClaimStale(p)
      PROVE  TypeOK'
  <2>1. Reply(p, "batch")
    BY <1>4 DEF ClaimStale
  <2>2. pc' \in [Processors -> Labels] /\ faults' \in 0..MaxFaults
    BY <2>1, ReplyEffect DEF Labels
  <2>3. batch' \in [Processors -> SUBSET (1..Len(stream))]
    <3>1. PICK idle \in SUBSET pending :
            batch' = [batch EXCEPT ![p] =
                        IF pc'[p] = "batch" THEN {i \in idle : i > trimmed}
                                            ELSE {}]
      BY <1>4 DEF ClaimStale
    <3>2. (IF pc'[p] = "batch" THEN {i \in idle : i > trimmed} ELSE {})
             \subseteq 1..Len(stream)
      OBVIOUS
    <3>3. QED
      BY <3>1, <3>2, BatchExcept
  <2>4. QED
    BY <1>4, <2>2, <2>3 DEF ClaimStale, historyVars
<1>5. ASSUME NEW p \in Processors, NextMessage(p)
      PROVE  TypeOK'
  <2>1. PICK i \in batch[p] :
          /\ entry' = [entry EXCEPT ![p] = i]
          /\ batch' = [batch EXCEPT ![p] = @ \ {i}]
          /\ pc' = [pc EXCEPT ![p] =
                      IF stream[i] = Malformed THEN "failure" ELSE "accept"]
          /\ previous' = [previous EXCEPT ![p] = NoSequence]
    BY <1>5 DEF NextMessage
  <2>2. pc' \in [Processors -> Labels]
    BY <2>1 DEF Labels, Processing, Handling
  <2>3. batch[p] \ {i} \subseteq 1..Len(stream) /\ i \in 1..Len(stream)
    OBVIOUS
  <2>4. batch' \in [Processors -> SUBSET (1..Len(stream))]
    BY <2>1, <2>3, BatchExcept
  <2>5. entry' \in [Processors -> 0..Len(stream)]
    BY <2>1, <2>3
  <2>6. previous' \in [Processors -> Nat \cup {NoSequence}]
    BY <2>1
  <2>7. QED
    BY <1>5, <2>2, <2>4, <2>5, <2>6 DEF NextMessage, redisVars, historyVars
<1>6. ASSUME NEW p \in Processors,
             EndOfBatch(p) \/ Recover(p) \/ Crash(p)
      PROVE  TypeOK'
  <2>1. ToPoll(p)
    BY <1>6 DEF EndOfBatch, Recover, Crash
  <2>2. batch' \in [Processors -> SUBSET (1..Len(stream))]
    BY <2>1, BatchExcept DEF ToPoll
  <2>3. /\ pc' \in [Processors -> Labels]
        /\ entry' \in [Processors -> 0..Len(stream)]
        /\ previous' \in [Processors -> Nat \cup {NoSequence}]
    BY <2>1 DEF ToPoll, Labels
  <2>4. faults' \in 0..MaxFaults /\ crashes' \in 0..MaxCrashes
    BY <1>6 DEF EndOfBatch, Recover, Crash
  <2>5. UNCHANGED <<redisVars, historyVars>>
    BY <1>6 DEF EndOfBatch, Recover, Crash
  <2>6. QED
    BY <2>2, <2>3, <2>4, <2>5 DEF redisVars, historyVars
<1>7. ASSUME NEW p \in Processors, AcceptEventOnce(p)
      PROVE  TypeOK'
  <2>1. pc' \in [Processors -> Labels] /\ faults' \in 0..MaxFaults
    BY <1>7, ReplyEffect DEF AcceptEventOnce, Labels, Processing
  <2>2. dedupe' \subseteq Events
    BY <1>7 DEF AcceptEventOnce, InHandOK, Processing
  <2>3. QED
    BY <1>7, <2>1, <2>2 DEF AcceptEventOnce, historyVars
<1>8. ASSUME NEW p \in Processors, ReadSequence(p)
      PROVE  TypeOK'
  <2>1. pc' \in [Processors -> Labels] /\ faults' \in 0..MaxFaults
    BY <1>8, ReplyEffect DEF ReadSequence, Labels, Processing
  <2>2. Symbol[Quote(p)] \in Symbols
    BY <1>8 DEF ReadSequence, InHandOK, Processing
  <2>3. previous' \in [Processors -> Nat \cup {NoSequence}]
    BY <1>8, <2>2 DEF ReadSequence
  <2>4. QED
    BY <1>8, <2>1, <2>3 DEF ReadSequence, redisVars, historyVars
<1>9. ASSUME NEW p \in Processors, CompareSequence(p)
      PROVE  TypeOK'
  <2>1. pc' \in [Processors -> Labels] /\ faults' \in 0..MaxFaults
    BY <1>9, ReplyEffect DEF CompareSequence, Labels, Processing
  <2>2. Quote(p) \in Events /\ Number(p) \in Nat
    BY <1>9 DEF CompareSequence, InHandOK, Processing
  <2>3. seqKey' \in [Symbols -> Nat \cup {NoSequence}]
    BY <1>9, <2>2 DEF CompareSequence
  <2>4. observed' \subseteq Events /\ flagged' \subseteq Events
    BY <1>9, <2>2 DEF CompareSequence
  <2>5. QED
    BY <1>9, <2>1, <2>3, <2>4 DEF CompareSequence
<1>10. ASSUME NEW p \in Processors, MarkDegraded(p)
       PROVE  TypeOK'
  <2>1. pc' \in [Processors -> Labels] /\ faults' \in 0..MaxFaults
    BY <1>10, ReplyEffect DEF MarkDegraded, Labels, Processing
  <2>2. QED
    BY <1>10, <2>1 DEF MarkDegraded, historyVars
<1>11. ASSUME NEW p \in Processors, CacheQuote(p)
       PROVE  TypeOK'
  <2>1. pc' \in [Processors -> Labels] /\ faults' \in 0..MaxFaults
    BY <1>11, ReplyEffect DEF CacheQuote, Labels, Processing
  <2>2. Quote(p) \in Events
    BY <1>11 DEF CacheQuote, InHandOK, Processing
  <2>3. merged' \in [Events -> Nat]
    BY <1>11, <2>2 DEF CacheQuote
  <2>4. QED
    BY <1>11, <2>1, <2>2, <2>3 DEF CacheQuote
<1>12. ASSUME NEW p \in Processors, PublishFanout(p)
       PROVE  TypeOK'
  <2>1. pc' \in [Processors -> Labels] /\ faults' \in 0..MaxFaults
    BY <1>12, ReplyEffect DEF PublishFanout, Labels, Processing
  <2>2. Quote(p) \in Events
    BY <1>12 DEF PublishFanout, InHandOK, Processing
  <2>3. fanned' \in [Events -> Nat]
    BY <1>12, <2>2 DEF PublishFanout
  <2>4. QED
    BY <1>12, <2>1, <2>3 DEF PublishFanout, historyVars
<1>13. ASSUME NEW p \in Processors, Ack(p)
       PROVE  TypeOK'
  <2>1. pc' \in [Processors -> Labels] /\ faults' \in 0..MaxFaults
    BY <1>13, ReplyEffect DEF Ack, Labels
  <2>2. entry[p] \in 1..Len(stream)
    BY <1>13 DEF Ack, InHandOK, Processing, Handling
  <2>3. QED
    BY <1>13, <2>1, <2>2 DEF Ack
<1>14. ASSUME NEW p \in Processors, IncrementRetry(p)
       PROVE  TypeOK'
  <2>1. pc' \in [Processors -> Labels] /\ faults' \in 0..MaxFaults
    BY <1>14, ReplyEffect DEF IncrementRetry, Labels, Handling
  <2>2. retries' \in [Entries -> Nat]
    <3>1. entry[p] \in Entries
      BY <1>14 DEF IncrementRetry, InHandOK, Handling
    <3>2. QED
      BY <1>14, <3>1 DEF IncrementRetry
  <2>3. QED
    BY <1>14, <2>1, <2>2 DEF IncrementRetry, historyVars
<1>15. ASSUME NEW p \in Processors, MoveToDeadLetter(p)
       PROVE  TypeOK'
  <2>1. pc' \in [Processors -> Labels] /\ faults' \in 0..MaxFaults
    BY <1>15, ReplyEffect DEF MoveToDeadLetter, Labels, Handling
  <2>2. entry[p] \in 1..Len(stream)
    BY <1>15 DEF MoveToDeadLetter, InHandOK, Handling
  <2>3. QED
    BY <1>15, <2>1, <2>2 DEF MoveToDeadLetter, historyVars
<1>16. ASSUME NEW p \in Processors, RequestFails(p)
       PROVE  TypeOK'
  <2>1. OnError(pc[p]) \in Labels
    BY DEF OnError, Labels, Handling
  <2>2. pc' \in [Processors -> Labels] /\ faults' \in 0..MaxFaults
    BY <1>16, <2>1 DEF RequestFails
  <2>3. QED
    BY <1>16, <2>2 DEF RequestFails, redisVars, historyVars
<1>17. ASSUME UNCHANGED vars
       PROVE  TypeOK'
  BY <1>17 DEF vars, redisVars, localVars, historyVars
<1>18. QED
  BY <1>1, <1>2, <1>3, <1>4, <1>5, <1>6, <1>7, <1>8, <1>9, <1>10, <1>11,
     <1>12, <1>13, <1>14, <1>15, <1>16, <1>17
  DEF Next, Step

-----------------------------------------------------------------------------
(* What a step of one processor leaves alone. *)

\* A round trip of p moves p as ReplyEffect says and keeps every entry in
\* hand.
RoundTrip(p) ==
  /\ stream' = stream /\ entry' = entry
  /\ \A q \in Processors : q # p => pc'[q] = pc[q]

\* Which actions are round trips that keep the stream and the entry in hand.
LEMMA RoundTripSteps ==
  ASSUME TypeOK, NEW p \in Processors,
         \/ ReadGroup(p) \/ ClaimStale(p) \/ AcceptEventOnce(p)
         \/ ReadSequence(p) \/ CompareSequence(p) \/ MarkDegraded(p)
         \/ CacheQuote(p) \/ PublishFanout(p) \/ Ack(p)
         \/ IncrementRetry(p) \/ MoveToDeadLetter(p) \/ RequestFails(p)
  PROVE  RoundTrip(p)
<1>1. stream' = stream /\ entry' = entry
  BY DEF ReadGroup, ClaimStale, AcceptEventOnce, ReadSequence,
         CompareSequence, MarkDegraded, CacheQuote, PublishFanout, Ack,
         IncrementRetry, MoveToDeadLetter, RequestFails, redisVars
<1>2. \E label : pc' = [pc EXCEPT ![p] = label]
  BY DEF ReadGroup, ClaimStale, AcceptEventOnce, ReadSequence,
         CompareSequence, MarkDegraded, CacheQuote, PublishFanout, Ack,
         IncrementRetry, MoveToDeadLetter, RequestFails, Reply
<1>3. QED
  BY <1>1, <1>2 DEF RoundTrip, TypeOK

\* The steps that change the entry in hand: the next message, and the ways
\* back to polling.
LEMMA LocalSteps ==
  ASSUME TypeOK, NEW p \in Processors,
         NextMessage(p) \/ EndOfBatch(p) \/ Recover(p) \/ Crash(p)
  PROVE  /\ UNCHANGED <<redisVars, historyVars>>
         /\ \A q \in Processors : q # p => pc'[q] = pc[q] /\ entry'[q] = entry[q]
         /\ \/ pc'[p] = "poll"
            \/ /\ entry'[p] \in 1..Len(stream)
               /\ \/ pc'[p] = "failure"
                  \/ pc'[p] = "accept" /\ stream[entry'[p]] # Malformed
<1>1. CASE NextMessage(p)
  <2>1. PICK i \in batch[p] :
          /\ entry' = [entry EXCEPT ![p] = i]
          /\ pc' = [pc EXCEPT ![p] =
                      IF stream[i] = Malformed THEN "failure" ELSE "accept"]
    BY <1>1 DEF NextMessage
  <2>2. i \in 1..Len(stream)
    BY DEF TypeOK
  <2>3. QED
    BY <1>1, <2>1, <2>2 DEF NextMessage, TypeOK
<1>2. CASE EndOfBatch(p) \/ Recover(p) \/ Crash(p)
  BY <1>2 DEF EndOfBatch, Recover, Crash, ToPoll, TypeOK
<1>3. QED
  BY <1>1, <1>2

\* The stage a round trip leads to.
LEMMA Moves ==
  ASSUME TypeOK, NEW p \in Processors
  PROVE  /\ ReadGroup(p) => pc'[p] \in {"batch", "recover"}
         /\ ClaimStale(p) => pc'[p] \in {"batch", "recover"}
         /\ AcceptEventOnce(p) =>
              pc'[p] \in {"failure", IF Quote(p) \in dedupe THEN "duplicate"
                                                           ELSE "observe"}
         /\ ReadSequence(p) =>
              \/ pc'[p] \in {"cache", "failure"}
              \/ pc'[p] = "compare" /\ Number(p) # NoSequence
         /\ CompareSequence(p) => pc'[p] \in {"cache", "degrade", "failure"}
         /\ MarkDegraded(p) => pc'[p] \in {"cache", "failure"}
         /\ CacheQuote(p) => pc'[p] \in {"fanout", "failure"}
         /\ PublishFanout(p) => pc'[p] \in {"ack", "failure"}
         /\ Ack(p) =>
              \/ pc'[p] \in {"batch", "recover"}
              \/ pc'[p] = "failure" /\ pc[p] \in {"ack", "duplicate"}
         /\ IncrementRetry(p) =>
              \/ pc'[p] \in {"batch", "recover"}
              \/ pc'[p] = "deadletter" /\ retries[entry[p]] + 1 >= RetryLimit
         /\ MoveToDeadLetter(p) => pc'[p] \in {"discard", "recover"}
         /\ RequestFails(p) =>
              \/ pc'[p] = "recover"
              \/ pc'[p] = "failure" /\ pc[p] \in Processing
<1> USE DEF TypeOK, Reply, OnError
<1>1. ReadGroup(p) => pc'[p] \in {"batch", "recover"}
  BY DEF ReadGroup, Processing
<1>2. ClaimStale(p) => pc'[p] \in {"batch", "recover"}
  BY DEF ClaimStale, Processing
<1>3. AcceptEventOnce(p) =>
        pc'[p] \in {"failure", IF Quote(p) \in dedupe THEN "duplicate"
                                                     ELSE "observe"}
  BY DEF AcceptEventOnce, Processing
<1>4. ASSUME ReadSequence(p)
      PROVE  \/ pc'[p] \in {"cache", "failure"}
             \/ pc'[p] = "compare" /\ Number(p) # NoSequence
  <2>1. CASE Number(p) = NoSequence
    BY <1>4, <2>1 DEF ReadSequence
  <2>2. CASE Number(p) # NoSequence
    BY <1>4, <2>2 DEF ReadSequence, Processing
  <2>3. QED
    BY <2>1, <2>2
<1>5. CompareSequence(p) => pc'[p] \in {"cache", "degrade", "failure"}
  BY DEF CompareSequence, Processing
<1>6. MarkDegraded(p) => pc'[p] \in {"cache", "failure"}
  BY DEF MarkDegraded, Processing
<1>7. CacheQuote(p) => pc'[p] \in {"fanout", "failure"}
  BY DEF CacheQuote, Processing
<1>8. PublishFanout(p) => pc'[p] \in {"ack", "failure"}
  BY DEF PublishFanout, Processing
<1>9. Ack(p) => \/ pc'[p] \in {"batch", "recover"}
                \/ pc'[p] = "failure" /\ pc[p] \in {"ack", "duplicate"}
  BY DEF Ack, Processing
<1>10. IncrementRetry(p) =>
         \/ pc'[p] \in {"batch", "recover"}
         \/ pc'[p] = "deadletter" /\ retries[entry[p]] + 1 >= RetryLimit
  BY DEF IncrementRetry, Processing
<1>11. MoveToDeadLetter(p) => pc'[p] \in {"discard", "recover"}
  BY DEF MoveToDeadLetter, Processing
<1>12. RequestFails(p) => \/ pc'[p] = "recover"
                          \/ pc'[p] = "failure" /\ pc[p] \in Processing
  BY DEF RequestFails
<1>13. QED
  BY <1>1, <1>2, <1>3, <1>4, <1>5, <1>6, <1>7, <1>8, <1>9, <1>10, <1>11, <1>12

-----------------------------------------------------------------------------
(* Every step preserves what is known of the entry in hand. *)

\* No action separates a processor from the entry that its stage works on.
LEMMA InHandStep ==
  ASSUME TypeOK, InHandOK, [Next]_vars
  PROVE  InHandOK'
<1> USE DEF InHandOK, Quote, Number
<1>1. ASSUME NEW payload \in Payloads, PublishQuote(payload)
      PROVE  InHandOK'
  <2>1. /\ Len(stream') = Len(stream) + 1 /\ Len(stream) \in Nat
        /\ \A i \in 1..Len(stream) : stream'[i] = stream[i]
        /\ pc' = pc /\ entry' = entry
    BY <1>1, AppendKeeps DEF PublishQuote, TypeOK, localVars
  <2>2. QED
    BY <2>1 DEF Processing, Handling
<1>2. ASSUME NEW e \in Events, DedupeKeyExpires(e)
      PROVE  InHandOK'
  BY <1>2 DEF DedupeKeyExpires, localVars
<1>3. ASSUME NEW p \in Processors,
             ReadGroup(p) \/ ClaimStale(p) \/ Ack(p) \/ RequestFails(p)
               \/ IncrementRetry(p) \/ MoveToDeadLetter(p)
      PROVE  InHandOK'
  <2>1. RoundTrip(p)
    BY <1>3, RoundTripSteps
  <2>2. pc'[p] \in Handling => pc[p] \in Processing \cup Handling
    BY <1>3, Moves DEF Processing, Handling, IncrementRetry, MoveToDeadLetter
  <2>3. pc'[p] \notin Processing
    BY <1>3, Moves DEF Processing
  <2>4. QED
    BY <2>1, <2>2, <2>3 DEF RoundTrip, Processing
<1>4. ASSUME NEW p \in Processors,
             AcceptEventOnce(p) \/ ReadSequence(p) \/ CompareSequence(p)
               \/ MarkDegraded(p) \/ CacheQuote(p) \/ PublishFanout(p)
      PROVE  InHandOK'
  <2>1. RoundTrip(p)
    BY <1>4, RoundTripSteps
  <2>2. pc[p] \in Processing
    BY <1>4 DEF AcceptEventOnce, ReadSequence, CompareSequence, MarkDegraded,
                CacheQuote, PublishFanout, Processing
  <2>3. pc'[p] \in {"compare", "degrade"} => Number(p) \in Nat
    <3>1. CASE ReadSequence(p)
      BY <3>1, <2>2, Moves, PipelineAssumption
    <3>2. CASE CompareSequence(p)
      BY <3>2 DEF CompareSequence
    <3>3. CASE AcceptEventOnce(p) \/ MarkDegraded(p) \/ CacheQuote(p)
                 \/ PublishFanout(p)
      BY <3>3, Moves
    <3>4. QED
      BY <1>4, <3>1, <3>2, <3>3
  <2>4. QED
    BY <2>1, <2>2, <2>3 DEF RoundTrip
<1>5. ASSUME NEW p \in Processors,
             NextMessage(p) \/ EndOfBatch(p) \/ Recover(p) \/ Crash(p)
      PROVE  InHandOK'
  <2>1. stream' = stream
    BY <1>5, LocalSteps DEF redisVars
  <2>2. \A i \in 1..Len(stream) : stream[i] \in Payloads
    BY DEF TypeOK
  <2>3. pc'[p] \in Processing => pc'[p] = "accept" /\ stream[entry'[p]] \in Events
    BY <1>5, <2>2, LocalSteps DEF Processing, Payloads
  <2>4. QED
    BY <1>5, <2>1, <2>3, LocalSteps DEF Processing, Handling
<1>6. ASSUME UNCHANGED vars
      PROVE  InHandOK'
  BY <1>6 DEF vars, redisVars, localVars
<1>7. QED
  BY <1>1, <1>2, <1>3, <1>4, <1>5, <1>6 DEF Next, Step

-----------------------------------------------------------------------------
(* Every step preserves the at-most-once invariant. *)

\* The token of an event (accepted, and not yet merged or published) is never
\* duplicated: accept_event_once hands it out once.
LEMMA EffectsStep ==
  ASSUME TypeOK, InHandOK, EffectsOK, [Next]_vars
  PROVE  EffectsOK'
<1> USE DEF EffectsOK, InWork, Quote
<1>1. ASSUME NEW payload \in Payloads, PublishQuote(payload)
      PROVE  EffectsOK'
  <2>1. /\ \A i \in 1..Len(stream) : stream'[i] = stream[i]
        /\ UNCHANGED <<pc, entry, dedupe, expired, fanned, merged>>
    BY <1>1, AppendKeeps DEF PublishQuote, TypeOK, localVars, historyVars
  <2>2. \A p \in Processors : pc[p] \in Accepted => entry[p] \in 1..Len(stream)
    BY DEF InHandOK, Accepted, Processing
  <2>3. QED
    BY <2>1, <2>2
<1>2. ASSUME NEW e \in Events, DedupeKeyExpires(e)
      PROVE  EffectsOK'
  BY <1>2 DEF DedupeKeyExpires, localVars
\* Steps that perform no effect and take p to no stage after acceptance that
\* it was not in.
<1>3. ASSUME NEW p \in Processors, RoundTrip(p),
             UNCHANGED <<dedupe, expired, fanned, merged>>,
             pc'[p] \notin Accepted
      PROVE  EffectsOK'
  BY <1>3 DEF RoundTrip
<1>4. ASSUME NEW p \in Processors, RoundTrip(p),
             UNCHANGED <<dedupe, expired, fanned, merged>>,
             pc[p] \in {"observe", "compare", "degrade"},
             pc'[p] \in {"compare", "degrade", "cache", "failure"}
      PROVE  EffectsOK'
  BY <1>4 DEF RoundTrip, Accepted
<1>5. ASSUME NEW p \in Processors,
             ReadGroup(p) \/ ClaimStale(p) \/ Ack(p) \/ IncrementRetry(p)
               \/ MoveToDeadLetter(p) \/ RequestFails(p)
      PROVE  EffectsOK'
  <2>1. UNCHANGED <<dedupe, expired, fanned, merged>>
    BY <1>5 DEF ReadGroup, ClaimStale, Ack, IncrementRetry, MoveToDeadLetter,
                RequestFails, redisVars, historyVars
  <2>2. pc'[p] \notin Accepted
    BY <1>5, Moves DEF Accepted
  <2>3. QED
    BY <1>3, <1>5, <2>1, <2>2, RoundTripSteps
<1>6. ASSUME NEW p \in Processors,
             ReadSequence(p) \/ CompareSequence(p) \/ MarkDegraded(p)
      PROVE  EffectsOK'
  <2>1. UNCHANGED <<dedupe, expired, fanned, merged>>
    BY <1>6 DEF ReadSequence, CompareSequence, MarkDegraded, redisVars,
                historyVars
  <2>2. pc[p] \in {"observe", "compare", "degrade"}
    BY <1>6 DEF ReadSequence, CompareSequence, MarkDegraded
  <2>3. pc'[p] \in {"compare", "degrade", "cache", "failure"}
    BY <1>6, Moves
  <2>4. QED
    BY <1>4, <1>6, <2>1, <2>2, <2>3, RoundTripSteps
<1>7. ASSUME NEW p \in Processors, AcceptEventOnce(p)
      PROVE  EffectsOK'
  <2>1. /\ RoundTrip(p)
        /\ dedupe' = dedupe \cup {Quote(p)}
        /\ pc[p] = "accept"
        /\ UNCHANGED <<expired, fanned, merged>>
    BY <1>7, RoundTripSteps DEF AcceptEventOnce, historyVars
  <2>2. CASE Quote(p) \in dedupe
    <3>1. pc'[p] \notin Accepted /\ dedupe' = dedupe
      BY <1>7, <2>1, <2>2, Moves DEF Accepted
    <3>2. QED
      BY <1>3, <2>1, <3>1
  <2>3. CASE Quote(p) \notin dedupe
    <3>1. pc'[p] \in {"observe", "failure"}
      BY <1>7, <2>3, Moves
    <3>2. QED
      BY <2>1, <2>3, <3>1 DEF RoundTrip, Accepted
  <2>4. QED
    BY <2>2, <2>3
<1>8. ASSUME NEW p \in Processors, CacheQuote(p)
      PROVE  EffectsOK'
  <2>1. /\ RoundTrip(p)
        /\ pc[p] = "cache" /\ pc'[p] \in {"fanout", "failure"}
        /\ UNCHANGED <<dedupe, expired, fanned>>
    BY <1>8, RoundTripSteps, Moves DEF CacheQuote
  <2>2. Quote(p) \in Events
    BY <2>1 DEF InHandOK, Processing
  <2>3. merged' = merged \/ merged' = [merged EXCEPT ![Quote(p)] = @ + 1]
    BY <1>8 DEF CacheQuote
  <2>4. \A e \in Events : \/ merged'[e] = merged[e]
                          \/ e = Quote(p) /\ merged'[e] = merged[e] + 1
    BY <2>2, <2>3 DEF TypeOK
  <2>5. ASSUME NEW e \in Events \ expired, NEW q \in Processors, InWork(q, e)'
        PROVE  InWork(q, e) /\ (q = p \/ (e # Quote(p) /\ pc'[q] = pc[q]))
    <3>1. CASE q = p
      <4>1. stream'[entry'[q]] = e
        BY <2>5
      <4>2. stream[entry[q]] = e
        BY <2>1, <4>1 DEF RoundTrip
      <4>3. pc[q] \in Accepted
        BY <2>1, <3>1 DEF Accepted
      <4>4. QED
        BY <3>1, <4>2, <4>3
    <3>2. CASE q # p
      <4>1. InWork(q, e) /\ pc'[q] = pc[q]
        BY <2>1, <2>5, <3>2 DEF RoundTrip
      <4>2. e = Quote(p) => InWork(p, e)
        BY <2>1 DEF Accepted
      <4>3. QED
        BY <3>2, <4>1, <4>2
    <3>3. QED
      BY <3>1, <3>2
  <2>6. InWork(p, Quote(p))
    BY <2>1 DEF Accepted
  <2>7. Quote(p) \notin expired => merged[Quote(p)] = 0 /\ Quote(p) \in dedupe
    BY <2>1, <2>2, <2>6
  <2>8. QED
    BY <2>1, <2>4, <2>5, <2>7
<1>9. ASSUME NEW p \in Processors, PublishFanout(p)
      PROVE  EffectsOK'
  <2>1. /\ RoundTrip(p)
        /\ pc[p] = "fanout" /\ pc'[p] \in {"ack", "failure"}
        /\ UNCHANGED <<dedupe, expired, merged>>
    BY <1>9, RoundTripSteps, Moves DEF PublishFanout, historyVars
  <2>2. Quote(p) \in Events
    BY <2>1 DEF InHandOK, Processing
  <2>3. \A e \in Events : fanned'[e] = IF e = Quote(p) THEN fanned[e] + 1
                                                      ELSE fanned[e]
    BY <1>9, <2>2 DEF PublishFanout, TypeOK
  <2>4. ASSUME NEW e \in Events \ expired, NEW q \in Processors, InWork(q, e)'
        PROVE  InWork(q, e) /\ (q = p \/ (e # Quote(p) /\ pc'[q] = pc[q]))
    <3>1. CASE q = p
      <4>1. stream'[entry'[q]] = e
        BY <2>4
      <4>2. stream[entry[q]] = e
        BY <2>1, <4>1 DEF RoundTrip
      <4>3. pc[q] \in Accepted
        BY <2>1, <3>1 DEF Accepted
      <4>4. QED
        BY <3>1, <4>2, <4>3
    <3>2. CASE q # p
      <4>1. InWork(q, e) /\ pc'[q] = pc[q]
        BY <2>1, <2>4, <3>2 DEF RoundTrip
      <4>2. e = Quote(p) => InWork(p, e)
        BY <2>1 DEF Accepted
      <4>3. QED
        BY <3>2, <4>1, <4>2
    <3>3. QED
      BY <3>1, <3>2
  <2>5. InWork(p, Quote(p))
    BY <2>1 DEF Accepted
  <2>6. Quote(p) \notin expired => fanned[Quote(p)] = 0 /\ Quote(p) \in dedupe
    BY <2>1, <2>2, <2>5
  <2>7. QED
    BY <2>1, <2>3, <2>4, <2>6
<1>10. ASSUME NEW p \in Processors,
              NextMessage(p) \/ EndOfBatch(p) \/ Recover(p) \/ Crash(p)
       PROVE  EffectsOK'
  <2>1. UNCHANGED <<stream, dedupe, expired, fanned, merged>>
    BY <1>10, LocalSteps DEF redisVars, historyVars
  <2>2. pc'[p] \notin Accepted
    BY <1>10, LocalSteps DEF Accepted
  <2>3. QED
    BY <1>10, <2>1, <2>2, LocalSteps
<1>11. ASSUME UNCHANGED vars
       PROVE  EffectsOK'
  BY <1>11 DEF vars, redisVars, localVars, historyVars
<1>12. QED
  BY <1>1, <1>2, <1>5, <1>6, <1>7, <1>8, <1>9, <1>10, <1>11 DEF Next, Step

-----------------------------------------------------------------------------
(* Every step preserves what the stages know and what the histories record. *)

OutcomeInv ==
  /\ StagesOK /\ CachedOK
  /\ AckedHasOutcome /\ DeadLetterAfterRetries /\ PublishedWasCached

\* Acknowledgements, dead letters and publications keep their justification.
LEMMA OutcomeStep ==
  ASSUME TypeOK, InHandOK, OutcomeInv, [Next]_vars
  PROVE  OutcomeInv'
<1> USE DEF OutcomeInv, StagesOK, CachedOK, AckedHasOutcome,
            DeadLetterAfterRetries, PublishedWasCached, Quote
<1>1. ASSUME NEW payload \in Payloads, PublishQuote(payload)
      PROVE  OutcomeInv'
  <2>1. /\ \A i \in 1..Len(stream) : stream'[i] = stream[i]
        /\ UNCHANGED <<pc, entry, dedupe, latest, fanned, retries, deadLetter,
                       acked, expired, cached>>
    BY <1>1, AppendKeeps DEF PublishQuote, TypeOK, localVars, historyVars
  <2>2. \A p \in Processors :
          pc[p] \in Accepted \cup {"duplicate"} => entry[p] \in 1..Len(stream)
    BY DEF InHandOK, Accepted, Processing
  <2>3. acked \subseteq 1..Len(stream)
    BY DEF TypeOK
  <2>4. StagesOK'
    BY <2>1, <2>2 DEF Accepted
  <2>5. QED
    BY <2>1, <2>3, <2>4
<1>2. ASSUME NEW e \in Events, DedupeKeyExpires(e)
      PROVE  OutcomeInv'
  BY <1>2 DEF DedupeKeyExpires, localVars
<1>3. ASSUME NEW p \in Processors,
             NextMessage(p) \/ EndOfBatch(p) \/ Recover(p) \/ Crash(p)
      PROVE  OutcomeInv'
  <2>1. UNCHANGED <<stream, dedupe, latest, fanned, retries, deadLetter,
                    acked, expired, cached>>
    BY <1>3, LocalSteps DEF redisVars, historyVars
  <2>2. pc'[p] \in {"poll", "failure", "accept"}
    BY <1>3, LocalSteps
  <2>3. StagesOK'
    BY <1>3, <2>1, <2>2, LocalSteps DEF Accepted
  <2>4. QED
    BY <2>1, <2>3
\* Steps that touch none of the histories and carry on with what is known.
<1>4. ASSUME NEW p \in Processors, RoundTrip(p),
             UNCHANGED <<dedupe, latest, fanned, retries, deadLetter, acked,
                         expired, cached>>,
             \/ pc'[p] \in {"batch", "recover", "failure"}
             \/ /\ pc[p] \in {"observe", "compare", "degrade"}
                /\ pc'[p] \in {"compare", "degrade", "cache"}
      PROVE  OutcomeInv'
  <2>1. StagesOK'
    BY <1>4 DEF RoundTrip, Accepted
  <2>2. QED
    BY <1>4, <2>1 DEF RoundTrip
<1>5. ASSUME NEW p \in Processors,
             ReadGroup(p) \/ ClaimStale(p) \/ ReadSequence(p)
               \/ CompareSequence(p) \/ MarkDegraded(p) \/ RequestFails(p)
      PROVE  OutcomeInv'
  <2>1. UNCHANGED <<dedupe, latest, fanned, retries, deadLetter, acked,
                    expired, cached>>
    BY <1>5 DEF ReadGroup, ClaimStale, ReadSequence, CompareSequence,
                MarkDegraded, RequestFails, redisVars, historyVars
  <2>2. \/ pc'[p] \in {"batch", "recover", "failure"}
        \/ /\ pc[p] \in {"observe", "compare", "degrade"}
           /\ pc'[p] \in {"compare", "degrade", "cache"}
    <3>1. CASE ReadGroup(p) \/ ClaimStale(p) \/ RequestFails(p)
      BY <3>1, Moves
    <3>2. CASE ReadSequence(p) \/ CompareSequence(p) \/ MarkDegraded(p)
      BY <3>2, Moves DEF ReadSequence, CompareSequence, MarkDegraded
    <3>3. QED
      BY <1>5, <3>1, <3>2
  <2>3. QED
    BY <1>4, <1>5, <2>1, <2>2, RoundTripSteps
<1>6. ASSUME NEW p \in Processors, AcceptEventOnce(p)
      PROVE  OutcomeInv'
  <2>1. /\ RoundTrip(p)
        /\ dedupe' = dedupe \cup {Quote(p)}
        /\ pc'[p] \in {"failure", "duplicate", "observe"}
        /\ UNCHANGED <<latest, fanned, retries, deadLetter, acked, expired,
                       cached>>
    BY <1>6, RoundTripSteps, Moves DEF AcceptEventOnce, historyVars
  <2>2. StagesOK'
    BY <2>1 DEF RoundTrip, Accepted
  <2>3. QED
    BY <2>1, <2>2 DEF RoundTrip
<1>7. ASSUME NEW p \in Processors, CacheQuote(p)
      PROVE  OutcomeInv'
  <2>1. /\ RoundTrip(p)
        /\ pc[p] = "cache" /\ pc'[p] \in {"fanout", "failure"}
        /\ latest' = [latest EXCEPT ![Symbol[Quote(p)]] = Quote(p)]
        /\ cached' = cached \cup {Quote(p)}
        /\ UNCHANGED <<dedupe, fanned, retries, deadLetter, acked, expired>>
    BY <1>7, RoundTripSteps, Moves DEF CacheQuote
  <2>2. Quote(p) \in Events /\ Quote(p) # NoEvent
    BY <2>1, PipelineAssumption DEF InHandOK, Processing
  <2>3. Symbol[Quote(p)] \in Symbols
    BY <2>2 DEF Symbols
  <2>4. StagesOK'
    BY <2>1 DEF RoundTrip, Accepted
  <2>5. \A s \in Symbols : latest[s] # NoEvent => latest'[s] # NoEvent
    BY <2>1, <2>2 DEF TypeOK
  <2>6. latest'[Symbol[Quote(p)]] # NoEvent
    BY <2>1, <2>2, <2>3 DEF TypeOK
  <2>7. CachedOK'
    <3>1. \A e \in cached : Symbol[e] \in Symbols
      BY DEF TypeOK, Symbols
    <3>2. QED
      BY <2>1, <2>5, <2>6, <3>1
  <2>8. PublishedWasCached'
    BY <2>1, <2>7
  <2>9. QED
    BY <2>1, <2>4, <2>7, <2>8 DEF RoundTrip
<1>8. ASSUME NEW p \in Processors, PublishFanout(p)
      PROVE  OutcomeInv'
  <2>1. /\ RoundTrip(p)
        /\ pc[p] = "fanout" /\ pc'[p] \in {"ack", "failure"}
        /\ fanned' = [fanned EXCEPT ![Quote(p)] = @ + 1]
        /\ UNCHANGED <<dedupe, latest, retries, deadLetter, acked, expired,
                       cached>>
    BY <1>8, RoundTripSteps, Moves DEF PublishFanout, historyVars
  <2>2. StagesOK'
    BY <2>1 DEF RoundTrip, Accepted
  <2>3. Quote(p) \in cached
    BY <2>1
  <2>4. \A e \in Events : e # Quote(p) => fanned'[e] = fanned[e]
    BY <2>1 DEF TypeOK
  <2>5. PublishedWasCached'
    BY <2>1, <2>3, <2>4
  <2>6. QED
    BY <2>1, <2>2, <2>5 DEF RoundTrip
<1>9. ASSUME NEW p \in Processors, Ack(p)
      PROVE  OutcomeInv'
  <2>1. /\ RoundTrip(p)
        /\ pc[p] \in {"ack", "duplicate", "discard"}
        /\ pc'[p] \in {"batch", "recover", "failure"}
        /\ acked' = acked \cup {entry[p]}
        /\ UNCHANGED <<dedupe, latest, fanned, retries, deadLetter, expired,
                       cached>>
    BY <1>9, RoundTripSteps, Moves DEF Ack
  <2>2. StagesOK'
    BY <2>1 DEF RoundTrip, Accepted
  <2>3. entry[p] \in deadLetter \/ stream[entry[p]] \in dedupe \cup expired
    BY <2>1 DEF Accepted
  <2>4. QED
    BY <2>1, <2>2, <2>3 DEF RoundTrip
<1>10. ASSUME NEW p \in Processors, IncrementRetry(p)
       PROVE  OutcomeInv'
  <2>1. /\ RoundTrip(p)
        /\ pc[p] = "failure"
        /\ retries' = [retries EXCEPT ![entry[p]] = @ + 1]
        /\ UNCHANGED <<dedupe, latest, fanned, deadLetter, acked, expired,
                       cached>>
    BY <1>10, RoundTripSteps DEF IncrementRetry, historyVars
  <2>2. /\ entry[p] \in Entries
        /\ \A q \in Processors : pc[q] \in Handling => entry[q] \in Entries
    <3>1. 1..Len(stream) \subseteq Entries
      BY PipelineAssumption DEF TypeOK, Entries
    <3>2. pc[p] \in Handling
      BY <2>1 DEF Handling
    <3>3. QED
      BY <3>1, <3>2 DEF InHandOK
  <2>3. \A i \in Entries : retries'[i] >= retries[i]
    BY <2>1 DEF TypeOK
  <2>4. pc'[p] \in {"batch", "recover"}
          \/ (pc'[p] = "deadletter" /\ retries'[entry[p]] >= RetryLimit)
    BY <1>10, <2>1, <2>2, Moves DEF TypeOK
  <2>5. \A i \in Entries : retries[i] >= RetryLimit => retries'[i] >= RetryLimit
    <3>1. \A i \in Entries : retries[i] \in Nat /\ retries'[i] \in Nat
      BY <2>1, <2>2 DEF TypeOK
    <3>2. QED
      BY <2>3, <3>1, PipelineAssumption
  <2>6. StagesOK'
    <3>1. ASSUME NEW q \in Processors, pc'[q] \in {"deadletter", "discard"}
          PROVE  retries'[entry'[q]] >= RetryLimit
      <4>1. CASE q = p
        BY <2>1, <2>4, <3>1, <4>1 DEF RoundTrip
      <4>2. CASE q # p
        BY <2>1, <2>2, <2>5, <3>1, <4>2 DEF RoundTrip, Handling
      <4>3. QED
        BY <4>1, <4>2
    <3>2. QED
      BY <2>1, <2>4, <3>1 DEF RoundTrip, Accepted
  <2>7. DeadLetterAfterRetries'
    BY <2>1, <2>5 DEF TypeOK, Entries
  <2>8. QED
    BY <2>1, <2>6, <2>7 DEF RoundTrip
<1>11. ASSUME NEW p \in Processors, MoveToDeadLetter(p)
       PROVE  OutcomeInv'
  <2>1. /\ RoundTrip(p)
        /\ pc[p] = "deadletter" /\ pc'[p] \in {"discard", "recover"}
        /\ deadLetter' = deadLetter \cup {entry[p]}
        /\ UNCHANGED <<dedupe, latest, fanned, retries, acked, expired, cached>>
    BY <1>11, RoundTripSteps, Moves DEF MoveToDeadLetter, historyVars
  <2>2. StagesOK'
    BY <2>1 DEF RoundTrip, Accepted
  <2>3. QED
    BY <2>1, <2>2 DEF RoundTrip
<1>12. ASSUME UNCHANGED vars
       PROVE  OutcomeInv'
  BY <1>12 DEF vars, redisVars, localVars, historyVars
<1>13. QED
  BY <1>1, <1>2, <1>3, <1>5, <1>6, <1>7, <1>8, <1>9, <1>10, <1>11, <1>12
  DEF Next, Step

-----------------------------------------------------------------------------
(* The theorems. *)

\* The empty stream with all processors polling satisfies the invariant.
LEMMA InitInv == Init => PipelineInv
<1> SUFFICES ASSUME Init PROVE PipelineInv
  OBVIOUS
<1> USE DEF Init
<1>1. TypeOK
  <2>1. stream \in Seq(Payloads) /\ Len(stream) = 0
    OBVIOUS
  <2>2. /\ seqKey \in [Symbols -> Nat \cup {NoSequence}]
        /\ health \in [Symbols -> {"none", "gap", "out_of_order"}]
        /\ latest \in [Symbols -> Events \cup {NoEvent}]
        /\ merged \in [Events -> Nat] /\ fanned \in [Events -> Nat]
        /\ retries \in [Entries -> Nat]
    BY DEF Entries
  <2>3. /\ pc \in [Processors -> Labels]
        /\ batch \in [Processors -> SUBSET (1..Len(stream))]
        /\ entry \in [Processors -> 0..Len(stream)]
        /\ previous \in [Processors -> Nat \cup {NoSequence}]
    BY <2>1 DEF Labels
  <2>4. QED
    BY <2>1, <2>2, <2>3, PipelineAssumption DEF TypeOK
<1>2. \A p \in Processors : pc[p] \notin Processing \cup Handling \cup Accepted
  BY DEF Processing, Handling, Accepted
<1>3. InHandOK
  BY <1>2 DEF InHandOK, Processing
<1>4. EffectsOK
  BY <1>2 DEF EffectsOK, InWork
<1>5. StagesOK /\ CachedOK
  BY <1>2 DEF StagesOK, CachedOK, Processing, Handling
<1>6. AckedHasOutcome /\ DeadLetterAfterRetries /\ PublishedWasCached
  BY DEF AckedHasOutcome, DeadLetterAfterRetries, PublishedWasCached
<1>7. QED
  BY <1>1, <1>3, <1>4, <1>5, <1>6 DEF PipelineInv

\* The conjunction of the parts is an inductive invariant of the pipeline, for
\* every number of processors, entries, faults and crashes.
THEOREM PipelineInvariant == Spec => []PipelineInv
<1>1. PipelineInv /\ [Next]_vars => PipelineInv'
  BY TypeStep, InHandStep, EffectsStep, OutcomeStep
  DEF PipelineInv, OutcomeInv
<1>2. QED
  BY InitInv, <1>1, PTL DEF Spec

\* Every reachable state is well typed.
THEOREM TypeCorrect == Spec => []TypeOK
<1>1. PipelineInv => TypeOK
  BY DEF PipelineInv
<1>2. QED
  BY <1>1, PipelineInvariant, PTL

\* accept_event_once makes the effects of _process_one at-most-once: whatever
\* is redelivered, reclaimed, retried or interrupted, an event whose dedupe
\* key has not expired is published and merged at most once.
THEOREM EffectsAtMostOnce == Spec => []AtMostOnceEffects
<1>1. PipelineInv => AtMostOnceEffects
  BY DEF PipelineInv, EffectsOK, AtMostOnceEffects
<1>2. QED
  BY <1>1, PipelineInvariant, PTL

\* No XACK of pipeline.py acknowledges an entry that was neither accepted nor
\* dead-lettered.
THEOREM AcknowledgedHasOutcome == Spec => []AckedHasOutcome
<1>1. PipelineInv => AckedHasOutcome
  BY DEF PipelineInv
<1>2. QED
  BY <1>1, PipelineInvariant, PTL

\* _handle_failure dead-letters an entry only after retry_limit failures.
THEOREM DeadLetteredAfterRetries == Spec => []DeadLetterAfterRetries
<1>1. PipelineInv => DeadLetterAfterRetries
  BY DEF PipelineInv
<1>2. QED
  BY <1>1, PipelineInvariant, PTL

\* _process_one publishes no quote that it has not cached.
THEOREM PublishedQuotesCached == Spec => []PublishedWasCached
<1>1. PipelineInv => PublishedWasCached
  BY DEF PipelineInv
<1>2. QED
  BY <1>1, PipelineInvariant, PTL

-----------------------------------------------------------------------------
(* Up to the first failure nothing is lost. *)

Carrying == {"observe", "compare", "degrade", "cache", "fanout"}

\* Up to the first failure, an event that passed accept_event_once was
\* published or is in the hands of a processor that will publish it.
AcceptedIsCarried ==
  Undisturbed =>
    \A e \in dedupe \cup expired :
      e \in Events => \/ fanned[e] > 0
                      \/ \E p \in Processors : pc[p] \in Carrying /\ Quote(p) = e

\* Without a failure a round trip goes where it asks for.
LEMMA UndisturbedReply ==
  ASSUME TypeOK, NEW p \in Processors, NEW next, Reply(p, next), faults' = 0
  PROVE  faults = 0 /\ pc'[p] = next
BY PipelineAssumption DEF TypeOK, Reply

\* A step that publishes nothing and accepts nothing keeps every event with
\* its carrier.
LEMMA CarriersStay ==
  ASSUME AcceptedIsCarried, NEW p \in Processors, RoundTrip(p),
         Undisturbed' => Undisturbed,
         dedupe' \cup expired' = dedupe \cup expired, fanned' = fanned,
         Undisturbed' /\ pc[p] \in Carrying => pc'[p] \in Carrying
  PROVE  AcceptedIsCarried'
<1> SUFFICES ASSUME Undisturbed', NEW e \in dedupe \cup expired, e \in Events,
                    ~(fanned[e] > 0)
             PROVE  \E q \in Processors : pc'[q] \in Carrying /\ Quote(q)' = e
  BY DEF AcceptedIsCarried
<1>1. PICK q \in Processors : pc[q] \in Carrying /\ Quote(q) = e
  BY DEF AcceptedIsCarried
<1>2. pc'[q] \in Carrying /\ Quote(q)' = e
  BY <1>1 DEF RoundTrip, Quote
<1>3. QED
  BY <1>2

\* Every step keeps accepted events with a carrier until they are published.
LEMMA CarriedStep ==
  ASSUME TypeOK, InHandOK, AcceptedIsCarried, [Next]_vars
  PROVE  AcceptedIsCarried'
<1> DEFINE Kept == dedupe' \cup expired' = dedupe \cup expired /\ fanned' = fanned
<1>1. ASSUME NEW payload \in Payloads, PublishQuote(payload)
      PROVE  AcceptedIsCarried'
  <2>1. /\ \A i \in 1..Len(stream) : stream'[i] = stream[i]
        /\ UNCHANGED <<pc, entry, dedupe, expired, fanned, faults, crashes>>
    BY <1>1, AppendKeeps DEF PublishQuote, TypeOK, localVars, historyVars
  <2>2. \A p \in Processors : pc[p] \in Carrying => Quote(p)' = Quote(p)
    BY <2>1 DEF InHandOK, Carrying, Processing, Quote
  <2>3. QED
    BY <2>1, <2>2 DEF AcceptedIsCarried, Undisturbed
<1>2. ASSUME NEW e \in Events, DedupeKeyExpires(e)
      PROVE  AcceptedIsCarried'
  <2>1. /\ dedupe' \cup expired' = dedupe \cup expired
        /\ UNCHANGED <<stream, pc, entry, fanned, faults, crashes>>
    BY <1>2 DEF DedupeKeyExpires, localVars
  <2>2. QED
    BY <2>1 DEF AcceptedIsCarried, Undisturbed, Quote
<1>3. ASSUME NEW p \in Processors,
             ReadGroup(p) \/ ClaimStale(p) \/ Ack(p) \/ IncrementRetry(p)
               \/ MoveToDeadLetter(p)
      PROVE  AcceptedIsCarried'
  <2>1. Kept /\ crashes' = crashes /\ pc[p] \notin Carrying
    BY <1>3 DEF ReadGroup, ClaimStale, Ack, IncrementRetry, MoveToDeadLetter,
                historyVars, Carrying
  <2>2. faults' = 0 => faults = 0
    BY <1>3, PipelineAssumption
    DEF ReadGroup, ClaimStale, Ack, IncrementRetry, MoveToDeadLetter, Reply, TypeOK
  <2>3. QED
    BY <1>3, <2>1, <2>2, RoundTripSteps, CarriersStay DEF Undisturbed
<1>4. ASSUME NEW p \in Processors,
             ReadSequence(p) \/ CompareSequence(p) \/ MarkDegraded(p) \/ CacheQuote(p)
      PROVE  AcceptedIsCarried'
  <2>1. Kept /\ crashes' = crashes
    BY <1>4 DEF ReadSequence, CompareSequence, MarkDegraded, CacheQuote, redisVars,
                historyVars
  <2>2. faults' = 0 => faults = 0 /\ pc'[p] \in Carrying
    <3>1. CASE ReadSequence(p)
      <4>1. CASE Number(p) = NoSequence
        BY <3>1, <4>1 DEF ReadSequence, Carrying, TypeOK
      <4>2. CASE Number(p) # NoSequence
        BY <3>1, <4>2, UndisturbedReply DEF ReadSequence, Carrying
      <4>3. QED
        BY <4>1, <4>2
    <3>2. CASE CompareSequence(p)
      <4>1. CASE Advances(p)
        BY <3>2, <4>1, UndisturbedReply DEF CompareSequence, Carrying
      <4>2. CASE ~Advances(p)
        BY <3>2, <4>2 DEF CompareSequence, Carrying, TypeOK
      <4>3. QED
        BY <4>1, <4>2
    <3>3. CASE MarkDegraded(p)
      BY <3>3, UndisturbedReply DEF MarkDegraded, Carrying
    <3>4. CASE CacheQuote(p)
      BY <3>4, UndisturbedReply DEF CacheQuote, Carrying
    <3>5. QED
      BY <1>4, <3>1, <3>2, <3>3, <3>4
  <2>3. QED
    BY <1>4, <2>1, <2>2, RoundTripSteps, CarriersStay DEF Undisturbed
<1>5. ASSUME NEW p \in Processors, AcceptEventOnce(p)
      PROVE  AcceptedIsCarried'
  <2>1. /\ RoundTrip(p) /\ pc[p] = "accept"
        /\ dedupe' = dedupe \cup {Quote(p)}
        /\ UNCHANGED <<expired, fanned, crashes>>
    BY <1>5, RoundTripSteps DEF AcceptEventOnce, historyVars
  <2>2. faults' = 0 => /\ faults = 0
                       /\ Quote(p) \notin dedupe => pc'[p] = "observe"
    BY <1>5, UndisturbedReply DEF AcceptEventOnce
  <2>3. CASE Quote(p) \in dedupe
    BY <2>1, <2>2, <2>3, CarriersStay DEF Undisturbed, Carrying
  <2>4. CASE Quote(p) \notin dedupe
    <3> SUFFICES ASSUME Undisturbed', NEW e \in dedupe' \cup expired', e \in Events,
                        ~(fanned'[e] > 0)
                 PROVE  \E q \in Processors : pc'[q] \in Carrying /\ Quote(q)' = e
      BY DEF AcceptedIsCarried
    <3>1. Undisturbed /\ pc'[p] = "observe"
      BY <2>1, <2>2, <2>4 DEF Undisturbed
    <3>2. CASE e = Quote(p)
      BY <2>1, <3>1, <3>2 DEF RoundTrip, Quote, Carrying
    <3>3. CASE e # Quote(p)
      <4>1. PICK q \in Processors : pc[q] \in Carrying /\ Quote(q) = e
        BY <2>1, <3>1, <3>3 DEF AcceptedIsCarried
      <4>2. pc'[q] \in Carrying /\ Quote(q)' = e
        BY <2>1, <4>1 DEF RoundTrip, Quote, Carrying
      <4>3. QED
        BY <4>2
    <3>4. QED
      BY <3>2, <3>3
  <2>5. QED
    BY <2>3, <2>4
<1>6. ASSUME NEW p \in Processors, PublishFanout(p)
      PROVE  AcceptedIsCarried'
  <2>1. /\ RoundTrip(p) /\ pc[p] = "fanout"
        /\ fanned' = [fanned EXCEPT ![Quote(p)] = @ + 1]
        /\ UNCHANGED <<dedupe, expired, crashes>>
    BY <1>6, RoundTripSteps DEF PublishFanout, historyVars
  <2>2. faults' = 0 => faults = 0
    BY <1>6, UndisturbedReply DEF PublishFanout
  <2> SUFFICES ASSUME Undisturbed', NEW e \in dedupe \cup expired, e \in Events,
                      ~(fanned'[e] > 0)
               PROVE  \E q \in Processors : pc'[q] \in Carrying /\ Quote(q)' = e
    BY <2>1 DEF AcceptedIsCarried
  <2>3. e # Quote(p) /\ ~(fanned[e] > 0)
    BY <2>1 DEF TypeOK
  <2>4. PICK q \in Processors : pc[q] \in Carrying /\ Quote(q) = e
    BY <2>1, <2>2, <2>3 DEF AcceptedIsCarried, Undisturbed
  <2>5. pc'[q] \in Carrying /\ Quote(q)' = e
    BY <2>1, <2>3, <2>4 DEF RoundTrip, Quote
  <2>6. QED
    BY <2>5
<1>7. ASSUME NEW p \in Processors, RequestFails(p) \/ Crash(p)
      PROVE  AcceptedIsCarried'
  <2>1. ~Undisturbed'
    BY <1>7, PipelineAssumption DEF RequestFails, Crash, TypeOK, Undisturbed
  <2>2. QED
    BY <2>1 DEF AcceptedIsCarried
<1>8. ASSUME NEW p \in Processors, NextMessage(p) \/ EndOfBatch(p) \/ Recover(p)
      PROVE  AcceptedIsCarried'
  <2>1. UNCHANGED <<stream, dedupe, expired, fanned, faults, crashes>>
    BY <1>8 DEF NextMessage, EndOfBatch, Recover, redisVars, historyVars
  <2>2. pc[p] \notin Carrying
    BY <1>8 DEF NextMessage, EndOfBatch, Recover, Carrying
  <2>3. \A q \in Processors : q # p => pc'[q] = pc[q] /\ entry'[q] = entry[q]
    BY <1>8, LocalSteps
  <2>4. \A q \in Processors : pc[q] \in Carrying => pc'[q] = pc[q] /\ Quote(q)' = Quote(q)
    BY <2>1, <2>2, <2>3 DEF Quote
  <2>5. QED
    BY <2>1, <2>4 DEF AcceptedIsCarried, Undisturbed
<1>9. ASSUME UNCHANGED vars
      PROVE  AcceptedIsCarried'
  BY <1>9 DEF vars, redisVars, localVars, historyVars, AcceptedIsCarried, Undisturbed, Quote
<1>10. QED
  BY <1>1, <1>2, <1>3, <1>4, <1>5, <1>6, <1>7, <1>8, <1>9 DEF Next, Step

\* Up to the first failure no quote is lost, for any number of processors that
\* claim each other's entries: what was acknowledged without having been
\* published is dead-lettered or still held (accept_event_once, _claim_stale).
THEOREM NothingLostUndisturbed == Spec => []NoLossUndisturbed
<1>1. Init => AcceptedIsCarried
  BY DEF Init, AcceptedIsCarried
<1>2. PipelineInv /\ AcceptedIsCarried /\ [Next]_vars => AcceptedIsCarried'
  BY CarriedStep DEF PipelineInv
<1>3. ASSUME PipelineInv, AcceptedIsCarried, Undisturbed, NEW i \in acked,
             stream[i] # Malformed,
             {j \in 1..Len(stream) : stream[j] = stream[i]} \cap deadLetter = {},
             ~(fanned[stream[i]] > 0)
      PROVE  \E p \in Processors : Holds(p, stream[i])
  <2>1. i \in 1..Len(stream) /\ stream[i] \in Events
    BY <1>3 DEF PipelineInv, TypeOK, Payloads
  <2>2. stream[i] \in dedupe \cup expired
    BY <1>3, <2>1 DEF PipelineInv, AckedHasOutcome
  <2>3. PICK p \in Processors : pc[p] \in Carrying /\ Quote(p) = stream[i]
    BY <1>3, <2>1, <2>2 DEF AcceptedIsCarried
  <2>4. QED
    BY <2>3 DEF Holds, Carrying, Processing
<1>4. PipelineInv /\ AcceptedIsCarried => NoLossUndisturbed
  BY <1>3 DEF NoLossUndisturbed, NoSilentLoss
<1>5. QED
  BY PipelineInvariant, <1>1, <1>2, <1>4, PTL DEF Spec
=============================================================================
