---------------------------- MODULE QuotePipeline ----------------------------
(***************************************************************************)
(* The durable quote pipeline: the collector appends normalized quotes to  *)
(* a Redis stream (storage.py, publish_quote), and the QuoteProcessor of   *)
(* every gateway instance (pipeline.py) reads the stream through one       *)
(* consumer group, deduplicates, checks sequence numbers, updates the      *)
(* latest-value cache and the minute candle, publishes the quote for       *)
(* fan-out and acknowledges the entry.                                     *)
(*                                                                         *)
(* One action is one Redis round trip, the unit at which processors        *)
(* interleave.  A round trip may fail before it takes effect               *)
(* (RequestFails) or take effect and lose its reply (the second disjunct   *)
(* of Reply); an instance may be killed between any two of them (Crash).   *)
(*                                                                         *)
(* A pending entry counts as idle as soon as it is pending: XAUTOCLAIM's   *)
(* five-second threshold bounds no processing time.                        *)
(***************************************************************************)
EXTENDS Integers, Sequences, FiniteSets

CONSTANTS
  Processors,     \* one QuoteProcessor per gateway instance
  Events,         \* quote events; the element stands for its event_id
  Symbol,         \* Symbol[e]: the provider and symbol of e
  Sequence,       \* Sequence[e]: the provider sequence number or NoSequence
  Malformed,      \* a payload that QuoteEvent.model_validate_json rejects
  NoSequence,     \* a missing sequence number, or a missing sequence key
  NoEvent,        \* no latest quote cached
  RetryLimit,     \* settings.retry_limit
  BatchCount,     \* the count of XREADGROUP and XAUTOCLAIM
  StreamMaxLen,   \* settings.stream_maxlen
  MaxEntries,     \* bound: entries ever appended to the stream
  MaxFaults,      \* bound: failed Redis round trips
  MaxCrashes      \* bound: killed gateway instances

Symbols == {Symbol[e] : e \in Events}

Payloads == Events \cup {Malformed}

ASSUME PipelineAssumption ==
  /\ Symbol \in [Events -> Symbols]
  /\ Sequence \in [Events -> Nat \cup {NoSequence}]
  /\ NoSequence \notin Nat
  /\ NoEvent \notin Events
  /\ Malformed \notin Events
  /\ RetryLimit \in Nat \ {0}
  /\ BatchCount \in Nat \ {0}
  /\ StreamMaxLen \in Nat \ {0}
  /\ MaxEntries \in Nat
  /\ MaxFaults \in Nat
  /\ MaxCrashes \in Nat

VARIABLES
  stream,     \* every payload ever appended; its index is the stream id
  trimmed,    \* entries 1..trimmed were removed by MAXLEN
  cursor,     \* last-delivered id of the consumer group
  pending,    \* pending-entries list of the group (owners do not matter:
              \* XACK and XAUTOCLAIM ignore them)
  dedupe,     \* smdg:dedupe:* keys that exist
  seqKey,     \* smdg:sequence:* value of each symbol
  health,     \* smdg:stream-health:* value of each symbol
  latest,     \* smdg:latest:* value of each symbol
  merged,     \* how often each event was merged into its minute candle
  fanned,     \* how often each event was published on the Pub/Sub channel
  retries,    \* smdg:retry:* counter of each entry
  deadLetter, \* entries copied to the dead-letter stream
  pc,         \* where each processor is in run / _process_one
  batch,      \* entries of the last read that are still to be processed
  entry,      \* the entry in hand
  previous,   \* sequence value read by observe_sequence
  faults,     \* failed round trips so far
  crashes,    \* killed instances so far
  acked,      \* history: entries acknowledged
  expired,    \* history: events whose dedupe key has expired
  cached,     \* history: events written to the latest-value cache
  observed,   \* history: events that passed observe_sequence
  flagged     \* history: events counted by the gap_events metric

redisVars == <<stream, trimmed, cursor, pending, dedupe, seqKey, health,
               latest, merged, fanned, retries, deadLetter>>

localVars == <<pc, batch, entry, previous>>

historyVars == <<acked, expired, cached, observed, flagged>>

vars == <<redisVars, localVars, faults, crashes, historyVars>>

Max2(a, b) == IF a < b THEN b ELSE a
Min2(a, b) == IF a < b THEN a ELSE b

-----------------------------------------------------------------------------
(* Control states. An exception raised in Processing is caught by
   _process_one and handled by _handle_failure; one raised in Handling, or
   while polling, is caught by run, which abandons the rest of the batch. *)

Processing == {"accept", "duplicate", "observe", "compare", "degrade",
               "cache", "fanout", "ack"}
Handling   == {"failure", "deadletter", "discard"}
Labels     == Processing \cup Handling \cup {"poll", "batch", "recover"}

\* The stages between accept_event_once and the end of the handler.
Accepted == {"observe", "compare", "degrade", "cache", "fanout", "ack"}

Quote(p) == stream[entry[p]]

Number(p) == Sequence[Quote(p)]

\* Faulty variant: the number is stored without a comparison.
AdvancesAlways(p) == Number(p) # NoSequence

\* observe_sequence stores the number of the quote in hand.
Advances(p) ==
  IF previous[p] = NoSequence THEN TRUE ELSE Number(p) > previous[p]

\* Faulty variant: only out-of-order numbers are reported, gaps are not.
AnomalousLate(p) ==
  IF previous[p] = NoSequence THEN FALSE ELSE Number(p) <= previous[p]

\* observe_sequence reports a gap or an out-of-order number.
Anomalous(p) ==
  IF previous[p] = NoSequence THEN FALSE ELSE Number(p) # previous[p] + 1

\* Processor p is waiting for the reply of a Redis round trip.
AwaitsRedis(p) ==
  /\ pc[p] \in Processing \cup Handling \cup {"poll"}
  /\ pc[p] = "observe" => Number(p) # NoSequence
  /\ pc[p] = "compare" => Advances(p)

\* Faulty variant: an exception is swallowed and the entry acknowledged.
OnErrorAcks(label) == IF label \in Processing THEN "discard" ELSE "recover"

OnError(label) == IF label \in Processing THEN "failure" ELSE "recover"

\* Processor p moves to next, or the reply of its round trip is lost.
Reply(p, next) ==
  \/ /\ pc' = [pc EXCEPT ![p] = next]
     /\ UNCHANGED faults
  \/ /\ faults < MaxFaults
     /\ faults' = faults + 1
     /\ pc' = [pc EXCEPT ![p] = OnError(pc[p])]

\* The loop of run starts over: no entry is in hand.
ToPoll(p) ==
  /\ pc' = [pc EXCEPT ![p] = "poll"]
  /\ batch' = [batch EXCEPT ![p] = {}]
  /\ entry' = [entry EXCEPT ![p] = 0]
  /\ previous' = [previous EXCEPT ![p] = NoSequence]

Init ==
  /\ stream = << >> /\ trimmed = 0 /\ cursor = 0 /\ pending = {}
  /\ dedupe = {}
  /\ seqKey = [s \in Symbols |-> NoSequence]
  /\ health = [s \in Symbols |-> "none"]
  /\ latest = [s \in Symbols |-> NoEvent]
  /\ merged = [e \in Events |-> 0]
  /\ fanned = [e \in Events |-> 0]
  /\ retries = [i \in 1..MaxEntries |-> 0]
  /\ deadLetter = {}
  /\ pc = [p \in Processors |-> "poll"]
  /\ batch = [p \in Processors |-> {}]
  /\ entry = [p \in Processors |-> 0]
  /\ previous = [p \in Processors |-> NoSequence]
  /\ faults = 0 /\ crashes = 0
  /\ acked = {} /\ expired = {} /\ cached = {} /\ observed = {} /\ flagged = {}

-----------------------------------------------------------------------------
(* The producer and the passage of time. *)

\* publish_quote: XADD with an approximate MAXLEN, which removes any number
\* of the oldest entries in excess of the limit.
PublishQuote(payload) ==
  /\ Len(stream) < MaxEntries
  /\ stream' = Append(stream, payload)
  /\ trimmed' \in trimmed .. Max2(trimmed, Len(stream) + 1 - StreamMaxLen)
  /\ UNCHANGED <<cursor, pending, dedupe, seqKey, health, latest, merged,
                 fanned, retries, deadLetter, localVars, faults, crashes,
                 historyVars>>

\* The deduplication key of e reaches its time to live.
DedupeKeyExpires(e) ==
  /\ e \in dedupe
  /\ dedupe' = dedupe \ {e}
  /\ expired' = expired \cup {e}
  /\ UNCHANGED <<stream, trimmed, cursor, pending, seqKey, health, latest,
                 merged, fanned, retries, deadLetter, localVars, faults,
                 crashes, acked, cached, observed, flagged>>

-----------------------------------------------------------------------------
(* QuoteProcessor.run *)

\* Faulty variant: the read starts at the last delivered entry.
FirstUnreadInclusive == Max2(cursor, trimmed)

FirstUnread == Max2(cursor, trimmed) + 1

\* XREADGROUP ">": the next entries, at most BatchCount, become pending.
ReadGroup(p) ==
  LET last == Min2(FirstUnread + BatchCount - 1, Len(stream))
      new  == FirstUnread .. last
  IN  /\ pc[p] = "poll"
      /\ new # {}
      /\ cursor' = last
      /\ pending' = pending \cup new
      /\ Reply(p, "batch")
      /\ batch' = [batch EXCEPT ![p] = IF pc'[p] = "batch" THEN new ELSE {}]
      /\ UNCHANGED <<stream, trimmed, dedupe, seqKey, health, latest, merged,
                     fanned, retries, deadLetter, entry, previous, crashes,
                     historyVars>>

\* Faulty variant: idle entries are never claimed.
ClaimStaleSkipped(p) == pc[p] = "poll" /\ UNCHANGED vars

\* _claim_stale: with nothing new to read, XAUTOCLAIM takes over the first
\* BatchCount idle entries, and drops from the pending list those among them
\* that are no longer in the stream.
ClaimStale(p) ==
  /\ pc[p] = "poll"
  /\ FirstUnread > Len(stream)
  /\ \E idle \in SUBSET pending :
       /\ idle # {}
       /\ Cardinality(idle) <= BatchCount
       /\ pending' = {i \in pending : i \in idle => i > trimmed}
       /\ Reply(p, "batch")
       /\ batch' = [batch EXCEPT ![p] =
                      IF pc'[p] = "batch" THEN {i \in idle : i > trimmed}
                                          ELSE {}]
  /\ UNCHANGED <<stream, trimmed, cursor, dedupe, seqKey, health, latest,
                 merged, fanned, retries, deadLetter, entry, previous,
                 crashes, historyVars>>

\* Faulty variant: the batch is processed from its newest entry.
NextMessageReversed(p) ==
  /\ pc[p] = "batch"
  /\ \E i \in batch[p] :
       /\ \A j \in batch[p] : j <= i
       /\ entry' = [entry EXCEPT ![p] = i]
       /\ batch' = [batch EXCEPT ![p] = @ \ {i}]
       /\ pc' = [pc EXCEPT ![p] =
                   IF stream[i] = Malformed THEN "failure" ELSE "accept"]
  /\ previous' = [previous EXCEPT ![p] = NoSequence]
  /\ UNCHANGED <<redisVars, faults, crashes, historyVars>>

\* The loop over the messages: the next entry, in stream order, is validated.
NextMessage(p) ==
  /\ pc[p] = "batch"
  /\ \E i \in batch[p] :
       /\ \A j \in batch[p] : i <= j
       /\ entry' = [entry EXCEPT ![p] = i]
       /\ batch' = [batch EXCEPT ![p] = @ \ {i}]
       /\ pc' = [pc EXCEPT ![p] =
                   IF stream[i] = Malformed THEN "failure" ELSE "accept"]
  /\ previous' = [previous EXCEPT ![p] = NoSequence]
  /\ UNCHANGED <<redisVars, faults, crashes, historyVars>>

\* The batch is finished.
EndOfBatch(p) ==
  /\ pc[p] = "batch"
  /\ batch[p] = {}
  /\ ToPoll(p)
  /\ UNCHANGED <<redisVars, faults, crashes, historyVars>>

\* run's exception handler: log, sleep, and read again; what was left of the
\* batch stays pending.
Recover(p) ==
  /\ pc[p] = "recover"
  /\ ToPoll(p)
  /\ UNCHANGED <<redisVars, faults, crashes, historyVars>>

-----------------------------------------------------------------------------
(* QuoteProcessor._process_one *)

\* Faulty variant: the key is set without NX.
AcceptEventAlways(p) ==
  /\ pc[p] = "accept"
  /\ dedupe' = dedupe \cup {Quote(p)}
  /\ Reply(p, "observe")
  /\ UNCHANGED <<stream, trimmed, cursor, pending, seqKey, health, latest,
                 merged, fanned, retries, deadLetter, batch, entry, previous,
                 crashes, historyVars>>

\* accept_event_once: SET NX of the deduplication key.
AcceptEventOnce(p) ==
  /\ pc[p] = "accept"
  /\ dedupe' = dedupe \cup {Quote(p)}
  /\ Reply(p, IF Quote(p) \in dedupe THEN "duplicate" ELSE "observe")
  /\ UNCHANGED <<stream, trimmed, cursor, pending, seqKey, health, latest,
                 merged, fanned, retries, deadLetter, batch, entry, previous,
                 crashes, historyVars>>

\* observe_sequence, its GET. An event without a number is not observed.
ReadSequence(p) ==
  /\ pc[p] = "observe"
  /\ \/ /\ Number(p) = NoSequence
        /\ pc' = [pc EXCEPT ![p] = "cache"]
        /\ UNCHANGED <<previous, faults>>
     \/ /\ Number(p) # NoSequence
        /\ previous' = [previous EXCEPT ![p] = seqKey[Symbol[Quote(p)]]]
        /\ Reply(p, "compare")
  /\ UNCHANGED <<redisVars, batch, entry, crashes, historyVars>>

\* observe_sequence, its SET of a larger number, and the anomaly metric.
CompareSequence(p) ==
  LET next == IF Anomalous(p) THEN "degrade" ELSE "cache"
  IN  /\ pc[p] = "compare"
      /\ \/ /\ Advances(p)
            /\ seqKey' = [seqKey EXCEPT ![Symbol[Quote(p)]] = Number(p)]
            /\ Reply(p, next)
         \/ /\ ~Advances(p)
            /\ pc' = [pc EXCEPT ![p] = next]
            /\ UNCHANGED <<seqKey, faults>>
      /\ observed' = IF pc'[p] = next THEN observed \cup {Quote(p)}
                                      ELSE observed
      /\ flagged' = IF pc'[p] = "degrade" THEN flagged \cup {Quote(p)}
                                          ELSE flagged
      /\ UNCHANGED <<stream, trimmed, cursor, pending, dedupe, health, latest,
                     merged, fanned, retries, deadLetter, batch, entry,
                     previous, crashes, acked, expired, cached>>

\* Faulty variant: an anomalous quote is acknowledged without being published.
MarkDegradedDrops(p) ==
  /\ pc[p] = "degrade"
  /\ Reply(p, "ack")
  /\ UNCHANGED <<redisVars, batch, entry, previous, crashes, historyVars>>

\* The stream-health key of the symbol is set to degraded.
MarkDegraded(p) ==
  /\ pc[p] = "degrade"
  /\ health' = [health EXCEPT ![Symbol[Quote(p)]] =
                  IF Number(p) <= previous[p] THEN "out_of_order"
                                              ELSE "gap"]
  /\ Reply(p, "cache")
  /\ UNCHANGED <<stream, trimmed, cursor, pending, dedupe, seqKey, latest,
                 merged, fanned, retries, deadLetter, batch, entry, previous,
                 crashes, historyVars>>

\* Faulty variant: a quote older than the retention is not cached at all.
CacheQuoteRetained(p) ==
  /\ pc[p] = "cache"
  /\ \E retained \in BOOLEAN :
       IF retained
         THEN /\ latest' = [latest EXCEPT ![Symbol[Quote(p)]] = Quote(p)]
              /\ cached' = cached \cup {Quote(p)}
              /\ merged' = [merged EXCEPT ![Quote(p)] = @ + 1]
         ELSE UNCHANGED <<latest, cached, merged>>
  /\ Reply(p, "fanout")
  /\ UNCHANGED <<stream, trimmed, cursor, pending, dedupe, seqKey, health,
                 fanned, retries, deadLetter, batch, entry, previous, crashes,
                 acked, expired, observed, flagged>>

\* Faulty variant: a quote older than the retention is not published.
CacheQuoteUnpublished(p) ==
  /\ pc[p] = "cache"
  /\ latest' = [latest EXCEPT ![Symbol[Quote(p)]] = Quote(p)]
  /\ cached' = cached \cup {Quote(p)}
  /\ \E retained \in BOOLEAN :
       /\ merged' = IF retained THEN [merged EXCEPT ![Quote(p)] = @ + 1]
                                ELSE merged
       /\ Reply(p, IF retained THEN "fanout" ELSE "ack")
  /\ UNCHANGED <<stream, trimmed, cursor, pending, dedupe, seqKey, health,
                 fanned, retries, deadLetter, batch, entry, previous, crashes,
                 acked, expired, observed, flagged>>

\* cache_quote: the transaction writes the latest quote and the minute candle
\* together; a quote older than the candle retention writes only the former.
\* (CandleUpdate models the optimistic loop around the transaction.)
CacheQuote(p) ==
  /\ pc[p] = "cache"
  /\ latest' = [latest EXCEPT ![Symbol[Quote(p)]] = Quote(p)]
  /\ cached' = cached \cup {Quote(p)}
  /\ \E retained \in BOOLEAN :
       merged' = IF retained THEN [merged EXCEPT ![Quote(p)] = @ + 1]
                             ELSE merged
  /\ Reply(p, "fanout")
  /\ UNCHANGED <<stream, trimmed, cursor, pending, dedupe, seqKey, health,
                 fanned, retries, deadLetter, batch, entry, previous, crashes,
                 acked, expired, observed, flagged>>

\* publish_fanout: PUBLISH to every gateway instance.
PublishFanout(p) ==
  /\ pc[p] = "fanout"
  /\ fanned' = [fanned EXCEPT ![Quote(p)] = @ + 1]
  /\ Reply(p, "ack")
  /\ UNCHANGED <<stream, trimmed, cursor, pending, dedupe, seqKey, health,
                 latest, merged, retries, deadLetter, batch, entry, previous,
                 crashes, historyVars>>

\* XACK of the entry in hand, at the end of the handler, for a duplicate, and
\* after a dead-letter copy.
Ack(p) ==
  /\ pc[p] \in {"ack", "duplicate", "discard"}
  /\ pending' = pending \ {entry[p]}
  /\ acked' = acked \cup {entry[p]}
  /\ Reply(p, "batch")
  /\ UNCHANGED <<stream, trimmed, cursor, dedupe, seqKey, health, latest,
                 merged, fanned, retries, deadLetter, batch, entry, previous,
                 crashes, expired, cached, observed, flagged>>

-----------------------------------------------------------------------------
(* QuoteProcessor._handle_failure *)

\* Faulty variant: the last attempt is not granted.
IncrementRetryEarly(p) ==
  /\ pc[p] = "failure"
  /\ retries' = [retries EXCEPT ![entry[p]] = @ + 1]
  /\ Reply(p, IF retries[entry[p]] + 2 >= RetryLimit THEN "deadletter"
                                                     ELSE "batch")
  /\ UNCHANGED <<stream, trimmed, cursor, pending, dedupe, seqKey, health,
                 latest, merged, fanned, deadLetter, batch, entry, previous,
                 crashes, historyVars>>

\* increment_retry, and the comparison with the limit.
IncrementRetry(p) ==
  /\ pc[p] = "failure"
  /\ retries' = [retries EXCEPT ![entry[p]] = @ + 1]
  /\ Reply(p, IF retries[entry[p]] + 1 >= RetryLimit THEN "deadletter"
                                                     ELSE "batch")
  /\ UNCHANGED <<stream, trimmed, cursor, pending, dedupe, seqKey, health,
                 latest, merged, fanned, deadLetter, batch, entry, previous,
                 crashes, historyVars>>

\* move_to_dead_letter.
MoveToDeadLetter(p) ==
  /\ pc[p] = "deadletter"
  /\ deadLetter' = deadLetter \cup {entry[p]}
  /\ Reply(p, "discard")
  /\ UNCHANGED <<stream, trimmed, cursor, pending, dedupe, seqKey, health,
                 latest, merged, fanned, retries, batch, entry, previous,
                 crashes, historyVars>>

-----------------------------------------------------------------------------
(* Failures *)

\* A round trip raises without having taken effect. In the cache stage this
\* also stands for the RuntimeError of exhausted candle retries.
RequestFails(p) ==
  /\ AwaitsRedis(p)
  /\ faults < MaxFaults
  /\ faults' = faults + 1
  /\ pc' = [pc EXCEPT ![p] = OnError(pc[p])]
  /\ UNCHANGED <<redisVars, batch, entry, previous, crashes, historyVars>>

\* The instance is killed or shut down, and one with a new consumer name
\* takes its place.
Crash(p) ==
  /\ crashes < MaxCrashes
  /\ crashes' = crashes + 1
  /\ ToPoll(p)
  /\ UNCHANGED <<redisVars, faults, historyVars>>

-----------------------------------------------------------------------------
Step(p) ==
  \/ ReadGroup(p) \/ ClaimStale(p) \/ NextMessage(p) \/ EndOfBatch(p)
  \/ Recover(p) \/ AcceptEventOnce(p) \/ ReadSequence(p)
  \/ CompareSequence(p) \/ MarkDegraded(p) \/ CacheQuote(p)
  \/ PublishFanout(p) \/ Ack(p) \/ IncrementRetry(p) \/ MoveToDeadLetter(p)

Next ==
  \/ \E payload \in Payloads : PublishQuote(payload)
  \/ \E e \in Events : DedupeKeyExpires(e)
  \/ \E p \in Processors : Step(p) \/ RequestFails(p) \/ Crash(p)

Spec == Init /\ [][Next]_vars

\* The event loop of every instance keeps running its processor task.
FairSpec == Spec /\ \A p \in Processors : WF_vars(Step(p))
-----------------------------------------------------------------------------
(* Properties *)

Entries == 1..MaxEntries

\* Type invariant of the Redis keys, the processors and the history.
TypeOK ==
  /\ stream \in Seq(Payloads) /\ Len(stream) <= MaxEntries
  /\ trimmed \in 0..Len(stream)
  /\ cursor \in 0..Len(stream)
  /\ pending \subseteq 1..Len(stream)
  /\ dedupe \subseteq Events
  /\ seqKey \in [Symbols -> Nat \cup {NoSequence}]
  /\ health \in [Symbols -> {"none", "gap", "out_of_order"}]
  /\ latest \in [Symbols -> Events \cup {NoEvent}]
  /\ merged \in [Events -> Nat]
  /\ fanned \in [Events -> Nat]
  /\ retries \in [Entries -> Nat]
  /\ deadLetter \subseteq 1..Len(stream)
  /\ pc \in [Processors -> Labels]
  /\ batch \in [Processors -> SUBSET (1..Len(stream))]
  /\ entry \in [Processors -> 0..Len(stream)]
  /\ previous \in [Processors -> Nat \cup {NoSequence}]
  /\ faults \in 0..MaxFaults /\ crashes \in 0..MaxCrashes
  /\ acked \subseteq 1..Len(stream)
  /\ expired \subseteq Events /\ cached \subseteq Events
  /\ observed \subseteq Events /\ flagged \subseteq Events

\* Replayed events create no duplicated downstream effect: while its dedupe
\* key lives, an event is published and counted in its candle at most once,
\* whatever is redelivered, reclaimed while still in work, retried or cut
\* short by a crash (SET NX in accept_event_once).
AtMostOnceEffects ==
  \A e \in Events \ expired : fanned[e] <= 1 /\ merged[e] <= 1

\* An entry is acknowledged only when it was copied to the dead-letter stream
\* or its event passed accept_event_once in some delivery; an entry that does
\* not validate is never acknowledged any other way than by dead-lettering
\* (the three XACK calls of pipeline.py).
AckedHasOutcome ==
  \A i \in acked :
    \/ i \in deadLetter
    \/ stream[i] \in dedupe \cup expired

\* The dead-letter stream receives an entry only after RetryLimit failed
\* attempts were counted for it, over all processors that attempted it
\* (increment_retry and its comparison with retry_limit).
DeadLetterAfterRetries ==
  \A i \in deadLetter : retries[i] >= RetryLimit

\* Whoever receives a quote over Pub/Sub finds it, or a quote that replaced
\* it, in the latest-value cache: cache_quote completes before
\* publish_fanout in every delivery that publishes.
PublishedWasCached ==
  \A e \in Events : fanned[e] > 0 => e \in cached /\ latest[Symbol[e]] # NoEvent

\* Processor p still holds a delivery of event e.
Holds(p, e) ==
  \/ pc[p] \in Processing \cup Handling /\ Quote(p) = e
  \/ \E i \in batch[p] : stream[i] = e

\* Failed events are retried and then dead-lettered, and a consumer restart
\* loses no pending event: once every entry of an event is acknowledged and
\* no processor holds one, the event was published or dead-lettered.
NoSilentLoss ==
  \A i \in acked :
    LET e    == stream[i]
        same == {j \in 1..Len(stream) : stream[j] = e}
    IN  \/ e = Malformed
        \/ ~ same \subseteq acked
        \/ \E p \in Processors : Holds(p, e)
        \/ fanned[e] > 0
        \/ same \cap deadLetter # {}

\* No round trip has failed and no instance was killed so far.
Undisturbed == faults = 0 /\ crashes = 0

\* Up to the first failure no quote is lost, also when an entry is reclaimed
\* while another processor is still working on it (accept_event_once and
\* _claim_stale).
NoLossUndisturbed == Undisturbed => NoSilentLoss

ObservedNumbers(s) == {Sequence[e] : e \in {x \in observed : Symbol[x] = s}}

\* Missing and out-of-order sequence numbers are detected: when, up to the
\* first failure, the numbers observed for a symbol have a hole, the
\* gap_events metric counted at least one of its events (observe_sequence;
\* two processors that interleave its GET and its SET can miss one).
GapsFlagged ==
  Undisturbed => \A s \in Symbols :
    \/ \A a, b \in ObservedNumbers(s) : a..b \subseteq ObservedNumbers(s)
    \/ \E e \in flagged : Symbol[e] = s

\* The stored sequence number of a symbol never decreases (the GET and the
\* SET of observe_sequence are two round trips).
SequenceNeverDecreases ==
  [][\A s \in Symbols :
       seqKey[s] # NoSequence => seqKey'[s] >= seqKey[s]]_vars

\* Up to the first failure the cached latest quote of a symbol is not behind
\* an acknowledged first delivery of that symbol: it occurs in the stream at
\* that entry or later (cache_quote overwrites the key without comparing, so
\* this rests on the order in which run works off its batches).
LatestIsNewest ==
  Undisturbed => \A j \in acked :
    \/ stream[j] = Malformed
    \/ \E k \in 1..(j - 1) : stream[k] = stream[j]
    \/ \E i \in j..Len(stream) : stream[i] = latest[Symbol[stream[j]]]

\* Every delivered entry is eventually acknowledged or falls off the stream:
\* no crash, abandoned batch or failed round trip strands a pending entry
\* (XAUTOCLAIM in _claim_stale).
PendingSettles ==
  \A i \in Entries : (i \in pending) ~> (i \in acked \/ i <= trimmed)

\* Without failures every quote that reaches a processor is published
\* (run reads every entry, _process_one runs to publish_fanout).
QuotesPublished ==
  []Undisturbed => \A e \in Events :
    (\E i \in pending : stream[i] = e) ~> (fanned[e] > 0)
=============================================================================
