----------------------------- MODULE CandleUpdate -----------------------------
(***************************************************************************)
(* RedisStore.cache_quote (storage.py): the optimistic WATCH / GET / MULTI *)
(* / EXEC loop with which the processors of several gateway instances      *)
(* merge quotes into shared minute candles and overwrite the latest quote. *)
(* Deduplication (QuotePipeline) lets it be called once per event.         *)
(***************************************************************************)
EXTENDS CandleMerge

CONSTANTS
  Workers,           \* calls of cache_quote, one event each
  SymbolOf,          \* SymbolOf[e]: the symbol of e
  UpdateRetryLimit,  \* settings.candle_update_retry_limit
  NoEvent

ASSUME UpdateAssumption ==
  /\ UpdateRetryLimit \in Nat \ {0}
  /\ NoEvent \notin Events

VARIABLES
  latest,     \* smdg:latest:*
  stale,      \* quotes that were older than the candle retention
  pc,         \* stage of each call
  event,      \* the quote of the call
  copy,       \* the candle read by GET
  dirty,      \* the watched key was modified since WATCH
  attempts    \* failed attempts of the call

callVars == <<pc, event, copy, dirty, attempts>>
uvars == <<candle, merged, latest, stale, callVars>>

UInit ==
  /\ Init
  /\ latest = [s \in {SymbolOf[e] : e \in Events} |-> NoEvent]
  /\ stale = {}
  /\ pc = [w \in Workers |-> "idle"]
  /\ event = [w \in Workers |-> NoEvent]
  /\ copy = [w \in Workers |-> NoCandle]
  /\ dirty = [w \in Workers |-> FALSE]
  /\ attempts = [w \in Workers |-> 0]

\* A processor calls cache_quote for an event that no call has had before.
CacheQuote(w, e) ==
  /\ pc[w] = "idle"
  /\ e \notin merged \cup stale
  /\ \A v \in Workers : event[v] # e
  /\ event' = [event EXCEPT ![w] = e]
  /\ pc' = [pc EXCEPT ![w] = "watch"]
  /\ UNCHANGED <<candle, merged, latest, stale, copy, dirty, attempts>>

\* retention_deadline <= now: only the latest quote is written.
StoreStale(w) ==
  /\ pc[w] = "watch" /\ attempts[w] = 0
  /\ latest' = [latest EXCEPT ![SymbolOf[event[w]]] = event[w]]
  /\ stale' = stale \cup {event[w]}
  /\ pc' = [pc EXCEPT ![w] = "done"]
  /\ UNCHANGED <<candle, merged, event, copy, dirty, attempts>>

\* Faulty variant: the connection is not reset before it watches again.
WatchUnreset(w) ==
  /\ pc[w] = "watch"
  /\ pc' = [pc EXCEPT ![w] = "get"]
  /\ UNCHANGED <<candle, merged, latest, stale, event, copy, dirty, attempts>>

\* Faulty variant: the latest quote is written outside the transaction.
WatchWritesLatest(w) ==
  /\ pc[w] = "watch"
  /\ latest' = [latest EXCEPT ![SymbolOf[event[w]]] = event[w]]
  /\ dirty' = [dirty EXCEPT ![w] = FALSE]
  /\ pc' = [pc EXCEPT ![w] = "get"]
  /\ UNCHANGED <<candle, merged, stale, event, copy, attempts>>

Watch(w) ==
  /\ pc[w] = "watch"
  /\ dirty' = [dirty EXCEPT ![w] = FALSE]
  /\ pc' = [pc EXCEPT ![w] = "get"]
  /\ UNCHANGED <<candle, merged, latest, stale, event, copy, attempts>>

Get(w) ==
  /\ pc[w] = "get"
  /\ copy' = [copy EXCEPT ![w] = candle[Bucket[event[w]]]]
  /\ pc' = [pc EXCEPT ![w] = "exec"]
  /\ UNCHANGED <<candle, merged, latest, stale, event, dirty, attempts>>

\* Faulty variant: the transaction does not watch the key.
CommitUnwatched(w) ==
  LET e == event[w]
  IN  /\ pc[w] = "exec"
      /\ candle' = [candle EXCEPT ![Bucket[e]] = Merge(copy[w], e)]
      /\ merged' = merged \cup {e}
      /\ latest' = [latest EXCEPT ![SymbolOf[e]] = e]
      /\ pc' = [pc EXCEPT ![w] = "done"]
      /\ UNCHANGED <<stale, event, copy, dirty, attempts>>

\* EXEC commits: the latest quote and the candle are written together, and
\* every other transaction that watches the key is doomed.
Commit(w) ==
  LET e == event[w]
      b == Bucket[e]
  IN  /\ pc[w] = "exec" /\ ~dirty[w]
      /\ candle' = [candle EXCEPT ![b] = Merge(copy[w], e)]
      /\ merged' = merged \cup {e}
      /\ latest' = [latest EXCEPT ![SymbolOf[e]] = e]
      /\ dirty' = [v \in Workers |->
                     dirty[v] \/ (pc[v] \in {"get", "exec"} /\ v # w
                                    /\ Bucket[event[v]] = b)]
      /\ pc' = [pc EXCEPT ![w] = "done"]
      /\ UNCHANGED <<stale, event, copy, attempts>>

\* Faulty variant: the key is read again without WATCH, and nothing counted.
ConflictUncounted(w) ==
  /\ pc[w] = "exec" /\ dirty[w]
  /\ pc' = [pc EXCEPT ![w] = "get"]
  /\ UNCHANGED <<candle, merged, latest, stale, event, copy, dirty, attempts>>

\* WatchError: try again, or raise RuntimeError after the last attempt.
Conflict(w) ==
  /\ pc[w] = "exec" /\ dirty[w]
  /\ attempts' = [attempts EXCEPT ![w] = @ + 1]
  /\ pc' = [pc EXCEPT ![w] = IF attempts[w] + 1 < UpdateRetryLimit
                               THEN "watch" ELSE "failed"]
  /\ UNCHANGED <<candle, merged, latest, stale, event, copy, dirty>>

Call(w) == StoreStale(w) \/ Watch(w) \/ Get(w) \/ Commit(w) \/ Conflict(w)

UNext == \E w \in Workers : Call(w) \/ \E e \in Events : CacheQuote(w, e)

USpec == UInit /\ [][UNext]_uvars

\* A call that has begun is run to its end.
UFairSpec == USpec /\ \A w \in Workers : WF_uvars(Call(w))

-----------------------------------------------------------------------------
(* Properties *)

\* Type invariant of the shared keys and of the calls.
UTypeOK ==
  /\ candle \in [Buckets -> Candles \cup {NoCandle}]
  /\ merged \subseteq Events /\ stale \subseteq Events
  /\ latest \in [{SymbolOf[e] : e \in Events} -> Events \cup {NoEvent}]
  /\ pc \in [Workers -> {"idle", "watch", "get", "exec", "done", "failed"}]
  /\ event \in [Workers -> Events \cup {NoEvent}]
  /\ \A w \in Workers : pc[w] # "idle" => event[w] \in Events
  /\ copy \in [Workers -> Candles \cup {NoCandle}]
  /\ dirty \in [Workers -> BOOLEAN]
  /\ attempts \in [Workers -> 0..UpdateRetryLimit]

\* The optimistic loop is as good as an atomic merge: no concurrent update of
\* a candle is lost or applied twice (WATCH in cache_quote).
Atomic == INSTANCE CandleMerge
AtomicMerges == Atomic!Spec

\* Optimistic retries are lost only to other quotes of the same minute: a call
\* fails no more often than quotes were merged into its candle, so the
\* RuntimeError of cache_quote needs UpdateRetryLimit competing quotes.
ConflictsAreProgress ==
  \A w \in Workers :
    pc[w] # "idle" => attempts[w] <= Cardinality(MergedInto(Bucket[event[w]]))

\* A quote in the latest-value cache is in its candle, or was too old for it:
\* the snapshot never shows a price that the history misses (MULTI).
LatestInHistory ==
  \A s \in DOMAIN latest : latest[s] # NoEvent => latest[s] \in merged \cup stale

\* Every call ends (the bounded loop of cache_quote).
CallsEnd ==
  \A w \in Workers : pc[w] = "watch" ~> pc[w] \in {"done", "failed"}
=============================================================================
