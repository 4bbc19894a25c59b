---------------------------- MODULE CandleHistory ----------------------------
(***************************************************************************)
(* Candle history as the API serves it: HybridCandleHistoryStore           *)
(* (candle_archive.py) reads the hot candles of Redis (storage.py,         *)
(* candles.py) and the archive concurrently and overlays them, while time  *)
(* passes, hot candles expire and the archive lags behind the stream.      *)
(* How a quote is merged into its hot candle is CandleUpdate's subject.    *)
(***************************************************************************)
EXTENDS CandleArchive

CONSTANTS
  Retention,   \* settings.candle_history_retention_seconds, in ticks
  Timeframes,  \* timeframes, in ticks
  Limit,       \* candles of a request
  Unread, Unavailable, \* a layer that has not answered, that has failed
  Start,       \* the time at which the system starts
  MaxNow       \* bound: the last tick

ASSUME HistoryAssumption ==
  /\ Retention \in Nat \ {0} /\ Limit \in Nat \ {0} /\ Start \in Nat /\ MaxNow \in Nat
  /\ \A t \in Timeframes : t \in Nat \ {0} /\ t % MinuteTicks = 0

VARIABLES
  now,
  hot,      \* quotes merged into the hot candles
  reader    \* the request that is being served

vars == <<archiveVars, now, hot, reader>>

NoReader == [end |-> 0]

Init ==
  /\ ArchiveInit
  /\ now = Start
  /\ hot = {}
  /\ reader = NoReader

-----------------------------------------------------------------------------
(* Aggregation *)

Before(e, f) == Precedes(Time[e], Id[e], Time[f], Id[f])

\* The candle of a set of quotes, by definition.
Observed(S) ==
  LET first == CHOOSE e \in S : \A f \in S \ {e} : Before(e, f)
      last  == CHOOSE e \in S : \A f \in S \ {e} : Before(f, e)
  IN  [open |-> Price[first], close |-> Price[last], high |-> Max({Price[e] : e \in S}),
       low |-> Min({Price[e] : e \in S}), activity_count |-> Cardinality(S)]

\* A hot minute candle has not expired.
Alive(m) == m + MinuteTicks + Retention > now

\* history_window
WindowStart(timeframe, end) == FloorTime(end, timeframe) - timeframe * Limit

\* aggregate_base_candles, and likewise _SELECT_CANDLES: the minute candles of
\* each closed bucket of the window, in order.
Aggregate(base, timeframe, end) ==
  LET start == WindowStart(timeframe, end)
      of(b) == {m \in DOMAIN base : FloorTime(m, timeframe) = b}
      buckets == {b \in {FloorTime(m, timeframe) : m \in DOMAIN base} :
                    b >= start /\ b + timeframe <= end}
  IN  [b \in buckets |->
         [open |-> base[Min(of(b))].open, close |-> base[Max(of(b))].close,
          high |-> Max({base[m].high : m \in of(b)}),
          low |-> Min({base[m].low : m \in of(b)}),
          activity_count |-> MapThenSumSet(LAMBDA m : base[m].activity_count, of(b))]]

HotKeys == {m \in Minutes : Alive(m) /\ \E e \in hot : Minute(e) = m}
HotMinutes(keys) == [m \in keys |-> Observed({e \in hot : Minute(e) = m})]
ArchivedMinutes == [m \in {k \in Minutes : rows[k] # NoRow} |-> rows[m]]

\* Faulty variant: rounds down.
CeilTimeframeDown(t, timeframe) == FloorTime(t, timeframe)

\* _ceil_timeframe
CeilTimeframe(t, timeframe) ==
  IF FloorTime(t, timeframe) < t THEN FloorTime(t, timeframe) + timeframe
                                 ELSE FloorTime(t, timeframe)

\* The overlay: a hot candle wins when its whole bucket lies inside the hot
\* retention, or when the archive has none.
Overlay(hotSeries, archiveSeries, timeframe) ==
  LET wins(b) == /\ b \in DOMAIN hotSeries
                 /\ \/ b >= CeilTimeframe(now - Retention, timeframe)
                    \/ b \notin DOMAIN archiveSeries
  IN  [b \in DOMAIN hotSeries \cup DOMAIN archiveSeries |->
         IF wins(b) THEN hotSeries[b] ELSE archiveSeries[b]]

\* The response: the overlay, or the layer that has answered.
Response(timeframe) ==
  LET series(base) == Aggregate(base, timeframe, reader.end)
  IN  CASE reader.archive = Unavailable -> series(reader.hot)
        [] reader.hot = Unavailable -> series(reader.archive)
        [] OTHER -> Overlay(series(reader.hot), series(reader.archive), timeframe)

-----------------------------------------------------------------------------
(* Actions *)

Publish(entry) ==
  /\ entry \in Events => Time[entry] <= now
  /\ PublishQuote(entry)
  /\ UNCHANGED <<now, hot, reader>>

\* The processor merges a quote of the stream into its hot candle, unless that
\* has already expired (cache_quote).
CacheQuote(e) ==
  /\ e \in Range(stream) \ hot
  /\ Alive(Minute(e))
  /\ hot' = hot \cup {e}
  /\ UNCHANGED <<archiveVars, now, reader>>

Tick ==
  /\ now < MaxNow
  /\ now' = now + 1
  /\ UNCHANGED <<archiveVars, hot, reader>>

\* historical_candles without an end: the window ends now. The two layers are
\* read concurrently; the timeframe, which only the aggregation uses, is chosen
\* there.
Request ==
  /\ reader = NoReader
  /\ reader' = [end |-> now, known |-> hot,
                index |-> Unread, hot |-> Unread, archive |-> Unread, recorded |-> {}]
  /\ UNCHANGED <<archiveVars, now, hot>>

\* RedisStore.get_candles reads the index of the minutes ...
ReadIndex ==
  /\ reader # NoReader /\ reader.index = Unread /\ reader.hot = Unread
  /\ reader' = [reader EXCEPT !.index = HotKeys]
  /\ UNCHANGED <<archiveVars, now, hot>>

\* ... and then the candles; those that have expired meanwhile are skipped.
ReadHot ==
  /\ reader # NoReader /\ reader.index # Unread /\ reader.hot = Unread
  /\ reader' = [reader EXCEPT !.hot = HotMinutes(reader.index \cap HotKeys)]
  /\ UNCHANGED <<archiveVars, now, hot>>

\* PostgresCandleArchive.get_candles
ReadArchive ==
  /\ reader # NoReader /\ reader.archive = Unread
  /\ reader' = [reader EXCEPT !.archive = ArchivedMinutes, !.recorded = recorded]
  /\ UNCHANGED <<archiveVars, now, hot>>

\* _capture_series: a layer raises.
LayerFails ==
  /\ faults < MaxFaults
  /\ faults' = faults + 1
  /\ reader # NoReader
  /\ \/ reader.hot = Unread /\ reader' = [reader EXCEPT !.hot = Unavailable]
     \/ reader.archive = Unread /\ reader' = [reader EXCEPT !.archive = Unavailable]
  /\ UNCHANGED <<streamVars, groupVars, retries, worker, tableVars, dead, now, hot>>

ArchiveStep == ArchiveNext /\ UNCHANGED <<now, hot, reader>>

Next ==
  \/ \E entry \in Events \cup {Malformed} : Publish(entry)
  \/ \E e \in Events : CacheQuote(e)
  \/ Tick
  \/ Request \/ ReadIndex \/ ReadHot \/ ReadArchive \/ LayerFails
  \/ ArchiveStep

Spec == Init /\ [][Next]_vars

\* The workers run when they can, and entries become idle long enough to be
\* claimed.
FairSpec ==
  /\ Spec
  /\ \A w \in Workers :
       /\ WF_vars(Process(w) /\ UNCHANGED <<now, hot, reader>>)
       /\ SF_vars(ClaimStale(w, pending) /\ UNCHANGED <<now, hot, reader>>)

-----------------------------------------------------------------------------
(* Properties *)

\* The quotes of a bucket among S.
In(S, b, timeframe) == {e \in S : FloorTime(Time[e], timeframe) = b}

\* The history is exact: a closed bucket of the window is served with all its
\* quotes that were cached when the request began, and nothing but quotes, if
\* it lies inside the hot retention or the archive has caught up with it; a
\* hot bucket that has partly expired never hides the archived one, whatever
\* expires or is archived between the two reads
\* (HybridCandleHistoryStore.get_candles).
HistoryExact ==
  reader # NoReader /\ Unread \notin {reader.hot, reader.archive} =>
    \A t \in Timeframes :
      LET of(b) == In(reader.known, b, t)
          covered(b) ==
            \/ reader.hot # Unavailable /\ b >= CeilTimeframe(now - Retention, t)
            \/ reader.archive # Unavailable /\ of(b) \subseteq reader.recorded
          buckets == {b \in {FloorTime(Time[e], t) : e \in reader.known} :
                        /\ b >= WindowStart(t, reader.end) /\ b + t <= reader.end
                        /\ covered(b)}
      IN  \A b \in buckets :
            /\ b \in DOMAIN Response(t)
            /\ \E more \in SUBSET In(Events, b, t) :
                 Response(t)[b] = Observed(of(b) \cup more)

\* Every entry of the stream is archived, dead-lettered or trimmed: neither a
\* malformed entry in front of it nor an outage nor a killed worker strands it
\* (the claim cursor and the abandoned batches of run).
EntriesSettle ==
  \A i \in 1..MaxEntries : i <= Len(stream) ~> i \in acked \/ i <= trimmed
=============================================================================
