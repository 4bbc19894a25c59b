# Verification of the smart market data gateway

TLA+ models of the gateway under `src/src/smart_market_data_gateway/`, the TLC
configurations that check them, and TLAPS proofs of their central invariants.
Paths below are relative to that package unless they say otherwise.

## The system and its parts

A *collector* connects to a provider and appends normalized quotes to a Redis
stream. The *quote processors*, one per gateway instance, read the stream
through one consumer group, deduplicate, check sequence numbers, update the
latest-value cache and the minute candles, and publish every quote on a Pub/Sub
channel. The *fan-out listener* of every instance puts it into the buffers of
the WebSocket clients that subscribed. The *subscription registry* in Redis
turns client subscriptions into control messages for the collector. The
*archive workers* read the same stream through a group of their own and keep
minute candles in PostgreSQL; history requests overlay them with the hot candles
of Redis. The *market evidence recorder* is a client, or a direct user of a
provider, that appends what it sees to a hash-linked file.

| Component | State | Operations | Interacts through | Hard about it | Must hold |
|---|---|---|---|---|---|
| Quote processor (`pipeline.py`, `storage.py`) | stream, consumer group, dedupe, sequence, health and retry keys, dead-letter stream | `run`, `_claim_stale`, `_process_one`, `_handle_failure` | quote stream in, Pub/Sub out | redelivery, crashes between round trips, lost replies, trimming | effects at most once, nothing acknowledged without an outcome, nothing stranded |
| Hot candle store (`candles.py`, `storage.py`) | candle and latest keys | `cache_quote`, `from_quote`, `with_quote` | called by the processors | concurrent optimistic transactions, out-of-order quotes | candle = aggregate of its quotes, no lost update |
| Subscription registry (`subscriptions.py`) | member sets with leases, connection sets, upstream state, release tasks | `subscribe`, `unsubscribe`, `heartbeat`, `disconnect`, `_release_after_grace`, `cleanup_expired`, `refresh_metrics` | control stream | several instances, grace periods, lapsing leases, crashes | upstream follows demand |
| Client delivery (`qos.py`, `app.py`, `pipeline.py`) | sessions and symbol index, buffers, the tasks of a connection | `ConnectionHub`, `LatestValueBuffer`, `FanoutListener`, `market_stream` | Pub/Sub in, WebSocket out | receive and send loop of a connection interleave, buffers overflow, cleanup fails half-way | no gap between snapshot and live stream, order, nothing left behind |
| Connection limits (`connections.py`) | slots with leases | `acquire`, `heartbeat`, `release` | called by `market_stream` | slots of dead connections | at most `max_connections` live |
| Collector (`collector.py`) | active symbols, provider lock | `_control_loop`, `_apply_control`, `_provider_loop` | control stream in, quote stream out | reconnection against control messages, a provider call that never returns, restart | provider subscribed to the active symbols, recovery |
| Coinbase provider (`providers/coinbase.py`) | session, symbols, acknowledged channels, queue, book and numbers per symbol | `connect`, `subscribe`, `unsubscribe`, `disconnect`, `events`, `_reader_loop` | called by the collector, WebSocket in | reader task against callers, full queue, sessions that end while a request is sent | quotes in order, book of the same session |
| Candle archive (`candle_archive.py`, `candle_archive_worker.py`) | consumer group, claim cursor, idempotency table, rows | `run`, `_claim_stale`, `_persist`, `persist_event` | quote stream, PostgreSQL | commit without acknowledgement, claims by several workers, malformed entries | canonical candle, nothing lost, nothing stranded |
| Candle history (`candle_archive.py`, `candle_api.py`, `storage.py`) | none | `HybridCandleHistoryStore.get_candles` | Redis and PostgreSQL, read concurrently | hot candles expire bucket by bucket, the archive lags, a layer fails | exact closed candles |
| Market evidence recorder (`recorder.py`, `research_capture.py`) | file, chain head, last sequence numbers | `verify_jsonl_ledger`, `AtomicJsonlWriter`, `handle`, `record_websocket`, `capture_provider_session` | WebSocket or provider in, file out | partial writes, rollback, kills, several processes on one file | completed rows kept and linked, gaps marked, reports true |
| Usage accounting (`usage.py`, `usage_sink.py`, `storage.py`) | queue, idempotency keys, usage stream, database | `record`, `record_usage`, sink | Redis, database | two round trips per record | each use counted once |
| Rate limiting, security (`rate_limit.py`, `security.py`) | window counters | `allow`, authentication | request path | | never above the limit |
| REST API (`app.py`, `candle_api.py`) | none | reads | Redis, database | see candle history | |
| Chart client (`src/apps/chart-reference/src/market-data/`) | socket generation, desired subscriptions, candles | connect, reconcile, aggregate | WebSocket | callbacks of earlier sockets | stale events fenced |

`PROJECT.json` lists every component with its status and, under `hazards`, the
lines where each is hard to test.

## Modules

| Module | Models |
|---|---|
| `QuotePipeline` | processors, stream, consumer group, deduplication, retries |
| `CandleMerge` | what the candle store promises: each quote is merged atomically |
| `CandleUpdate` | the WATCH / GET / MULTI / EXEC loop of `cache_quote`, which implements `CandleMerge` |
| `SubscriptionRegistry` | registry, handlers, heartbeats, leases, release tasks, cleanup |
| `ClientDelivery` | Pub/Sub, hub, buffers, receive and send loop of a connection |
| `CoinbaseProvider` | the provider: session, requests, reader task, projector |
| `Collector` | control loop and provider loop on top of `CoinbaseProvider` |
| `CandleArchive` | archive workers, consumer group, upsert statement; implements `CandleMerge` |
| `CandleHistory` | the history request over hot and archived candles, on top of `CandleArchive` |
| `Recorder` | the ledger file, its writers, recorders and captures |
| `MC*` | the constants of the TLC instances |
| `QuotePipelineProofs`, `QuotePipelineOrderProofs`, `CandleProofs`, `CandleArchiveProofs`, `SubscriptionRegistryProofs`, `ClientDeliveryProofs`, `CollectorProofs`, `RecorderProofs` | theorems and proofs about the module of the same name; the second is about numbers and order with one processor, `CandleProofs` about `CandleMerge` and `CandleUpdate`, `CandleArchiveProofs` also about `CandleHistory` |

Every module keeps some *faulty variants* of its operators, so marked and used by
no specification: they are the bugs each property must be able to notice, and
PROJECT.json (`mutants`) says which variant breaks which property.

### QuotePipeline

One action is one Redis round trip, because that is where processors interleave.
A round trip may fail before it takes effect (`RequestFails`) or take effect and
lose its reply (second disjunct of `Reply`). What happens next depends on where
it was: `_process_one` catches it and calls `_handle_failure`; an exception of
that, or of polling, reaches `run`, which abandons the rest of the batch
(`OnError`). `Crash` kills an instance between two round trips.

`stream` keeps every payload ever appended, and `trimmed` counts those that
MAXLEN has removed. XAUTOCLAIM's idle threshold is a duration and bounds no
processing time, so every pending entry counts as idle: the model includes the
reclaim of an entry that is still in work. Owners in the pending list are left
out because neither XACK nor XAUTOCLAIM looks at them. Not modelled: the one-hour
expiry of the retry counter, which can only postpone a dead letter, and the
expiry of the sequence and latest keys.

### CandleMerge and CandleUpdate

An event is ranked by its (timestamp, id) pair, as `with_quote` compares them.
`CandleMerge` applies a quote to a candle in one step; `CandleUpdate` splits it
into WATCH, GET and EXEC, where a commit on the same candle dooms every open
transaction that watches it. A quote beyond the retention writes the latest key
only. The expiry of candles, the bucket index and the reads are `CandleHistory`'s
subject.

### SubscriptionRegistry

Lua scripts are atomic; every other command, and the continuation that uses a
script's reply, is a step. The control stream is read in order, so `upstream` is
the last control message of a symbol: what the collector holds once it has caught
up.

*Leases and ghost members.* `heartbeat` reads the symbols of the connection key
(`HeartbeatRead`) and refreshes their leases later (`HeartbeatWrite`). An
unsubscribe in between is undone: the connection is a member again although
nothing lists the symbol any more. No heartbeat refreshes such a ghost member, so
it lapses while the heartbeat task runs (`LeaseLapses` for a symbol outside the
connection key). Leases of listed symbols lapse when heartbeats come late
(`HeartbeatLate`): the loop waits for the send lock behind a slow client, has
closed an idle client or has ended with an exception. `beating` says that the
heartbeats of a connection come in time. One assumption about time remains: a lease
outlasts the round trips of the call that wrote it (`Visits`).

*Release tasks.* A task sleeps (`grace`), runs its script (`ReleaseScript`) at any
moment after it was created, also right after a heartbeat has read its symbols, and
acts on the reply (`ReleaseReply`). `_schedule_release` keeps a task that is not
done, one whose script has already run included (`kept`).

*History.* Three variables that no step reads record what separates demand from
upstream in the code, so that the properties can name it: `revived` (a heartbeat
has added a connection that was not a member, because it had unsubscribed or had
been purged), `overtaken` (an unsubscribe message came after the next activation)
and `unattended` (`refresh_metrics` purged the last member, a task was kept whose
script had run, or a cancelled task did not send its message).

Some choices deserve a word:
- `refresh_metrics` is one step, because what it removes per symbol is
  independent of the other symbols;
- `session` grows when the handler starts the registry call; the roll-back in
  `app.py:471-476` cannot be reached, since a connection has one receive loop and
  so no second command in between;
- a subscriber that cancels a release task removes it and performs the task's
  final `refresh_metrics` in the same step (`SubscribeReply`). In the code the
  `finally` block of the cancelled task runs one turn of the event loop later, and
  may then pop a newer task of the symbol from `_release_tasks`; that task, which
  nobody can cancel any more, acts like the task of another instance. A task
  cancelled while it publishes may or may not have sent its message;
- a symbol key outlives the scores in it; its expiry has the effect of a
  `refresh_metrics` that finds them lapsed, and is not a step of its own.

### ClientDelivery

The lock of the hub and the condition of the buffer are never held across an
await, so hub operations are atomic in the event loop; Redis, the socket and the
timers are the suspension points. Every gateway instance runs a processor, so
there are several (`Processors`). Each reads a batch (`ReadBatch`), caches its first
quote, publishes it and goes on; between the two round trips others may cache and
publish quotes of the same symbol, so the order of publication (`published`) is not
that of the cache (`latest`). The listener takes the messages in their order
(`heard`). A quote is its number in the stream, which is also its `received_at`;
in the buffers and the log a live quote is its place in `published`, since two
quotes may be published in either order. A processor that fails is the subject of
`QuotePipeline`.

Of the subscription registry only the key that lists the symbols of a connection
remains. It expires when heartbeats are late or their task has ended while the
session goes on (`LeaseLapses`); `lapsed` remembers the connections to which this
happened. The connection registry is a set of slots, of which connections to other
instances (`Elsewhere`) may hold some from the start.

### CoinbaseProvider and Collector

`CoinbaseProvider` defines what each call of the provider does up to its next
suspension, as actions on the provider's variables; `Collector` EXTENDS it and
lets the two loops of `CollectorService` perform them under `_provider_lock`,
next to the reader task. `disconnect` is called without that lock, as in the
code. The server side of the session (`upstream`) is external: it delivers the
symbols asked for, confirms requests with a `subscriptions` message, and may
close or fall silent. A quote is its symbol, its local number, the session in
which it was received and the session of its book; the arithmetic of volumes and
the parsing of decimals come down to a trade that is accepted or `bad`. The
sends of one request are one step, since a send fails only on a session that has
ended. The control stream is explicit, and its messages come from the gateways in
any order.

`Stop` covers a Redis command of the exception handler that raises, which ends
`run`, and a kill; the container is restarted (`docker-compose.yml`).

### CandleArchive and CandleHistory

Entries of the stream are numbers, and a batch is a set of them handled in
order, since XAUTOCLAIM and XREADGROUP return entries by id and claimed entries
precede new ones. Which pending entries have been idle long enough is a free
choice of every scan. MAXLEN is approximate, so it may remove any number of the
entries in excess. `PersistEvent` is one database statement, which takes effect
as a whole; a call that raises may have taken effect (`Fails`).

`CandleHistory` adds the clock, the processors' writes to the hot candles (one
step here; `CandleUpdate` shows why) and one request, whose reads of the Redis
index, of the Redis candles and of the archive are steps of their own. Time is
counted in ticks; a minute, a timeframe and the retention are a few ticks each.
Aggregation (`Aggregate`) is the code's, on minute candles; the reference
definition it is compared with (`Observed`) works on the set of quotes.

### Recorder

The file is a sequence of complete lines and the set of processes whose bytes
follow the last newline; a hash is the sequence of the contents it covers, so
that hashes do not collide. `write` is split at every system call: the size of
the file is read, bytes are appended in up to two parts, and a failure truncates
the file to the size that was read, which may fail as well. Recorders and
captures start, reconnect, fail, are killed and are started again. fsync matters
for a loss of power only, which is not modelled.

## Runs

| Run | Instance | Checks |
|---|---|---|
| `pipeline` | 2 processors, 1 quote or a malformed payload in 2 entries, stream limit 1, 1 failed round trip, 1 crash | type, effects at most once, acknowledged entries have an outcome, dead letters only after all retries, cache before fan-out, no loss before the first failure |
| `pipeline_live` | 1 processor, 3 quotes (numbers 1, 3, none) and malformed payloads in 2 entries, 1 failure, 1 crash, fairness | pending entries settle, quotes are published, gaps are noticed, the stored number grows, the cache follows the stream |
| `pipeline_loss` | 2 processors, 1 entry, 1 crash | *violated*: a consumer restart loses no pending event |
| `candle` | 4 calls, 4 quotes in 2 minutes, 2 attempts, fairness | refinement of `CandleMerge`, aggregate, conflicts are progress, latest in history, calls end |
| `registry` | 2 connections of 1 instance, 4 commands or heartbeats, early or late, no failures, fairness | heartbeats keep memberships, symbols with members have upstream, unused ones a release, upstream converges |
| `registry_multi` | 2 instances with a connection each, 2 commands or heartbeats, 2 failed commands or crashes | type, one activator, symbols with members have upstream |
| `registry_race` | 2 instances, no failures | *violated*: subscribed symbols have upstream |
| `delivery` | 2 processors, 1 connection and perhaps one elsewhere for 1 slot, 2 symbols, 2 quotes, buffer of 1, 3 commands, 1 failure or expired key, fairness | hub indexes agree, delivered symbols are registered, no gap, order, nothing left behind, eventually current |
| `delivery_snapshot` | 1 connection, 2 quotes | *violated*: snapshot before live updates |
| `collector` | 2 symbols, 2 control messages, 2 provider messages, queue of 1, 1 session that fails, 1 failed command or kill, fairness | a quiet session serves the active symbols, published numbers grow, active symbols are the wanted ones, recovery or an unanswerable wait |
| `archive` | 1 worker, batch of 1, 2 entries of 3 quotes (two with one timestamp, one of the next minute) or malformed, retry limit 2, stream limit 1, 1 failure, 2 timeframes, fairness | refinement of `CandleMerge`, acknowledged entries are archived, entries settle, history exact |
| `recorder` | 1 recorder and 1 capture, 3 rows, numbers up to 3 or none, 3 records each, 1 reconnect, 2 failures or kills | chain intact, gaps marked, reports true |

**Bounds.** Two processors suffice for what the group shares, since every
conflict is between two deliveries of an entry, and for the order in which two
quotes are cached and published; two entries allow a duplicate,
trimming and a batch abandoned half-way; the retry limit of two separates a first
from a last attempt. With two attempts it takes three calls for one to fail in
`candle`; the fourth works on another minute or joins the contention. Two registry instances
with a connection each produce every race between a release on one and a
subscription on the other. A subscription on each
instance, with departures that count as no event, makes the release race of
`registry_multi`; subscribe, a heartbeat that is read, unsubscribe and the next
subscribe are the four events of `registry` that put a ghost member in the way of
the next subscriber. Leases lapse without counting as events. A buffer of
one with two symbols overflows at once, and a queue of one makes the reader of the
provider wait. Two control messages and one lost session let a message fall into
every stage of a reconnection. With a batch of one, two entries need a second
scan, which is what the claim cursor is about, and a timeframe of two minutes has
a bucket of which one half expires first; two workers on one row are left to the
refinement, since the statement is atomic. A failed write, its failed rollback and
the row after it fit into two failures and three rows. What the safety runs cannot
reach at these bounds is the business of the theorems, which have none.
Runs do not check deadlock: clients may stop sending and streams may run dry.

**Symmetry** is used in safety runs only: the processors of `pipeline`, the two
instances with their connections in `registry_multi`.

**Fairness.** Tasks of an event loop that are ready do run, and Redis answers or
fails, so every step of a processor, a handler, a release task, a send loop and
a call of `cache_quote` is weakly fair. A request that was sent arrives, so a
heartbeat that was read is written, and a lease that nobody refreshes lapses. A
sweep that finds members again and again looks at them (strong fairness, since the
scan is repeated for ever and purges come and go). A delivery interval passes. The two loops
of the collector compete for `asyncio.Lock`, which is first-come first-served, so
their steps are strongly fair; the server answers on a session that stays open,
a closed session is noticed, and a stopped collector is restarted. An archive
worker runs, and an entry that stays pending is idle long enough again and again:
a scan that claims it is strongly fair. The
arrival of quotes, the commands and departures of clients, late heartbeats and
failures are not fair.

**Faults and scope.** `GapsFlagged`, `LatestIsNewest`, `QuotesPublished` and
`NoLossUndisturbed` speak about the time before the first failure: after one the
code gives no such guarantee, which `pipeline_loss` shows. The first three are
checked, and the first two proved, with one processor. `NoGap`, `EndedLeavesNothing` and `EventuallyCurrent`
likewise hold up to the first failure; after one, `app.py` skips the rest of the
cleanup. With several processors the first and the last of the three promise the
cached quote or the one published last, not the newest. `DeliveredIsRegistered`
excepts connections whose key has expired, `BeatingIsMember` those whose heartbeats
are late. `SubscribedIsServed`, `UnusedIsReleased` and `UpstreamFollowsDemand` hold up
to the first fault (the last is checked without any); the first excepts the symbols
in `revived` and `overtaken`, the second those in `unattended`, the third both. `ActiveIsWanted` leaves out the
control messages that were thrown away, `GapsMarked` and `ReportIsTrue` the sessions with a failed write and overlapping
writers, `LedgerIntact` overlapping writers and failed rollbacks: in these cases the code does not keep
the property, and the next section says how.

### What the violated runs show

- `pipeline_loss`: the dedupe key is set before the effects (`pipeline.py:70`). A
  crash in between makes the redelivery a duplicate, acknowledged without effect.
- `registry_race`: the release script and the unsubscribe message are two steps
  (`subscriptions.py:198`). A client of another instance subscribes in between,
  and the late message removes its upstream subscription.
- `delivery_snapshot`: the hub is joined before the snapshot is read
  (`app.py:478`), so the send loop may be first.

The models reproduce further behaviour of this kind that no run asserts: two
processors interleave the GET and SET of `observe_sequence` and miss a gap
(`storage.py:244`); the first subscriber fails after its script and a second one
does not activate the symbol (`subscriptions.py:113`); `registry.disconnect` raises
and the session stays in the hub (`app.py:580`).

- Registry: a heartbeat that has read its symbols writes their leases after an
  unsubscribe (`subscriptions.py:156`). The kept release task of an earlier
  unsubscribe may fire in between and release the symbol; the next subscriber is
  then the second member behind a ghost and does not activate it
  (`subscriptions.py:113`). This takes one instance and no fault. The same happens
  when a heartbeat brings back a connection that was purged while its session went
  on.
- Registry: `refresh_metrics` purges lapsed members, ghosts and those of a crashed
  instance alike, and schedules no release (`subscriptions.py:252`);
  `cleanup_expired` then finds no transition, and the upstream subscription leaks.
  So it does when the last member leaves while a task is kept whose script has
  already run (`subscriptions.py:176`), or when a subscriber that is not the first
  one cancels a task between its script and its message (`subscriptions.py:112`).
- Registry: an exception ends the heartbeat task of an open connection
  (`app.py:411`). Its leases lapse and the next purge removes it, while the hub goes
  on serving the session; the symbol may be released under it.
- Delivery: processor A caches q1, B caches and publishes q2, A publishes q1
  (`pipeline.py:107-108`). The buffer replaces the unsent q2 by q1 and counts no
  drop, although `qos.py:29` says that it stores the newest unsent quote of a symbol;
  the client stays on q1 while the cache holds q2. `NoGap` and `EventuallyCurrent`
  name this as the alternative to the cached quote.

- Collector: `subscribe` waits for acknowledgements without a timeout
  (`providers/coinbase.py:503`) and holds the provider lock. If the session ends
  meanwhile, or the reader waits for room in the queue that the waiting provider
  loop does not empty, nobody records the acknowledgement: both loops stand still,
  and so does the control stream. `RestoredOrUnanswerable` says that this is the
  only way in which the collector fails to recover. `docs/architecture/quote-flow.md:38`
  promises that it "reconnects with capped exponential backoff and jitter, then
  restores the active symbol set."
- Collector: control messages that were read when an exception leaves the batch
  are never read again (`collector.py:93`), and a restarted collector has no active
  symbols, while the registry still holds its upstream keys (`collector.py:42`).
- Provider: a trade that cannot be normalized uses up the numbers of the symbols
  sorted before it (`providers/coinbase.py:350`), which the processors take for a
  gap.
- Recorder: the last number is advanced before the row is written
  (`recorder.py:368`). After a failed write the same quote is a duplicate and the
  next row is not marked, although `docs/tmi-recorder.md` says that forward gaps are
  counted and the affected row marked. A failed rollback leaves bytes in front of the next
  row; two writers on one file break the chain and truncate each other's rows,
  as nothing locks it.

## Proofs

The proofs hold for every value of the constants under the assumptions named in
the modules (`PipelineAssumption`, `CandleAssumption`, `NoCandleAssumption`,
`UpdateAssumption`, `ArchiveAssumption`, `NoRowAssumption`, `HistoryAssumption`,
`RegistryAssumption`, `DeliveryAssumption`, `ProviderAssumption`,
`CollectorAssumption`, `RecorderAssumption`), which TLC evaluates in the runs. They say that bounds are
numbers, limits positive, identifiers distinct, and that the values that stand for
"none" are no values of the kind they stand beside. Where a theorem needs more,
because the code guarantees its property only then, the theorem says so, as a
hypothesis about a constant or as a condition on the state:

| Hypothesis | Theorems | Why it is needed |
|---|---|---|
| `OneProcessor` | `StoredNumberGrows`, `GapsAreFlagged`, `CacheFollowsStream` | GET and SET of `observe_sequence` and the reclaim of an entry interleave between instances |

Each section below names the inductive invariant, the reason it is needed and the
heart of the argument. Every proof has one step per action.

**`QuotePipelineProofs`** proves, for any number of processors, events, entries,
faults and crashes, the type invariant and `AtMostOnceEffects`,
`AckedHasOutcome`, `DeadLetterAfterRetries`, `PublishedWasCached`. None of them is
inductive: that an event is published at most once needs to know how many
processors are between `accept_event_once` and the publication. `PipelineInv` adds
- `InHandOK`: an entry in hand is a quote exactly in the stages that read it;
- `EffectsOK`: for an event whose key has not expired, at most one processor is
  past the deduplication, and if one is before the effect the effect has not
  happened;
- `StagesOK`, `CachedOK`: what each stage of a handler already did.

One lemma per part shows that every action preserves it. `NoLossUndisturbed` needs
one more part, `AcceptedIsCarried`: until the first failure an event whose dedupe
key is set and that is not published yet is in the hands of a processor, so an
entry acknowledged as a duplicate loses nothing.

**`QuotePipelineOrderProofs`** treats one processor. `SequenceNeverDecreases`
holds across failures and restarts, because what `observe_sequence` has read is
what is stored when it writes (`ReadIsStored`). `GapsFlagged` follows from
`Unbroken`: the numbers observed for a symbol have no hole and end with the stored
one, unless a gap was noticed. For `LatestIsNewest` the invariant `OrderInv` says
that up to the first failure acknowledged quotes precede the one in hand, which
precedes the batch (`HandOK`), that a dedupe key belongs to an earlier entry
(`KeysOK`), and that what has been cached is the latest value or superseded by it
(`LatestOK`).

**`CandleProofs`** proves `Spec => []CandlesAggregate` for the atomic merge; the
heart is `WithQuoteAggregates`, that `with_quote` extends an aggregate of S to
one of S and the new quote. It then proves that the optimistic loop implements
the atomic merge (`USpec => AtomicMerges`). The invariant `UInv` says that a
transaction that was not invalidated holds the current candle of its minute.
`HotCandlesAggregate` follows for the loop. `ConflictsPayForProgress` bounds the
failed attempts of a call by the number of quotes merged into its candle; its
strengthening counts a transaction that is already invalidated as one more.
`LatestQuoteInHistory` is about the latest key, which is written in the same EXEC.

**`CandleArchiveProofs`** proves `Spec => []AckedIsArchived` for any number of
workers, entries and faults. The invariant `ArchiveInv` adds what each stage of a
worker knows of the entry in its hands (`StageOK`): it is dead-lettered only when
it is malformed and its attempts are used up, and acknowledged only when it is
settled. Several workers may hold the same entry, so the argument rests on
`SettledStays`: what is settled stays settled whatever the others do (`Grows`).

The refinement `ArchiveIsCanonical` shows that the rows change as by atomic merges
of every event once. A row keeps times and ids of its first and last event, while
a candle keeps their ranks; `RowsOK` says that they are those of events, and
`RankOrder` that the two comparisons of the upsert statement agree
with the order of ranks. `PersistMerges` then shows that the statement on an event
that is not in the idempotency table is a merge, and `StepPersists` that no other
step touches the rows. `ArchivedCandlesExact` states what follows for a reader:
open, high, low, close and activity count of each row are those of the recorded
events of the minute (`RowsExact`, in the proof module), in whatever order they
came; its invariant is `RowsAggregate`.

`HistoryIsExact` proves `HistoryExact` for any prices, retention, timeframes, limit
and number of quotes, workers and faults. It has three parts.

- *The invariant.* `HistoryInv` says what the request in flight holds (`ReaderOK`):
  the quotes known when it began whose candles have not expired (`Kept`) are in the
  minutes of the index it read and in the candles it read, which are the candles of
  some set of quotes (`IsBase`); what it read from the archive are the candles of the
  events recorded at that time. It is needed because the index, the hot candles and
  the archive are read at different times: each answer is compared with what was
  known at the beginning and still kept now, and `Kept` only shrinks
  (`KeptShrinks`), so an answer that was complete stays complete.
- *Aggregation.* `AggregateExact` is a fact about the operator, for any set of
  quotes: from its minute candles, `Aggregate` makes exactly the candles of its
  closed buckets in the window. Open and close need that a first and a last event
  exist (`FirstExists`) and that rounding is monotone and composes, since a timeframe
  is a whole number of minutes (`FloorMonotone`, `FloorOfMinute`). The activity count
  is a fold; `SumUnfolds` exposes the recursion it stands for, `SumUnique` shows with
  a smallest counterexample (`MinimalSubset`, from the well-foundedness of the strict
  subset relation) that it has one solution, and `SumOfCounts` that the number of
  events in the minutes is one.
- *The overlay.* All minutes of a bucket inside the hot retention are kept
  (`RetainedIsKept`), so the hot series serves it; a bucket whose quotes the archive
  had recorded is served by the archive; and `InvImpliesExact` shows that the
  overlay takes each from a layer that serves it.

**`SubscriptionRegistryProofs`** proves for any number of instances, connections,
faults and lapsing leases the type invariant, `BeatingIsMember` and
`SingleActivator`. The invariant adds `ActivatorOK`: a handler between the script
and its control message is a live member of the symbol, which keeps release scripts
from deleting the state it sets, and one that publishes has set that state, so SET NX
lets no second one through. The two theorems about demand and upstream hold for any
number of instances in every state before the first fault (`HistoryGrows` carries
that condition backwards over a step). For `SubscribedIsServed`, `ServedInv` says
that a symbol with a member has its upstream state or a handler about to set it
(`DemandOK`; every way to become a member is the script of subscribe, which counts,
or a heartbeat that is recorded in `revived`), and that a symbol with that state is
subscribed upstream or a handler is about to publish (`ActiveOK`; only a late
unsubscribe message, recorded in `overtaken`, breaks it). `ReleaseInv` turns the
argument round for `UnusedIsReleased`: a symbol that is subscribed upstream has its
state, a task that has released it or a handler that will set the state again
(`UpstreamOK`), and one without members has a task that will release it, a sweep or a
departing client that will schedule one (`UnusedOK`). The invariant is needed for
ghost members: their lapse is found by a sweep or a script, or else it is one of the
purges in `unattended`.

**`ClientDeliveryProofs`** proves for any number of processors, connections,
symbols, quotes and any buffer size the type invariant, `HubIndexExact`,
`DeliveredIsRegistered`, `EndedLeavesNothing`, `LiveInOrder` and `NoGap`. `HubInv` says
what each stage of `market_stream` has entered in the hub, in the registry and among
the slots. `OrderInv` places, for every symbol, the quotes sent before the buffered
one and that before those which the listener has still to take (`QueueOK`, by the
place in the order of publication), so that coalescing and dropping keep the order;
`FeedOK` says what the processors hold. For `NoGap`, `CarriedOK` says that as long as
nothing failed and nothing was dropped, the cached quote or the one published last
gets to a subscribed client: a processor is about to publish a quote of the symbol
(`Publishing`), the quote published last is in the channel, in the buffer, in the
hands of the send loop or sent (`LastUnderway`), or the cached quote was read as
snapshot (`SnapshotTaken`), unless the snapshot is still to be read. At rest only
what was sent remains. The alternative is needed because a quote that is cached
between the snapshot and the publication of another one may itself have been
published earlier and coalesced away.

**`CollectorProofs`** proves `SessionServesActive`, `PublishedInOrder` and
`ActiveIsWanted` for any number of symbols, control messages, sessions and faults.
`StagesOK` relates the stages of the two loops through `_provider_lock`, `DownOK`
says that there is no session between disconnect and handshake, `ServesOK` that
what the server delivers, with the request that is still to be sent, is what is
active, `WantedOK` that the active symbols are those of the messages applied so
far, and `OrderOK` that the quotes published, in hand, queued and projected follow
each other in the order of their numbers.

**`RecorderProofs`** proves `LedgerIntact`, `GapsMarked` and `ReportIsTrue` for any
number of recorders and captures, rows, faults and kills. The invariant says what
each writer knows of the file at each system call (`WritersOK`): while writers do
not overlap and no rollback failed, its head is the hash of the last line it has
seen and the bytes after the last newline are its own. `NumbersOK` does the same for
the last sequence number, `CaptureOK` for the rows that a capture counts. The attempt to prove `GapsMarked` showed that
an earlier form, which excluded failed writes only, was false: with two writers
open on one file the rollback of one removes a row of the other, whose next row is
then marked by a number that is no longer in the file. TLC finds that with four
rows; the property now says that writers must not overlap.

**Only model-checked.** Liveness under fairness is out of the prover's reach:
`PendingSettles`, `QuotesPublished`, `UpstreamFollowsDemand`, `EventuallyCurrent`,
`RestoredOrUnanswerable`, `CallsEnd`, `EntriesSettle`. Every other property of the
passing runs, safety invariant, action property or refinement, is proved, some under
the hypotheses of the table above.

## Plan

The components of the core are modelled, and every safety property of their runs is
proved, some under the hypotheses of the table above. What remains open are the two
hazards without a property: that `get_due` takes due symbols in sorted order, which
starves a symbol only under an unbounded supply of quotes, and the two round trips of
`record_usage`, whose result no modelled component reads.

## Not modelled

- Usage accounting is metering beside the delivery path; no modelled component
  reads what it writes. Its two round trips per record are listed as a hazard.
- The leases of connection slots: a slot of a connection that failed to release it
  is freed by the score in its sorted set. The models keep it taken.
- Rate limiting is one counter per window, authentication the check of a
  credential. The REST reads other than the history read one key each.
- The mock provider generates quotes for development; archive observability,
  metrics and logging only measure; configuration, benchmark and the scripts under
  `src/scripts/ci` carry no protocol state.
- The chart client is an application of its own in TypeScript.
- The retention policy that TimescaleDB may apply to the archive, and the
  base class `CandleArchiveSink.run`, which no service starts (`docker-compose.yml`
  starts the recovering worker).
