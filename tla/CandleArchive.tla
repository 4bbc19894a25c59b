---------------------------- MODULE CandleArchive ----------------------------
(***************************************************************************)
(* The durable candle archive: the workers of RecoveringCandleArchiveSink  *)
(* (candle_archive_worker.py) read the quote stream in a consumer group of *)
(* their own and merge each quote into a one-minute row of PostgreSQL with *)
(* one statement (_UPSERT_EVENT, candle_archive.py).                       *)
(*                                                                         *)
(* Stream entries are numbered in the order of their ids. One symbol.      *)
(***************************************************************************)
EXTENDS Integers, Sequences, FiniteSetsExt, Functions

CONSTANTS
  Events,        \* quotes
  Time,          \* Time[e]: provider_timestamp, in ticks
  Id,            \* Id[e]: rank of event_id
  Price,         \* Price[e]
  MinuteTicks,   \* ticks of a minute
  Malformed,     \* a payload that is not a quote
  NoRow,         \* the minute has no row
  Workers,
  BatchCount,    \* entries of a batch (200)
  RetryLimit,    \* settings.retry_limit
  StreamMaxLen,  \* settings.stream_maxlen
  MaxEntries,    \* bound: entries of the stream
  MaxFaults      \* bound: failed calls and killed workers

ASSUME ArchiveAssumption ==
  /\ IsFiniteSet(Events) /\ Malformed \notin Events
  /\ Time \in [Events -> Nat] /\ Price \in [Events -> Nat]
  /\ Id \in [Events -> 1..Cardinality(Events)]
  /\ \A e, f \in Events : Id[e] = Id[f] => e = f
  /\ MinuteTicks \in Nat \ {0} /\ BatchCount \in Nat \ {0}
  /\ RetryLimit \in Nat \ {0} /\ StreamMaxLen \in Nat \ {0}
  /\ MaxEntries \in Nat /\ MaxFaults \in Nat

\* The columns of a row of candle_archive_1m.
Row == [open : Nat, high : Nat, low : Nat, close : Nat, activity_count : Nat,
        first_time : Nat, last_time : Nat, first_id : Nat, last_id : Nat]

VARIABLES
  stream,     \* entries appended to the quote stream
  trimmed,    \* entries 1..trimmed were removed by MAXLEN
  delivered,  \* last entry that the group has delivered
  pending,    \* entries delivered and not acknowledged
  retries,    \* retry counters of the entries
  worker,     \* stage, batch and claim cursor of each worker
  recorded,   \* candle_archive_events
  rows,       \* candle_archive_1m
  acked,      \* history: acknowledged entries
  dead,       \* entries in the dead-letter stream
  faults

streamVars == <<stream, trimmed>>
groupVars == <<delivered, pending, acked>>
tableVars == <<recorded, rows>>
archiveVars == <<streamVars, groupVars, retries, worker, tableVars, dead, faults>>

\* floor_time
FloorTime(t, interval) == t - (t % interval)
Minute(e) == FloorTime(Time[e], MinuteTicks)
Minutes == {Minute(e) : e \in Events}

\* A batch is a set of entries, handled in their order: claimed entries were
\* delivered before new ones.
Idle == [stage |-> "claim", batch |-> {}, cursor |-> 0]

ArchiveInit ==
  /\ stream = <<>> /\ trimmed = 0
  /\ delivered = 0 /\ pending = {} /\ acked = {} /\ dead = {}
  /\ retries = [i \in 1..MaxEntries |-> 0]
  /\ worker = [w \in Workers |-> Idle]
  /\ recorded = {}
  /\ rows = [m \in Minutes |-> NoRow]
  /\ faults = 0

-----------------------------------------------------------------------------
(* The statement *)

Greatest(a, b) == IF a < b THEN b ELSE a
Least(a, b) == IF a < b THEN a ELSE b

\* Row comparison (t, i) < (u, j)
Precedes(t, i, u, j) == t < u \/ (t = u /\ i < j)

\* The row to insert.
Excluded(e) ==
  [open |-> Price[e], high |-> Price[e], low |-> Price[e], close |-> Price[e],
   activity_count |-> 1,
   first_time |-> Time[e], last_time |-> Time[e], first_id |-> Id[e], last_id |-> Id[e]]

\* Faulty variant: equal timestamps are not told apart by the event id.
UpdatedByTime(r, x) ==
  LET opens  == x.first_time < r.first_time
      closes == x.last_time > r.last_time
  IN  [open |-> IF opens THEN x.open ELSE r.open,
       high |-> Greatest(r.high, x.high),
       low |-> Least(r.low, x.low),
       close |-> IF closes THEN x.close ELSE r.close,
       activity_count |-> r.activity_count + 1,
       first_time |-> Least(r.first_time, x.first_time),
       last_time |-> Greatest(r.last_time, x.last_time),
       first_id |-> IF opens THEN x.first_id ELSE r.first_id,
       last_id |-> IF closes THEN x.last_id ELSE r.last_id]

\* DO UPDATE
Updated(r, x) ==
  LET opens  == Precedes(x.first_time, x.first_id, r.first_time, r.first_id)
      closes == Precedes(r.last_time, r.last_id, x.last_time, x.last_id)
  IN  [open |-> IF opens THEN x.open ELSE r.open,
       high |-> Greatest(r.high, x.high),
       low |-> Least(r.low, x.low),
       close |-> IF closes THEN x.close ELSE r.close,
       activity_count |-> r.activity_count + 1,
       first_time |-> Least(r.first_time, x.first_time),
       last_time |-> Greatest(r.last_time, x.last_time),
       first_id |-> IF opens THEN x.first_id ELSE r.first_id,
       last_id |-> IF closes THEN x.last_id ELSE r.last_id]

\* persist_event: the event id is recorded and the row changed in one
\* statement; a recorded event changes nothing.
PersistEvent(e) ==
  \/ e \in recorded /\ UNCHANGED tableVars
  \/ /\ e \notin recorded
     /\ recorded' = recorded \cup {e}
     /\ rows' = [rows EXCEPT ![Minute(e)] =
                   IF @ = NoRow THEN Excluded(e) ELSE Updated(@, Excluded(e))]

-----------------------------------------------------------------------------
(* The stream and the consumer group *)

\* The collector appends a quote, again perhaps, or something malformed; the
\* approximate MAXLEN removes any number of the entries in excess.
PublishQuote(entry) ==
  /\ Len(stream) < MaxEntries
  /\ stream' = Append(stream, entry)
  /\ trimmed' \in trimmed .. Greatest(trimmed, Len(stream) + 1 - StreamMaxLen)
  /\ UNCHANGED <<groupVars, retries, worker, tableVars, dead, faults>>

\* The first n elements of a set of entries.
FirstOf(entries, n) == {i \in entries : Cardinality({j \in entries : j <= i}) <= n}

\* XREADGROUP delivers the next entries, as many as the batch has room for.
New(w) == FirstOf({i \in 1..Len(stream) : i > delivered /\ i > trimmed},
                  BatchCount - Cardinality(worker[w].batch))
Deliver(new) ==
  /\ delivered' = Max(new \cup {delivered})
  /\ pending' = pending \cup new
  /\ UNCHANGED acked

\* XACK
Acknowledge(i) ==
  /\ pending' = pending \ {i}
  /\ acked' = acked \cup {i}
  /\ UNCHANGED delivered

-----------------------------------------------------------------------------
(* RecoveringCandleArchiveSink.run *)

Current(w) == Min(worker[w].batch)

\* Faulty variant: the scan does not start again from the beginning.
ClaimStaleOnce(w, idle) ==
  LET scanned == {i \in idle : i >= worker[w].cursor}
      claimed == FirstOf({i \in scanned : i > trimmed}, BatchCount)
  IN  /\ worker[w].stage = "claim"
      /\ pending' = pending \ {i \in scanned : i <= trimmed}
      /\ worker' = [worker EXCEPT
                      ![w] = [stage |-> "read", batch |-> claimed,
                              cursor |-> Max({@.cursor} \cup {i + 1 : i \in claimed})]]
      /\ UNCHANGED <<streamVars, delivered, acked, retries, tableVars, dead, faults>>

\* _claim_stale: XAUTOCLAIM of the entries that were idle long enough, from
\* the cursor on. It drops trimmed entries, and the cursor returns to the
\* beginning when the scan is complete.
ClaimStale(w, idle) ==
  LET scanned == {i \in idle : i >= worker[w].cursor}
      claimed == FirstOf({i \in scanned : i > trimmed}, BatchCount)
      rest    == {i \in pending : \A j \in claimed : i > j}
  IN  /\ worker[w].stage = "claim"
      /\ pending' = pending \ {i \in scanned : i <= trimmed}
      /\ worker' = [worker EXCEPT
                      ![w] = [stage |-> "read", batch |-> claimed,
                              cursor |-> IF Cardinality(claimed) < BatchCount \/ rest = {}
                                           THEN 0 ELSE Min(rest)]]
      /\ UNCHANGED <<streamVars, delivered, acked, retries, tableVars, dead, faults>>

ReadGroup(w) ==
  /\ worker[w].stage = "read"
  /\ Deliver(New(w))
  /\ worker' = [worker EXCEPT ![w].batch = @ \cup New(w),
                  ![w].stage = IF worker[w].batch \cup New(w) = {} THEN "claim"
                                                                  ELSE "persist"]
  /\ UNCHANGED <<streamVars, retries, tableVars, dead, faults>>

\* _persist of a quote
Persist(w) ==
  /\ worker[w].stage = "persist" /\ stream[Current(w)] # Malformed
  /\ PersistEvent(stream[Current(w)])
  /\ worker' = [worker EXCEPT ![w].stage = "ack"]
  /\ UNCHANGED <<streamVars, groupVars, retries, dead, faults>>

\* The exception abandons the batch; the entries stay pending.
Abandon(w) == [worker[w] EXCEPT !.stage = "claim", !.batch = {}]

\* _handle_invalid_message: the entry is counted, and until the limit the
\* exception is raised again.
CountInvalid(w) ==
  LET count == retries[Current(w)] + 1
  IN  /\ worker[w].stage = "persist" /\ stream[Current(w)] = Malformed
      /\ retries' = [retries EXCEPT ![Current(w)] = count]
      /\ worker' = [worker EXCEPT ![w] = IF count < RetryLimit THEN Abandon(w)
                                           ELSE [@ EXCEPT !.stage = "dead"]]
      /\ UNCHANGED <<streamVars, groupVars, tableVars, dead, faults>>

MoveToDeadLetter(w) ==
  /\ worker[w].stage = "dead"
  /\ dead' = dead \cup {Current(w)}
  /\ worker' = [worker EXCEPT ![w].stage = "ack"]
  /\ UNCHANGED <<streamVars, groupVars, retries, tableVars, faults>>

Ack(w) ==
  /\ worker[w].stage = "ack"
  /\ Acknowledge(Current(w))
  /\ worker' = [worker EXCEPT ![w].batch = @ \ {Current(w)},
                  ![w].stage = IF worker[w].batch = {Current(w)} THEN "claim" ELSE "persist"]
  /\ UNCHANGED <<streamVars, retries, tableVars, dead, faults>>

\* Faulty variant: a failed statement counts towards the dead letter.
FailsAcknowledged(w) ==
  /\ faults < MaxFaults
  /\ faults' = faults + 1
  /\ worker[w].stage \in {"persist", "ack"}
  /\ worker' = [worker EXCEPT ![w] = Abandon(w)]
  /\ Acknowledge(Current(w))
  /\ UNCHANGED <<streamVars, retries, tableVars, dead>>

\* A call raises, or the worker is killed and started again; the call may
\* have taken effect.
Fails(w) ==
  /\ faults < MaxFaults
  /\ faults' = faults + 1
  /\ worker[w].stage # "claim"
  /\ worker' \in {[worker EXCEPT ![w] = Abandon(w)], [worker EXCEPT ![w] = Idle]}
  /\ \/ UNCHANGED <<groupVars, tableVars>>
     \/ worker[w].stage = "read" /\ Deliver(New(w)) /\ UNCHANGED tableVars
     \/ /\ worker[w].stage = "persist" /\ stream[Current(w)] # Malformed
        /\ PersistEvent(stream[Current(w)])
        /\ UNCHANGED groupVars
     \/ /\ worker[w].stage = "ack"
        /\ Acknowledge(Current(w))
        /\ UNCHANGED tableVars
  /\ UNCHANGED <<streamVars, retries, dead>>

-----------------------------------------------------------------------------
Process(w) ==
  \/ ReadGroup(w) \/ Persist(w) \/ CountInvalid(w) \/ MoveToDeadLetter(w) \/ Ack(w)

ArchiveNext ==
  \/ \E w \in Workers :
       \/ \E idle \in SUBSET pending : ClaimStale(w, idle)
       \/ Process(w) \/ Fails(w)

-----------------------------------------------------------------------------
(* Properties *)

\* The archive implements the canonical candle: with the recorded events as
\* the merged ones, the rows change exactly as by atomic merges of every event
\* once, whatever is delivered again, claimed by two workers or committed
\* without an acknowledgement (_UPSERT_EVENT against BaseMinuteCandle).
EventWith(t, i) == CHOOSE e \in Events : Time[e] = t /\ Id[e] = i
NoCandle == NoRow
CandleOf(r) ==
  IF r = NoRow THEN NoCandle
  ELSE [open |-> r.open, high |-> r.high, low |-> r.low, close |-> r.close,
        activity |-> r.activity_count,
        first |-> EventWith(r.first_time, r.first_id),
        last |-> EventWith(r.last_time, r.last_id)]
Canonical == INSTANCE CandleMerge WITH
  Bucket <- [e \in Events |-> Minute(e)],
  Key <- [e \in Events |-> Time[e] * (Cardinality(Events) + 1) + Id[e]],
  candle <- [m \in Minutes |-> CandleOf(rows[m])],
  merged <- recorded
ArchiveMerges == Canonical!Spec

\* A missing row is neither a row nor a candle.
ASSUME NoRowAssumption == NoRow \notin Row /\ NoRow \notin Canonical!Candles

\* Entry i is archived, or it is malformed and was dead-lettered after
\* RetryLimit attempts.
Settled(i) == IF stream[i] = Malformed THEN i \in dead /\ retries[i] >= RetryLimit
                                       ELSE stream[i] \in recorded

\* Nothing is lost to a database outage: every acknowledged entry is settled
\* (RecoveringCandleArchiveSink._persist).
AckedIsArchived == \A i \in acked : Settled(i)
=============================================================================
