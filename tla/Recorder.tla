------------------------------- MODULE Recorder -------------------------------
(***************************************************************************)
(* The market evidence ledger: one JSONL file, appended to by WebSocket    *)
(* recorders (recorder.py) and by direct captures of a provider            *)
(* (research_capture.py), through AtomicJsonlWriter. Nothing locks the     *)
(* file, a write may stop halfway, its rollback may fail, and a process    *)
(* may be killed anywhere.                                                 *)
(*                                                                         *)
(* Hashes do not collide: the hash of a row is the sequence of the         *)
(* contents of the rows up to it. The recorded symbols are independent in  *)
(* everything but the file, so there is one.                               *)
(***************************************************************************)
EXTENDS Integers, Sequences, FiniteSets, Functions

CONSTANTS
  Recorders,      \* processes that record the gateway's WebSocket
  Captures,       \* processes that capture a provider
  Damaged,        \* a line that is no record
  Lost,           \* bytes of a process that will not complete their line
  NoSequence,     \* quote.sequence is None
  MaxSequence,    \* bound: sequence numbers
  MaxReconnects,  \* max_reconnects
  MaxRecords,     \* max_records
  MaxRows,        \* bound: rows the processes attempt to write
  MaxFaults       \* bound: failed calls and killed processes

\* The records of the ledger; a hash covers the contents of the rows up to it.
Hashes == Seq(Nat \X Nat \X (Nat \cup {NoSequence}) \X Int)
LedgerRow == [index : Nat, previous : Hashes, source : {"websocket", "provider_direct"},
              session : Nat, sequence : Nat \cup {NoSequence}, gap : Int, hash : Hashes]

ASSUME RecorderAssumption ==
  /\ Recorders \cap Captures = {} /\ Lost \notin Recorders \cup Captures
  /\ Damaged \notin LedgerRow
  /\ NoSequence \notin Nat /\ MaxSequence \in Nat /\ MaxReconnects \in Nat
  /\ MaxRecords \in Nat \ {0} /\ MaxRows \in Nat /\ MaxFaults \in Nat

Processes == Recorders \cup Captures

VARIABLES
  lines,      \* complete lines of the file
  tail,       \* whose bytes follow the last newline
  process,    \* each process: its stage, its writer and its counters
  sessions,   \* number of writers opened so far
  completed,  \* history: rows whose write returned
  failed,     \* history: sessions with a failed write
  overlap,    \* history: two writers have been open at once
  stuck,      \* history: a rollback has failed
  rows,       \* rows attempted so far
  faults

history == <<completed, failed, overlap, stuck>>
vars == <<lines, tail, process, sessions, history, rows, faults>>

Genesis == <<>>

Closed ==
  [stage |-> "closed", session |-> 0, index |-> 0, head |-> Genesis, last |-> NoSequence,
   attempt |-> 0, written |-> 0, before |-> 0, row |-> Damaged,
   size |-> [lines |-> 0, tail |-> {}]]

Init ==
  /\ lines = <<>> /\ tail = {}
  /\ process = [p \in Processes |-> Closed]
  /\ sessions = 0 /\ completed = {} /\ failed = {} /\ overlap = FALSE /\ stuck = FALSE
  /\ rows = 0 /\ faults = 0

Fault == faults < MaxFaults /\ faults' = faults + 1

-----------------------------------------------------------------------------
(* The ledger *)

\* compute_record_hash
Hash(row) == Append(row.previous, <<row.index, row.session, row.sequence, row.gap>>)

HeadHash(ls) == IF ls = <<>> THEN Genesis ELSE ls[Len(ls)].hash

\* The loop of verify_jsonl_ledger: index, link and hash of every line.
Chained(ls) ==
  /\ Damaged \notin Range(ls)
  /\ \A i \in DOMAIN ls :
       /\ ls[i].index = i - 1
       /\ ls[i].previous = HeadHash(SubSeq(ls, 1, i - 1))
       /\ ls[i].hash = Hash(ls[i])

\* verify_jsonl_ledger does not raise.
Verified == tail = {} /\ Chained(lines)

-----------------------------------------------------------------------------
(* AtomicJsonlWriter *)

Done == {"closed", "failed", "finished", "reported"}

HasWriter(p) ==
  process[p].session > 0 /\ process[p].stage \notin Done \cup {"ending"}

\* Faulty variant: the chain starts again with every writer.
OpenWriterGenesis(p, stage) ==
  /\ Verified
  /\ sessions' = sessions + 1
  /\ process' = [process EXCEPT
                   ![p] = [Closed EXCEPT !.stage = stage, !.session = sessions + 1,
                                         !.index = Len(lines), !.head = Genesis,
                                         !.before = process[p].before]]
  /\ overlap' = (overlap \/ \E q \in Processes \ {p} : HasWriter(q))

\* __enter__: the chain is continued from the verified file.
OpenWriter(p, stage) ==
  /\ Verified
  /\ sessions' = sessions + 1
  /\ process' = [process EXCEPT
                   ![p] = [Closed EXCEPT !.stage = stage, !.session = sessions + 1,
                                         !.index = Len(lines), !.head = HeadHash(lines),
                                         !.before = process[p].before]]
  /\ overlap' = (overlap \/ \E q \in Processes \ {p} : HasWriter(q))

Row(p, sequence, gap) ==
  LET row == [index |-> process[p].index, previous |-> process[p].head,
              source |-> IF p \in Recorders THEN "websocket" ELSE "provider_direct",
              session |-> process[p].session, sequence |-> sequence, gap |-> gap,
              hash |-> Genesis]
  IN  [row EXCEPT !.hash = Hash(row)]

\* write begins: the record is built and the size of the file read.
BeginWrite(p, sequence, gap, last) ==
  /\ rows < MaxRows
  /\ rows' = rows + 1
  /\ process' = [process EXCEPT
                   ![p] = [@ EXCEPT !.stage = "writing", !.row = Row(p, sequence, gap),
                                    !.last = last,
                                    !.size = [lines |-> Len(lines), tail |-> tail]]]
  /\ UNCHANGED <<lines, tail, sessions, history, faults>>

\* os.write appends some of the bytes.
WritePart(p) ==
  /\ process[p].stage = "writing" /\ p \notin tail
  /\ tail' = tail \cup {p}
  /\ UNCHANGED <<lines, process, sessions, history, rows, faults>>

\* os.write appends the rest, with the newline; the line holds whatever else
\* was written since the last one.
WriteRest(p) ==
  /\ process[p].stage = "writing"
  /\ lines' = Append(lines, IF tail \subseteq {p} THEN process[p].row ELSE Damaged)
  /\ tail' = {}
  /\ process' = [process EXCEPT ![p].stage = "sync"]
  /\ UNCHANGED <<sessions, history, rows, faults>>

\* os.write or os.fsync raises.
WriteFails(p) ==
  /\ Fault
  /\ process[p].stage \in {"writing", "sync"}
  /\ process' = [process EXCEPT ![p].stage = "rollback"]
  /\ UNCHANGED <<lines, tail, sessions, history, rows>>

\* The exception leaves write. The recorder counts a dropped row and record_websocket
\* connects again; a capture is given up.
AfterRaise(p) ==
  LET attempt == process[p].attempt + 1
  IN  IF p \in Recorders
        THEN [process[p] EXCEPT !.stage = IF attempt > MaxReconnects THEN "failed"
                                                                    ELSE "connecting",
                                !.attempt = attempt]
        ELSE [process[p] EXCEPT !.stage = "failed"]

\* ftruncate to the size before the write; a file that another process has
\* made shorter is filled up.
Rollback(p) ==
  LET size == process[p].size
  IN  /\ process[p].stage = "rollback"
      /\ lines' = SubSeq(lines, 1, IF size.lines < Len(lines) THEN size.lines ELSE Len(lines))
      /\ tail' = IF Len(lines) < size.lines THEN {Lost} ELSE size.tail
      /\ process' = [process EXCEPT ![p] = AfterRaise(p)]
      /\ failed' = failed \cup {process[p].session}
      /\ UNCHANGED <<sessions, completed, overlap, stuck, rows, faults>>

\* The bytes of p are nobody's any more.
Orphaned(p) == IF p \in tail THEN (tail \ {p}) \cup {Lost} ELSE tail

\* ftruncate raises, and what was written stays.
RollbackFails(p) ==
  /\ Fault
  /\ process[p].stage = "rollback"
  /\ tail' = Orphaned(p)
  /\ process' = [process EXCEPT ![p] = AfterRaise(p)]
  /\ failed' = failed \cup {process[p].session}
  /\ stuck' = TRUE
  /\ UNCHANGED <<lines, sessions, completed, overlap, rows>>

\* write returns. A recorder stops at max_records.
Commit(p) ==
  LET written == process[p].written + 1
  IN  /\ process[p].stage = "sync"
      /\ completed' = completed \cup {process[p].row}
      /\ process' = [process EXCEPT
           ![p] = [@ EXCEPT !.index = process[p].index + 1,
                            !.head = process[p].row.hash, !.written = written,
                            !.stage = IF written < MaxRecords THEN "consuming"
                                      ELSE IF p \in Recorders THEN "finished" ELSE "ending"]]
      /\ UNCHANGED <<lines, tail, sessions, failed, overlap, stuck, rows, faults>>

-----------------------------------------------------------------------------
(* QuoteMessageRecorder and record_websocket *)

\* A process starts and opens its writer, which refuses a file that does not
\* verify.
StartRecorder(r) ==
  /\ process[r].stage \in Done
  /\ OpenWriter(r, "connecting")
  /\ UNCHANGED <<lines, tail, completed, failed, stuck, rows, faults>>

Connect(r) ==
  /\ process[r].stage = "connecting"
  /\ process' = [process EXCEPT ![r].stage = "consuming", ![r].attempt = 0]
  /\ UNCHANGED <<lines, tail, sessions, history, rows, faults>>

\* The connection is refused, or it ends.
Disconnected(r) ==
  /\ Fault
  /\ process[r].stage \in {"connecting", "consuming"}
  /\ process' = [process EXCEPT ![r] = AfterRaise(r)]
  /\ UNCHANGED <<lines, tail, sessions, history, rows>>

\* Faulty variant: the gap is not counted across a missing number.
SequenceMetadataAny(r, sequence) == [gap |-> 0, last |-> sequence]

\* _sequence_metadata, for a quote that is not a duplicate
SequenceMetadata(r, sequence) ==
  LET last == process[r].last
  IN  IF sequence = NoSequence THEN [gap |-> 0, last |-> last]
      ELSE [gap |-> IF last = NoSequence THEN 0 ELSE sequence - last - 1,
            last |-> sequence]

Duplicate(r, sequence) ==
  NoSequence \notin {sequence, process[r].last} /\ sequence <= process[r].last

\* handle: a live quote or the snapshot after a reconnect. Messages that are
\* malformed, of another type or duplicates change nothing but counters.
Handle(r, sequence) ==
  /\ process[r].stage = "consuming"
  /\ ~Duplicate(r, sequence)
  /\ BeginWrite(r, sequence, SequenceMetadata(r, sequence).gap,
                SequenceMetadata(r, sequence).last)

-----------------------------------------------------------------------------
(* capture_provider_session *)

\* The file is verified, and the provider connects and subscribes ...
StartCapture(c) ==
  /\ process[c] = Closed
  /\ Verified
  /\ process' = [process EXCEPT ![c].stage = "connecting", ![c].before = Len(lines)]
  /\ UNCHANGED <<lines, tail, sessions, history, rows, faults>>

\* ... before the writer is opened.
OpenCapture(c) ==
  /\ process[c].stage = "connecting"
  /\ OpenWriter(c, "consuming")
  /\ UNCHANGED <<lines, tail, completed, failed, stuck, rows, faults>>

\* The provider fails, times out, or the file does not verify any more.
CaptureFails(c) ==
  /\ process[c].stage = "connecting"
  /\ IF Verified THEN Fault ELSE UNCHANGED faults
  /\ process' = [process EXCEPT ![c].stage = "failed"]
  /\ UNCHANGED <<lines, tail, sessions, history, rows>>

\* consume writes every event as it comes, and does not look at its number.
CaptureEvent(c) ==
  /\ process[c].stage = "consuming"
  /\ BeginWrite(c, NoSequence, 0, NoSequence)

\* max_seconds have passed or the stream has ended: the writer is closed.
CaptureEnds(c) ==
  /\ process[c].stage = "consuming"
  /\ process' = [process EXCEPT ![c].stage = "ending"]
  /\ UNCHANGED <<lines, tail, sessions, history, rows, faults>>

\* Faulty variant: the number of records is not compared.
ReportVerified(c) ==
  /\ process[c].stage = "ending"
  /\ process' = [process EXCEPT ![c].stage = IF process[c].written > 0 /\ Verified
                                               THEN "reported" ELSE "failed"]
  /\ UNCHANGED <<lines, tail, sessions, history, rows, faults>>

\* The provider is disconnected, the file verified and its records counted.
Report(c) ==
  /\ process[c].stage = "ending"
  /\ process' = [process EXCEPT
       ![c].stage = IF /\ process[c].written > 0 /\ Verified
                       /\ Len(lines) = process[c].before + process[c].written
                      THEN "reported" ELSE "failed"]
  /\ UNCHANGED <<lines, tail, sessions, history, rows, faults>>

-----------------------------------------------------------------------------
\* A process is killed and may be started again.
Killed(p) ==
  /\ Fault
  /\ process[p].stage \notin Done
  /\ process' = [process EXCEPT ![p] = Closed]
  /\ tail' = Orphaned(p)
  /\ UNCHANGED <<lines, sessions, history, rows>>

Write(p) ==
  WritePart(p) \/ WriteRest(p) \/ WriteFails(p) \/ Rollback(p) \/ RollbackFails(p) \/ Commit(p)

Next ==
  \/ \E p \in Processes : Write(p) \/ Killed(p)
  \/ \E r \in Recorders :
       \/ StartRecorder(r) \/ Connect(r) \/ Disconnected(r)
       \/ \E s \in 1..MaxSequence \cup {NoSequence} : Handle(r, s)
  \/ \E c \in Captures :
       \/ StartCapture(c) \/ OpenCapture(c) \/ CaptureFails(c)
       \/ CaptureEvent(c) \/ CaptureEnds(c) \/ Report(c)

Spec == Init /\ [][Next]_vars

-----------------------------------------------------------------------------
(* Properties *)

\* Line i is a recorder's row with a number.
Numbered(i) ==
  lines[i] # Damaged /\ lines[i].sequence # NoSequence /\ lines[i].source = "websocket"

\* Lines i and j are successive numbered rows of one recorder's session.
Successive(i, j) ==
  /\ Numbered(i) /\ Numbered(j) /\ i < j
  /\ lines[i].session = lines[j].session
  /\ \A k \in i+1 .. j-1 : ~(Numbered(k) /\ lines[k].session = lines[i].session)

\* Completed rows are kept and every line is linked to the one before it,
\* through partial writes, rollbacks, reconnects, kills and restarts, as long as
\* no two writers are open at once and no rollback fails: a kill leaves at most
\* an incomplete last line (AtomicJsonlWriter).
LedgerIntact ==
  ~overlap /\ ~stuck => Chained(lines) /\ completed \subseteq Range(lines)

\* Within a recorder's session the recorded numbers increase, whatever other
\* processes do to the file in between, and the gap of a row is exactly what is
\* missing since the session's row before it unless one of its writes has failed
\* or two writers were open at once (_sequence_metadata).
GapsMarked ==
  \A i, j \in DOMAIN lines : Successive(i, j) =>
    /\ lines[i].sequence < lines[j].sequence
    /\ ~overlap /\ lines[i].session \notin failed
         => lines[j].gap = lines[j].sequence - lines[i].sequence - 1

\* A capture that reports a verified ledger is telling the truth: the rows since
\* it began are its own, whatever is appended before its writer is open and after
\* it is closed, unless two writers were open at once or a row that was counted
\* at the beginning has been rolled back (capture_provider_session).
ReportIsTrue ==
  \A c \in Captures : process[c].stage = "reported" /\ ~overlap /\ failed = {} =>
    \A i \in 1..process[c].written :
      lines[process[c].before + i].session = process[c].session
=============================================================================
