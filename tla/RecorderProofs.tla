---------------------------- MODULE RecorderProofs ----------------------------
(***************************************************************************)
(* Proofs of the market evidence ledger, for any number of recorders and   *)
(* captures, rows, reconnects, failures and kills.                         *)
(***************************************************************************)
EXTENDS Recorder, SequenceTheorems, TLAPS

-----------------------------------------------------------------------------
(* The inductive invariant *)

Numbers == Nat \cup {NoSequence}
Lines == LedgerRow \cup {Damaged}
Owners == SUBSET (Processes \cup {Lost})
Writing == {"writing", "sync", "rollback"}
Stages == Done \cup Writing \cup {"connecting", "consuming", "ending"}
ProcessRecord ==
  [stage : Stages, session : Nat, index : Nat, head : Hashes, last : Numbers,
   attempt : Nat, written : Nat, before : Nat, row : Lines,
   size : [lines : Nat, tail : Owners]]

TypeOK ==
  /\ lines \in Seq(Lines) /\ tail \in Owners
  /\ process \in [Processes -> ProcessRecord]
  /\ sessions \in Nat /\ overlap \in BOOLEAN /\ stuck \in BOOLEAN
  /\ rows \in Nat /\ faults \in Nat

\* Sessions are numbered by the writers that were opened, and belong to one
\* process each.
SessionsOK ==
  /\ \A p \in Processes :
       /\ process[p].session <= sessions
       /\ process[p].stage \in Writing \cup {"consuming", "ending"} => process[p].session > 0
       /\ p \in Recorders /\ process[p].stage = "connecting" => process[p].session > 0
       /\ \A q \in Processes : process[p].session = process[q].session /\ p # q
            => process[p].session = 0
  /\ \A i \in DOMAIN lines : lines[i] # Damaged => lines[i].session <= sessions
  /\ stuck => failed # {}

\* Only one writer is open as long as two never were.
SingleWriter ==
  ~overlap => \A p, q \in Processes : HasWriter(p) /\ HasWriter(q) => p = q

\* The hash of the first k lines.
HeadOf(ls, k) == IF k = 0 THEN Genesis ELSE ls[k].hash
HeadAt(k) == HeadOf(lines, k)

\* The record that a writer builds continues the chain that it has read.
RowOK(p) ==
  LET w == process[p]
  IN  /\ w.row \in LedgerRow
      /\ w.row.index = w.index /\ w.row.previous = w.head
      /\ w.row.hash = Hash(w.row) /\ w.row.session = w.session
      /\ w.row.sequence # NoSequence => w.row.sequence = w.last

\* What the only writer knows about the file: the row is not there, there in
\* part, or the last line.
Unwritten(p) == tail \subseteq {p} /\ Len(lines) = process[p].index
Written(p) ==
  /\ tail = {} /\ Len(lines) = process[p].index + 1
  /\ lines[process[p].index + 1] = process[p].row

WriterOK(p) ==
  LET w == process[p]
  IN  /\ w.head = HeadAt(w.index)
      /\ w.stage \in {"connecting", "consuming"} => tail = {} /\ Len(lines) = w.index
      /\ w.stage \in Writing => w.size = [lines |-> w.index, tail |-> {}]
      /\ w.stage = "writing" => Unwritten(p)
      /\ w.stage = "sync" => Written(p)
      /\ w.stage = "rollback" => Unwritten(p) \/ Written(p)

\* p is the only writer there was, and no rollback of its own has failed.
Alone(p) == ~overlap /\ HasWriter(p) /\ (stuck => process[p].session \notin failed)

WritersOK ==
  \A p \in Processes : /\ process[p].stage \in Writing => RowOK(p)
                       /\ Alone(p) => WriterOK(p)

\* The lines that a rollback of p would leave.
Kept(p) == {lines[i] : i \in 1..process[p].index}

CompletedOK ==
  ~overlap /\ ~stuck =>
    \A p \in Processes : HasWriter(p) /\ process[p].stage \in Writing => completed \subseteq Kept(p)

\* The last numbered row of p's session.
LastOf(p, i) ==
  /\ Numbered(i) /\ lines[i].session = process[p].session
  /\ \A k \in DOMAIN lines : k > i => ~(Numbered(k) /\ lines[k].session = process[p].session)

\* The numbers of a session do not exceed the last one that its recorder saw,
\* and the row that is being written continues them.
NumbersOK ==
  \A p \in Recorders :
    /\ \A i \in DOMAIN lines :
         HasWriter(p) /\ Numbered(i) /\ lines[i].session = process[p].session =>
           /\ process[p].last # NoSequence /\ lines[i].sequence <= process[p].last
           /\ process[p].stage = "writing" /\ process[p].row.sequence # NoSequence
                => lines[i].sequence < process[p].row.sequence
    /\ ~overlap /\ HasWriter(p) /\ process[p].session \notin failed /\ process[p].stage # "rollback" =>
         \A i \in DOMAIN lines : LastOf(p, i) =>
           IF process[p].stage = "writing" /\ process[p].row.sequence # NoSequence
             THEN process[p].row.gap = process[p].row.sequence - lines[i].sequence - 1
             ELSE lines[i].sequence = process[p].last

\* Only recorders number their rows.
SourceOK ==
  \A p \in Processes : process[p].stage \in Writing =>
    (p \in Recorders <=> process[p].row.source = "websocket")

\* What a capture has written is at the end of what its writer has seen, after
\* what was there when it began.
CaptureOK ==
  ~overlap /\ failed = {} => \A c \in Captures :
    LET w == process[c]
    IN  /\ w.stage \notin Done => w.before <= Len(lines)
        /\ w.session > 0 /\ (HasWriter(c) \/ w.stage = "ending") =>
             /\ w.before + w.written <= w.index /\ w.index <= Len(lines)
             /\ \A i \in 1..w.written : lines[w.index - w.written + i].session = w.session
        /\ w.stage = "reported" => w.before + w.written <= Len(lines)

RecorderInv ==
  /\ TypeOK /\ SessionsOK /\ SingleWriter /\ WritersOK
  /\ CompletedOK /\ LedgerIntact
  /\ SourceOK /\ NumbersOK /\ GapsMarked
  /\ CaptureOK /\ ReportIsTrue

-----------------------------------------------------------------------------
(* Lemmas about the file *)

\* Appending a line keeps those before it.
LEMMA LinesGrow ==
  ASSUME TypeOK, NEW x \in Lines, lines' = Append(lines, x)
  PROVE  /\ lines' \in Seq(Lines) /\ Len(lines) \in Nat /\ Len(lines') = Len(lines) + 1
         /\ DOMAIN lines = 1..Len(lines) /\ DOMAIN lines' = 1..Len(lines) + 1
         /\ \A i \in 1..Len(lines) : lines'[i] = lines[i]
         /\ lines'[Len(lines) + 1] = x
<1>1. lines \in Seq(Lines)
  BY DEF TypeOK
<1>2. QED
  BY <1>1

\* ftruncate keeps the lines before the cut.
LEMMA LinesCut ==
  ASSUME TypeOK, NEW n \in 0..Len(lines), lines' = SubSeq(lines, 1, n)
  PROVE  /\ lines' \in Seq(Lines) /\ Len(lines') = n
         /\ DOMAIN lines = 1..Len(lines) /\ DOMAIN lines' = 1..n
         /\ \A i \in 1..n : lines'[i] = lines[i]
<1>1. lines \in Seq(Lines)
  BY DEF TypeOK
<1>2. QED
  BY <1>1, SubSeqProperties

\* verify_jsonl_ledger, by position: the link of a line is the hash of the one
\* before it.
LEMMA ChainedByPosition ==
  ASSUME NEW ls \in Seq(Lines)
  PROVE  /\ HeadHash(ls) = HeadOf(ls, Len(ls))
         /\ Chained(ls) <=>
              \A i \in 1..Len(ls) :
                /\ ls[i] # Damaged /\ ls[i].index = i - 1
                /\ ls[i].previous = HeadOf(ls, i - 1) /\ ls[i].hash = Hash(ls[i])
<1>1. ls \in Seq(Lines) /\ Len(ls) \in Nat /\ DOMAIN ls = 1..Len(ls)
  OBVIOUS
<1>2. HeadHash(ls) = HeadOf(ls, Len(ls))
  BY <1>1, EmptySeq DEF HeadHash, HeadOf
<1>3. ASSUME NEW i \in 1..Len(ls)
      PROVE  HeadHash(SubSeq(ls, 1, i - 1)) = HeadOf(ls, i - 1)
  <2>1. /\ SubSeq(ls, 1, i - 1) \in Seq(Lines) /\ Len(SubSeq(ls, 1, i - 1)) = i - 1
        /\ \A j \in 1..i-1 : SubSeq(ls, 1, i - 1)[j] = ls[j]
    BY <1>1, SubSeqProperties
  <2>2. CASE i = 1
    <3>1. SubSeq(ls, 1, i - 1) = <<>>
      BY <2>1, <2>2, EmptySeq
    <3>2. QED
      BY <2>2, <3>1 DEF HeadHash, HeadOf
  <2>3. CASE i # 1
    <3>1. SubSeq(ls, 1, i - 1) # <<>> /\ i - 1 \in 1..i-1
      BY <1>1, <2>1, <2>3, EmptySeq
    <3>2. QED
      BY <1>1, <2>1, <2>3, <3>1 DEF HeadHash, HeadOf
  <2>4. QED
    BY <2>2, <2>3
<1>4. Damaged \notin Range(ls) <=> \A i \in 1..Len(ls) : ls[i] # Damaged
  BY <1>1 DEF Range
<1>5. QED
  BY <1>1, <1>2, <1>3, <1>4 DEF Chained

-----------------------------------------------------------------------------
(* What each step does to the processes *)

Only(p) == \A q \in Processes \ {p} : process'[q] = process[q]

\* All of the writer of p but the stage and the counter of the attempts.
SameWriter(p) ==
  /\ process'[p].session = process[p].session /\ process'[p].index = process[p].index
  /\ process'[p].head = process[p].head /\ process'[p].last = process[p].last
  /\ process'[p].row = process[p].row /\ process'[p].size = process[p].size
  /\ process'[p].written = process[p].written /\ process'[p].before = process[p].before

\* The record of a process with a new stage.
LEMMA StageRecord ==
  ASSUME NEW w \in ProcessRecord, NEW st \in Stages, NEW n \in Nat
  PROVE  /\ [w EXCEPT !.stage = st] \in ProcessRecord
         /\ [w EXCEPT !.stage = st, !.attempt = n] \in ProcessRecord
BY DEF ProcessRecord

\* The steps that move a process to its next stage change nothing else of it.
LEMMA StageEffect ==
  ASSUME TypeOK, NEW p \in Processes,
         \/ WriteRest(p) \/ WriteFails(p) \/ Rollback(p) \/ RollbackFails(p)
         \/ Connect(p) \/ Disconnected(p) \/ CaptureFails(p) \/ CaptureEnds(p) \/ Report(p)
  PROVE  /\ Only(p) /\ SameWriter(p)
         /\ process' \in [Processes -> ProcessRecord]
<1>0. process \in [Processes -> ProcessRecord] /\ process[p] \in ProcessRecord /\ process[p].attempt \in Nat
  BY DEF TypeOK, ProcessRecord
<1>1. ASSUME NEW st \in Stages, process' = [process EXCEPT ![p].stage = st]
      PROVE  Only(p) /\ SameWriter(p) /\ process' \in [Processes -> ProcessRecord]
  <2>1. process' = [process EXCEPT ![p] = [process[p] EXCEPT !.stage = st]]
    BY <1>1
  <2>2. process' \in [Processes -> ProcessRecord]
    BY <1>0, <2>1, StageRecord
  <2>3. QED
    BY <1>0, <2>1, <2>2 DEF Only, SameWriter, ProcessRecord
<1>2. ASSUME NEW st \in Stages, NEW n \in Nat,
             process' = [process EXCEPT ![p] = [process[p] EXCEPT !.stage = st, !.attempt = n]]
      PROVE  Only(p) /\ SameWriter(p) /\ process' \in [Processes -> ProcessRecord]
  <2>1. process' \in [Processes -> ProcessRecord]
    BY <1>0, <1>2, StageRecord
  <2>2. QED
    BY <1>0, <1>2, <2>1 DEF Only, SameWriter, ProcessRecord
<1> USE DEF Stages, Done, Writing
<1>3. CASE WriteRest(p)
  BY <1>1, <1>3 DEF WriteRest
<1>4. CASE WriteFails(p)
  BY <1>1, <1>4 DEF WriteFails
<1>5. CASE process' = [process EXCEPT ![p] = AfterRaise(p)]
  <2>1. CASE p \in Recorders
    <3>1. PICK st \in {"failed", "connecting"} :
            AfterRaise(p) = [process[p] EXCEPT !.stage = st, !.attempt = process[p].attempt + 1]
      BY <2>1 DEF AfterRaise
    <3>2. process[p].attempt + 1 \in Nat /\ st \in Stages
      BY <1>0
    <3>3. process' = [process EXCEPT ![p] = [process[p] EXCEPT !.stage = st, !.attempt = process[p].attempt + 1]]
      BY <1>5, <3>1
    <3>4. QED
      BY <1>2, <3>2, <3>3
  <2>2. CASE p \notin Recorders
    BY <1>1, <1>5, <2>2 DEF AfterRaise
  <2>3. QED
    BY <2>1, <2>2
<1>6. CASE Connect(p)
  <2>1. process' = [process EXCEPT ![p] = [process[p] EXCEPT !.stage = "consuming", !.attempt = 0]]
    BY <1>0, <1>6 DEF Connect
  <2>2. QED
    BY <1>2, <2>1
<1>7. CASE CaptureFails(p)
  BY <1>1, <1>7 DEF CaptureFails
<1>8. CASE CaptureEnds(p)
  BY <1>1, <1>8 DEF CaptureEnds
<1>9. CASE Report(p)
  <2>1. PICK st \in {"reported", "failed"} : process' = [process EXCEPT ![p].stage = st]
    BY <1>9 DEF Report
  <2>2. QED
    BY <1>1, <2>1
<1>10. QED
  BY <1>3, <1>4, <1>5, <1>6, <1>7, <1>8, <1>9 DEF Rollback, RollbackFails, Disconnected

\* A row continues the chain of its writer.
LEMMA RowType ==
  ASSUME TypeOK, NEW p \in Processes, NEW sequence \in Numbers, NEW gap \in Int
  PROVE  /\ Row(p, sequence, gap) \in LedgerRow
         /\ Row(p, sequence, gap).index = process[p].index
         /\ Row(p, sequence, gap).previous = process[p].head
         /\ Row(p, sequence, gap).session = process[p].session
         /\ Row(p, sequence, gap).sequence = sequence
         /\ Row(p, sequence, gap).gap = gap
         /\ Row(p, sequence, gap).hash = Hash(Row(p, sequence, gap))
         /\ p \in Recorders <=> Row(p, sequence, gap).source = "websocket"
<1> DEFINE blank == [index |-> process[p].index, previous |-> process[p].head,
                     source |-> IF p \in Recorders THEN "websocket" ELSE "provider_direct",
                     session |-> process[p].session, sequence |-> sequence, gap |-> gap,
                     hash |-> Genesis]
<1>1. process[p].index \in Nat /\ process[p].session \in Nat /\ process[p].head \in Hashes
  BY DEF TypeOK, ProcessRecord
<1>2. Hash(blank) = Append(process[p].head, <<process[p].index, process[p].session, sequence, gap>>)
  BY DEF Hash
<1>3. Hash(blank) \in Hashes
  <2>1. <<process[p].index, process[p].session, sequence, gap>> \in Nat \X Nat \X (Nat \cup {NoSequence}) \X Int
    BY <1>1 DEF Numbers
  <2>2. \A S : \A h \in Seq(S), e \in S : Append(h, e) \in Seq(S)
    BY AppendProperties
  <2>3. Append(process[p].head, <<process[p].index, process[p].session, sequence, gap>>) \in Hashes
    BY <1>1, <2>1, <2>2, Zenon DEF Hashes
  <2>4. QED
    BY <1>2, <2>3
<1>4. Row(p, sequence, gap) = [index |-> process[p].index, previous |-> process[p].head,
                     source |-> IF p \in Recorders THEN "websocket" ELSE "provider_direct",
                     session |-> process[p].session, sequence |-> sequence, gap |-> gap,
                     hash |-> Hash(blank)]
  BY DEF Row
<1>5. Hash(Row(p, sequence, gap)) = Append(process[p].head, <<process[p].index, process[p].session, sequence, gap>>)
  BY <1>4 DEF Hash
<1> HIDE DEF blank
<1>6. Row(p, sequence, gap) \in LedgerRow
  BY <1>1, <1>3, <1>4 DEF LedgerRow, Numbers
<1>7. Row(p, sequence, gap).hash = Hash(Row(p, sequence, gap))
  <2>1. Row(p, sequence, gap).hash = Hash(blank)
    BY <1>4
  <2>2. QED
    BY <1>2, <1>5, <2>1
<1>8. QED
  BY <1>4, <1>6, <1>7

\* write builds the record of a quote and reads the size of the file.
LEMMA BeginWriteEffect ==
  ASSUME TypeOK, NEW p \in Processes, NEW sequence \in Numbers, NEW gap \in Int,
         NEW last \in Numbers, BeginWrite(p, sequence, gap, last)
  PROVE  /\ Only(p) /\ process' \in [Processes -> ProcessRecord]
         /\ process'[p].stage = "writing" /\ process'[p].last = last
         /\ process'[p].row = Row(p, sequence, gap)
         /\ process'[p].size = [lines |-> Len(lines), tail |-> tail]
         /\ process'[p].session = process[p].session /\ process'[p].index = process[p].index
         /\ process'[p].head = process[p].head /\ process'[p].written = process[p].written
         /\ process'[p].before = process[p].before
<1> DEFINE w == [process[p] EXCEPT !.stage = "writing", !.row = Row(p, sequence, gap), !.last = last,
                                   !.size = [lines |-> Len(lines), tail |-> tail]]
<1>1. process \in [Processes -> ProcessRecord] /\ process[p] \in ProcessRecord
  BY DEF TypeOK
<1>2. process' = [process EXCEPT ![p] = w]
  BY DEF BeginWrite
<1>3. [lines |-> Len(lines), tail |-> tail] \in [lines : Nat, tail : Owners]
  BY DEF TypeOK
<1>4. Row(p, sequence, gap) \in Lines
  BY RowType DEF Lines
<1>5. w \in ProcessRecord
  BY <1>1, <1>3, <1>4 DEF ProcessRecord, Stages, Writing
<1>6. QED
  BY <1>1, <1>2, <1>5 DEF Only, ProcessRecord

\* write returns: the writer advances.
LEMMA CommitEffect ==
  ASSUME TypeOK, NEW p \in Processes, Commit(p), process[p].row \in LedgerRow
  PROVE  /\ Only(p) /\ process' \in [Processes -> ProcessRecord]
         /\ process'[p].stage \in {"consuming", "finished", "ending"}
         /\ p \in Recorders => process'[p].stage # "ending"
         /\ process'[p].index = process[p].index + 1 /\ process'[p].head = process[p].row.hash
         /\ process'[p].written = process[p].written + 1
         /\ process'[p].session = process[p].session /\ process'[p].last = process[p].last
         /\ process'[p].before = process[p].before
<1>1. process \in [Processes -> ProcessRecord] /\ process[p] \in ProcessRecord
  BY DEF TypeOK
<1>2. PICK st \in {"consuming", "finished", "ending"} :
        st = IF process[p].written + 1 < MaxRecords THEN "consuming"
                                      ELSE IF p \in Recorders THEN "finished" ELSE "ending"
  OBVIOUS
<1> DEFINE w == [process[p] EXCEPT !.index = process[p].index + 1,
                         !.head = process[p].row.hash, !.written = process[p].written + 1, !.stage = st]
<1>3. process[p].row.hash \in Hashes /\ process[p].index + 1 \in Nat /\ process[p].written + 1 \in Nat
  BY <1>1 DEF LedgerRow, ProcessRecord
<1>4. w \in ProcessRecord
  BY <1>1, <1>3 DEF ProcessRecord, Stages, Done
<1>5. process' = [process EXCEPT ![p] = w]
  <2>1. process' = [process EXCEPT ![p] = [process[p] EXCEPT
                      !.index = process[p].index + 1, !.head = process[p].row.hash,
                      !.written = process[p].written + 1,
                      !.stage = IF process[p].written + 1 < MaxRecords THEN "consuming"
                                ELSE IF p \in Recorders THEN "finished" ELSE "ending"]]
    BY <1>1 DEF Commit
  <2>2. QED
    BY <1>2, <2>1
<1>6. QED
  BY <1>1, <1>2, <1>4, <1>5 DEF Only, ProcessRecord

\* __enter__ continues the chain of the verified file.
LEMMA OpenEffect ==
  ASSUME TypeOK, NEW p \in Processes, NEW stage \in {"connecting", "consuming"}, OpenWriter(p, stage)
  PROVE  /\ Only(p) /\ process' \in [Processes -> ProcessRecord]
         /\ process'[p].stage = stage /\ process'[p].session = sessions + 1
         /\ process'[p].index = Len(lines) /\ process'[p].head = HeadHash(lines)
         /\ process'[p].last = NoSequence /\ process'[p].written = 0
         /\ process'[p].before = process[p].before
<1>1. process \in [Processes -> ProcessRecord] /\ process[p] \in ProcessRecord
  BY DEF TypeOK
<1>2. Closed \in ProcessRecord
  <2>1. Genesis \in Hashes
    BY DEF Genesis, Hashes
  <2>2. [lines |-> 0, tail |-> {}] \in [lines : Nat, tail : Owners]
    BY DEF Owners
  <2>3. QED
    BY <2>1, <2>2 DEF Closed, ProcessRecord, Stages, Done, Lines, Numbers
<1> DEFINE w == [Closed EXCEPT !.stage = stage, !.session = sessions + 1,
                               !.index = Len(lines), !.head = HeadHash(lines),
                               !.before = process[p].before]
<1>3. HeadHash(lines) \in Hashes
  <2>1. CASE lines = <<>>
    BY <2>1 DEF HeadHash, Genesis, Hashes
  <2>2. CASE lines # <<>>
    <3>1. lines \in Seq(Lines) /\ Len(lines) \in DOMAIN lines
      BY <2>2 DEF TypeOK
    <3>2. lines[Len(lines)] # Damaged
      BY <3>1 DEF OpenWriter, Verified, Chained, Range
    <3>3. lines[Len(lines)] \in LedgerRow
      BY <3>1, <3>2 DEF Lines
    <3>4. QED
      BY <2>2, <3>3 DEF HeadHash, LedgerRow
  <2>3. QED
    BY <2>1, <2>2
<1>4. sessions + 1 \in Nat /\ Len(lines) \in Nat /\ process[p].before \in Nat
  BY <1>1 DEF TypeOK, ProcessRecord
<1>5. w \in ProcessRecord
  BY <1>2, <1>3, <1>4 DEF ProcessRecord, Stages, Writing
<1>6. process' = [process EXCEPT ![p] = w]
  BY DEF OpenWriter
<1>7. QED
  BY <1>1, <1>5, <1>6 DEF Only, Closed

\* A killed process is closed.
LEMMA KilledEffect ==
  ASSUME TypeOK, NEW p \in Processes, Killed(p)
  PROVE  /\ Only(p) /\ process' \in [Processes -> ProcessRecord]
         /\ process'[p].stage = "closed" /\ process'[p].session = 0
         /\ tail' \in Owners /\ tail' \in {tail, (tail \ {p}) \cup {Lost}}
<1>1. Closed \in ProcessRecord
  <2>1. Genesis \in Hashes
    BY DEF Genesis, Hashes
  <2>2. [lines |-> 0, tail |-> {}] \in [lines : Nat, tail : Owners]
    BY DEF Owners
  <2>3. QED
    BY <2>1, <2>2 DEF Closed, ProcessRecord, Stages, Done, Lines, Numbers
<1>2. QED
  BY <1>1 DEF Killed, Orphaned, TypeOK, Only, Closed, Owners

\* A capture remembers how many records there were.
LEMMA StartCaptureEffect ==
  ASSUME TypeOK, NEW p \in Processes, StartCapture(p)
  PROVE  /\ Only(p) /\ process' \in [Processes -> ProcessRecord]
         /\ process'[p].stage = "connecting" /\ process'[p].session = 0
         /\ process'[p].before = Len(lines)
<1>1. process \in [Processes -> ProcessRecord] /\ process[p] \in ProcessRecord /\ Len(lines) \in Nat
  BY DEF TypeOK
<1>2. process' = [process EXCEPT ![p] = [process[p] EXCEPT !.stage = "connecting", !.before = Len(lines)]]
  BY <1>1 DEF StartCapture
<1>3. [process[p] EXCEPT !.stage = "connecting", !.before = Len(lines)] \in ProcessRecord
  BY <1>1 DEF ProcessRecord, Stages
<1>4. process[p].session = 0
  BY DEF StartCapture, Closed
<1>5. QED
  BY <1>1, <1>2, <1>3, <1>4 DEF Only, ProcessRecord

-----------------------------------------------------------------------------
(* Steps that only move a process to its next stage *)

LedgerInv == SingleWriter /\ WritersOK /\ CompletedOK /\ LedgerIntact
GapInv == SourceOK /\ NumbersOK /\ GapsMarked
CaptureInv == CaptureOK /\ ReportIsTrue

\* WriteFails, Connect, Disconnected, CaptureFails, CaptureEnds and Report: the
\* file and the rest of the process stay.
Moves(p) ==
  /\ UNCHANGED <<lines, tail, sessions, history>>
  /\ \/ process[p].stage \in {"writing", "sync"} /\ process'[p].stage = "rollback"
     \/ /\ process[p].stage \in {"connecting", "consuming"} /\ p \in Recorders
        /\ process'[p].stage \in {"connecting", "consuming"}
     \/ process'[p].stage = "failed"
     \/ process[p].stage = "consuming" /\ process'[p].stage = "ending"
     \/ /\ process[p].stage = "ending" /\ process'[p].stage = "reported"
        /\ Len(lines) = process[p].before + process[p].written

\* No writer is opened by such a step.
LEMMA MovesOpensNone ==
  ASSUME NEW p \in Processes, Moves(p), Only(p), SameWriter(p)
  PROVE  /\ \A q \in Processes : HasWriter(q)' => HasWriter(q)
         /\ process'[p].stage \in {"failed", "ending", "reported"} => ~HasWriter(p)'
BY DEF Moves, Only, SameWriter, HasWriter, Done

\* Sessions stay numbered.
LEMMA MovesSessions ==
  ASSUME TypeOK, SessionsOK, NEW p \in Processes, Moves(p), Only(p), SameWriter(p)
  PROVE  SessionsOK'
<1>1. \A q \in Processes : process'[q].session = process[q].session
  BY DEF Only, SameWriter
<1>2. ASSUME NEW q \in Processes
      PROVE  /\ process'[q].stage \in Writing \cup {"consuming", "ending"} => process'[q].session > 0
             /\ q \in Recorders /\ process'[q].stage = "connecting" => process'[q].session > 0
  <2>1. CASE q # p
    BY <2>1 DEF Only, SessionsOK
  <2>2. CASE q = p
    BY <1>1, <2>2 DEF Moves, SessionsOK, Writing
  <2>3. QED
    BY <2>1, <2>2
<1>3. UNCHANGED <<lines, sessions, stuck, failed>>
  BY DEF Moves, history
<1>4. QED
  BY <1>1, <1>2, <1>3 DEF SessionsOK

\* The writers and the chain stay as they are.
LEMMA MovesLedger ==
  ASSUME TypeOK, TypeOK', SessionsOK, LedgerInv, NEW p \in Processes, Moves(p), Only(p), SameWriter(p)
  PROVE  LedgerInv'
<1>0. UNCHANGED <<lines, tail, sessions, completed, failed, overlap, stuck>>
  BY DEF Moves, history
<1>1. SingleWriter'
  BY <1>0, MovesOpensNone DEF SingleWriter, LedgerInv
<1>2. ASSUME NEW q \in Processes
      PROVE  /\ process'[q].stage \in Writing => RowOK(q)'
             /\ Alone(q)' => WriterOK(q)'
             /\ HasWriter(q)' /\ process'[q].stage \in Writing =>
                  HasWriter(q) /\ process[q].stage \in Writing /\ Kept(q)' = Kept(q)
  <2>0. /\ process[q].stage \in Writing => RowOK(q)
        /\ Alone(q) => WriterOK(q)
    BY DEF LedgerInv, WritersOK
  <2>1. CASE q # p
    <3>1. process'[q] = process[q]
      BY <2>1 DEF Only
    <3>2. QED
      BY <1>0, <2>0, <3>1 DEF RowOK, Alone, WriterOK, HasWriter, HeadAt, HeadOf, Unwritten, Written, Kept
  <2>2. CASE q = p
    <3>1. process'[p].stage \in Writing => process[p].stage \in Writing /\ RowOK(p)'
      <4>1. process'[p].stage \in Writing => process[p].stage \in Writing
        BY DEF Moves, Writing
      <4>2. RowOK(p) => RowOK(p)'
        BY DEF RowOK, SameWriter
      <4>3. QED
        BY <2>0, <2>2, <4>1, <4>2
    <3>2. Alone(p)' => Alone(p) /\ process'[p].stage \notin {"failed", "ending", "reported"}
      BY <1>0, MovesOpensNone DEF Alone, SameWriter
    <3>3. Unwritten(p)' <=> Unwritten(p)
      BY <1>0 DEF Unwritten, SameWriter
    <3>4. Written(p)' <=> Written(p)
      BY <1>0 DEF Written, SameWriter
    <3>5. Alone(p)' => WriterOK(p)'
      BY <1>0, <2>0, <2>2, <3>2, <3>3, <3>4 DEF WriterOK, SameWriter, HeadAt, HeadOf, Moves, Writing
    <3>6. Kept(p)' = Kept(p)
      BY <1>0 DEF Kept, SameWriter
    <3>7. QED
      BY <2>2, <3>1, <3>5, <3>6, MovesOpensNone
  <2>3. QED
    BY <2>1, <2>2
<1>3. WritersOK'
  BY <1>2 DEF WritersOK
<1>4. CompletedOK'
  BY <1>0, <1>2 DEF LedgerInv, CompletedOK
<1>5. LedgerIntact'
  BY <1>0 DEF LedgerInv, LedgerIntact
<1>6. QED
  BY <1>1, <1>3, <1>4, <1>5 DEF LedgerInv

\* The numbers stay as they are.
LEMMA MovesGaps ==
  ASSUME TypeOK, SessionsOK, GapInv, NEW p \in Processes, Moves(p), Only(p), SameWriter(p)
  PROVE  GapInv'
<1>0. UNCHANGED <<lines, tail, sessions, completed, failed, overlap, stuck>>
  BY DEF Moves, history
<1>1. GapsMarked'
  BY <1>0 DEF GapInv, GapsMarked, Successive, Numbered
<1>2. SourceOK'
  BY DEF GapInv, SourceOK, Only, SameWriter, Moves, Writing
<1>3. \A i \in DOMAIN lines : Numbered(i)' <=> Numbered(i)
  BY <1>0 DEF Numbered
<1>4. \A q \in Processes : process'[q].session = process[q].session /\ process'[q].last = process[q].last
                             /\ process'[q].row = process[q].row
  BY DEF Only, SameWriter
<1>5. \A q \in Recorders, i \in DOMAIN lines : LastOf(q, i)' <=> LastOf(q, i)
  BY <1>0, <1>3, <1>4 DEF LastOf, Processes
<1>6. \A q \in Processes : /\ process'[q].stage = "writing" => process[q].stage = "writing"
                           /\ process'[q].stage \notin {"rollback", "failed", "ending", "reported"} =>
                                (process[q].stage = "writing" <=> process'[q].stage = "writing")
                                  /\ (process[q].stage = "rollback" => process'[q].stage = "rollback")
  BY DEF Moves, Only
<1>7. \A q \in Processes : HasWriter(q)' => HasWriter(q) /\ process'[q].stage \notin {"failed", "ending", "reported"}
  BY MovesOpensNone DEF HasWriter, Done
<1>8. NumbersOK'
  BY <1>0, <1>3, <1>4, <1>5, <1>6, <1>7 DEF GapInv, NumbersOK, Processes
<1>9. QED
  BY <1>1, <1>2, <1>8 DEF GapInv

\* The captures stay as they are.
LEMMA MovesCaptures ==
  ASSUME TypeOK, TypeOK', SessionsOK, CaptureInv, NEW p \in Processes, Moves(p), Only(p), SameWriter(p)
  PROVE  CaptureInv'
<1>0. UNCHANGED <<lines, tail, sessions, completed, failed, overlap, stuck>>
  BY DEF Moves, history
<1>1. ASSUME NEW c \in Captures
      PROVE  /\ process'[c].session = process[c].session /\ process'[c].before = process[c].before
             /\ process'[c].written = process[c].written /\ process'[c].index = process[c].index
             /\ process'[c].stage \notin Done => process[c].stage \notin Done
             /\ process'[c].stage = "reported" =>
                  \/ process[c].stage = "reported"
                  \/ process[c].stage = "ending" /\ Len(lines) = process[c].before + process[c].written
             /\ HasWriter(c)' \/ process'[c].stage = "ending" =>
                  (process[c].session > 0 => HasWriter(c) \/ process[c].stage = "ending")
  <2>1. CASE c # p
    <3>1. process'[c] = process[c]
      BY <2>1 DEF Only, Processes
    <3>2. QED
      BY <3>1 DEF HasWriter
  <2>2. CASE c = p
    BY <2>2 DEF SameWriter, Moves, HasWriter, Done
  <2>3. QED
    BY <2>1, <2>2
<1>2. ASSUME ~overlap, failed = {}, NEW c \in Captures, process'[c].stage = "reported"
      PROVE  /\ process[c].before + process[c].written <= Len(lines)
             /\ \A i \in 1..process[c].written : lines[process[c].before + i].session = process[c].session
  <2>1. CASE process[c].stage = "reported"
    BY <1>2, <2>1 DEF CaptureInv, CaptureOK, ReportIsTrue
  <2>2. CASE process[c].stage = "ending" /\ Len(lines) = process[c].before + process[c].written
    <3>0. c \in Processes
      BY DEF Processes
    <3>1. process[c].session > 0
      BY <2>2, <3>0 DEF SessionsOK
    <3>2. /\ process[c].before + process[c].written <= process[c].index /\ process[c].index <= Len(lines)
          /\ \A i \in 1..process[c].written :
               lines[process[c].index - process[c].written + i].session = process[c].session
      BY <1>2, <2>2, <3>1 DEF CaptureInv, CaptureOK
    <3>3. process[c].before \in Nat /\ process[c].written \in Nat /\ process[c].index \in Nat
      BY <3>0 DEF TypeOK, ProcessRecord
    <3>4. process[c].index - process[c].written = process[c].before
      BY <2>2, <3>2, <3>3
    <3>5. QED
      BY <2>2, <3>2, <3>3, <3>4
  <2>3. QED
    BY <1>1, <1>2, <2>1, <2>2
<1>3. CaptureOK'
  BY <1>0, <1>1, <1>2 DEF CaptureInv, CaptureOK
<1>4. ReportIsTrue'
  BY <1>0, <1>1, <1>2 DEF CaptureInv, ReportIsTrue
<1>5. QED
  BY <1>3, <1>4 DEF CaptureInv

-----------------------------------------------------------------------------
(* The bytes reach the file *)

\* As long as two writers were never open at once, the process that writes is
\* the only writer.
LEMMA WriterIsAlone ==
  ASSUME TypeOK, SessionsOK, SingleWriter, NEW p \in Processes, process[p].stage \in Writing \cup {"consuming"}
  PROVE  /\ HasWriter(p)
         /\ ~overlap => \A q \in Processes : HasWriter(q) => q = p
         /\ ~overlap /\ ~stuck => Alone(p)
<1>1. HasWriter(p)
  BY DEF SessionsOK, HasWriter, Writing, Done
<1>2. QED
  BY <1>1 DEF SingleWriter, Alone

\* os.write leaves a part of the row.
LEMMA WritePartStep ==
  ASSUME RecorderInv, NEW p \in Processes, WritePart(p)
  PROVE  SessionsOK' /\ LedgerInv' /\ GapInv' /\ CaptureInv'
<1> USE DEF RecorderInv
<1>0. /\ process[p].stage = "writing" /\ tail' = tail \cup {p}
      /\ UNCHANGED <<lines, process, sessions, completed, failed, overlap, stuck>>
  BY DEF WritePart, history
<1>1. SessionsOK'
  BY <1>0 DEF SessionsOK
<1>2. \A q \in Processes : HasWriter(q)' <=> HasWriter(q)
  BY <1>0 DEF HasWriter
<1>3. SingleWriter' /\ CompletedOK' /\ LedgerIntact'
  BY <1>0, <1>2 DEF SingleWriter, CompletedOK, Kept, LedgerIntact
<1>4. ASSUME NEW q \in Processes
      PROVE  /\ process'[q].stage \in Writing => RowOK(q)'
             /\ Alone(q)' => WriterOK(q)'
  <2>1. process'[q].stage \in Writing => RowOK(q)'
    BY <1>0 DEF WritersOK, RowOK
  <2>2. ASSUME Alone(q)' PROVE WriterOK(q)'
    <3>1. Alone(q) /\ WriterOK(q) /\ q = p
      <4>1. Alone(q)
        BY <1>0, <1>2, <2>2 DEF Alone
      <4>2. QED
        BY <1>0, <4>1, WriterIsAlone DEF WritersOK, Alone, Writing
    <3>2. Unwritten(p)'
      BY <1>0, <3>1 DEF WriterOK, Unwritten
    <3>3. QED
      BY <1>0, <3>1, <3>2 DEF WriterOK, HeadAt, HeadOf, Writing
  <2>3. QED
    BY <2>1, <2>2
<1>5. GapInv'
  <2>1. \A i : Numbered(i)' <=> Numbered(i)
    BY <1>0 DEF Numbered
  <2>2. \A q, i : LastOf(q, i)' <=> LastOf(q, i)
    BY <1>0, <2>1 DEF LastOf
  <2>3. NumbersOK'
    BY <1>0, <1>2, <2>1, <2>2 DEF NumbersOK, Processes
  <2>4. GapsMarked' /\ SourceOK'
    BY <1>0, <2>1 DEF GapsMarked, Successive, SourceOK
  <2>5. QED
    BY <2>3, <2>4 DEF GapInv
<1>6. CaptureInv'
  BY <1>0, <1>2 DEF CaptureInv, CaptureOK, ReportIsTrue, Processes
<1>7. QED
  BY <1>1, <1>3, <1>4, <1>5, <1>6 DEF LedgerInv, WritersOK

\* os.write completes the line: it holds the row if nobody else has written.
LEMMA WriteRestStep ==
  ASSUME RecorderInv, TypeOK', NEW p \in Processes, WriteRest(p)
  PROVE  SessionsOK' /\ LedgerInv' /\ GapInv' /\ CaptureInv'
<1> USE DEF RecorderInv
<1>0. /\ process[p].stage = "writing" /\ tail' = {} /\ process'[p].stage = "sync"
      /\ UNCHANGED <<sessions, completed, failed, overlap, stuck>>
      /\ Only(p) /\ SameWriter(p)
  <2>1. process'[p].stage = "sync"
    BY DEF WriteRest, TypeOK, ProcessRecord
  <2>2. QED
    BY <2>1, StageEffect DEF WriteRest, history
<1>r. RowOK(p)
  BY <1>0 DEF WritersOK, Writing
<1>d. process[p].row \in LedgerRow /\ process[p].row # Damaged
  BY <1>r, RecorderAssumption DEF RowOK
<1>x. PICK x \in Lines : /\ lines' = Append(lines, x)
                         /\ x = IF tail \subseteq {p} THEN process[p].row ELSE Damaged
  BY <1>d DEF WriteRest, Lines
<1>l. /\ Len(lines) \in Nat /\ Len(lines') = Len(lines) + 1
      /\ DOMAIN lines = 1..Len(lines) /\ DOMAIN lines' = 1..Len(lines) + 1
      /\ \A i \in 1..Len(lines) : lines'[i] = lines[i]
      /\ lines'[Len(lines) + 1] = x
  BY <1>x, LinesGrow
<1>s. \A q \in Processes : process'[q].session = process[q].session
  BY <1>0 DEF Only, SameWriter
<1>w. /\ \A q \in Processes : HasWriter(q)' <=> HasWriter(q)
      /\ HasWriter(p)
      /\ ~overlap => \A q \in Processes : HasWriter(q) => q = p
      /\ ~overlap /\ ~stuck => Alone(p)
  <2>1. \A q \in Processes : HasWriter(q)' <=> HasWriter(q)
    BY <1>0, <1>s DEF Only, HasWriter, Done
  <2>2. QED
    BY <1>0, <2>1, WriterIsAlone DEF Writing
<1>a. Alone(p) => /\ x = process[p].row /\ Len(lines) = process[p].index
                  /\ process[p].head = HeadAt(process[p].index)
                  /\ process[p].size = [lines |-> process[p].index, tail |-> {}]
  BY <1>0, <1>x DEF WritersOK, WriterOK, Unwritten, Writing
<1>1. SessionsOK'
  <2>1. x # Damaged => x.session <= sessions
    BY <1>x, <1>r DEF RowOK, SessionsOK
  <2>2. \A i \in DOMAIN lines' : i \in DOMAIN lines \/ i = Len(lines) + 1
    BY <1>l
  <2>3. \A i \in DOMAIN lines' : lines'[i] # Damaged => lines'[i].session <= sessions'
    BY <1>0, <1>l, <2>1, <2>2 DEF SessionsOK
  <2>4. \A q \in Processes : q # p => process'[q] = process[q]
    BY <1>0 DEF Only
  <2>5. process[p].session > 0
    BY <1>0 DEF SessionsOK, Writing
  <2>6. QED
    BY <1>0, <1>s, <2>3, <2>4, <2>5 DEF SessionsOK
<1>2. LedgerInv'
  <2>1. SingleWriter'
    BY <1>0, <1>w DEF SingleWriter
  <2>2. ASSUME NEW q \in Processes PROVE process'[q].stage \in Writing => RowOK(q)'
    <3>1. CASE q = p
      BY <1>0, <1>r, <3>1 DEF RowOK, SameWriter
    <3>2. CASE q # p
      BY <1>0, <3>2 DEF RowOK, Only, WritersOK
    <3>3. QED
      BY <3>1, <3>2
  <2>3. ASSUME NEW q \in Processes, Alone(q)' PROVE WriterOK(q)'
    <3>1. Alone(p) /\ q = p
      BY <1>0, <1>s, <1>w, <2>3 DEF Alone
    <3>2. process[p].index \in Nat /\ (process[p].index # 0 => process[p].index \in 1..Len(lines))
      BY <1>a, <1>l, <3>1, SMTT(30) DEF TypeOK, ProcessRecord
    <3>3. HeadAt(process[p].index)' = HeadAt(process[p].index)
      BY <1>0, <1>l, <3>2 DEF HeadAt, HeadOf, SameWriter
    <3>4. Written(p)'
      BY <1>0, <1>a, <1>l, <3>1 DEF Written, SameWriter
    <3>5. QED
      BY <1>0, <1>a, <3>1, <3>3, <3>4 DEF WriterOK, SameWriter
  <2>4. CompletedOK'
    <3>1. ASSUME ~overlap, ~stuck PROVE completed \subseteq Kept(p)'
      <4>1. Alone(p)
        BY <1>w, <3>1
      <4>2. Kept(p)' = Kept(p)
        BY <1>0, <1>a, <1>l, <4>1 DEF Kept, SameWriter
      <4>3. QED
        BY <1>0, <1>w, <3>1, <4>2 DEF CompletedOK, Writing
    <3>2. QED
      BY <1>0, <1>w, <3>1 DEF CompletedOK
  <2>5. LedgerIntact'
    <3>1. SUFFICES ASSUME ~overlap, ~stuck PROVE Chained(lines') /\ completed \subseteq Range(lines')
      BY <1>0 DEF LedgerIntact
    <3>2. Alone(p)
      BY <1>w, <3>1
    <3>3. Chained(lines) /\ completed \subseteq Range(lines)
      BY <3>1 DEF LedgerIntact
    <3>4. \A k \in 0..Len(lines) : HeadAt(k)' = HeadAt(k)
      BY <1>l DEF HeadAt, HeadOf
    <3>5. ASSUME NEW i \in 1..Len(lines')
          PROVE  /\ lines'[i] # Damaged /\ lines'[i].index = i - 1
                 /\ lines'[i].previous = HeadAt(i - 1)' /\ lines'[i].hash = Hash(lines'[i])
      <4>1. i \in 1..Len(lines) \/ i = Len(lines) + 1
        BY <1>l
      <4>2. CASE i \in 1..Len(lines)
        <5>1. /\ lines[i] # Damaged /\ lines[i].index = i - 1
              /\ lines[i].previous = HeadAt(i - 1) /\ lines[i].hash = Hash(lines[i])
          BY <3>3, <4>2, ChainedByPosition DEF TypeOK, HeadAt
        <5>2. lines'[i] = lines[i] /\ HeadAt(i - 1)' = HeadAt(i - 1)
          BY <1>l, <3>4, <4>2
        <5>3. QED
          BY <5>1, <5>2
      <4>3. CASE i = Len(lines) + 1
        <5>1. lines'[i] = process[p].row /\ i - 1 = process[p].index
          BY <1>a, <1>l, <3>2, <4>3
        <5>2. HeadAt(i - 1)' = process[p].head
          BY <1>a, <1>l, <3>2, <3>4, <5>1
        <5>3. QED
          BY <1>d, <1>r, <5>1, <5>2 DEF RowOK
      <4>4. QED
        BY <4>1, <4>2, <4>3
    <3>6. Chained(lines')
      BY <3>5, ChainedByPosition DEF TypeOK, HeadAt
    <3>7. Range(lines) \subseteq Range(lines')
      BY <1>l DEF Range
    <3>8. QED
      BY <3>3, <3>6, <3>7
  <2>6. QED
    BY <2>1, <2>2, <2>3, <2>4, <2>5 DEF LedgerInv, WritersOK
<1>3. CaptureInv'
  <2>1. ASSUME NEW c \in Captures
        PROVE  /\ c \in Processes
               /\ process'[c].session = process[c].session /\ process'[c].before = process[c].before
               /\ process'[c].written = process[c].written /\ process'[c].index = process[c].index
               /\ process'[c].stage \notin Done => process[c].stage \notin Done
               /\ process'[c].stage = "reported" => process[c].stage = "reported"
               /\ process'[c].stage = "ending" => process[c].stage = "ending"
               /\ process[c].before \in Nat /\ process[c].written \in Nat /\ process[c].index \in Nat
    <3>1. c \in Processes
      BY DEF Processes
    <3>2. CASE c # p
      BY <1>0, <3>1, <3>2 DEF Only, TypeOK, ProcessRecord
    <3>3. CASE c = p
      BY <1>0, <3>1, <3>3 DEF SameWriter, TypeOK, ProcessRecord, Done
    <3>4. QED
      BY <3>2, <3>3
  <2>2. ASSUME ~overlap, failed = {}, NEW c \in Captures, process[c].session > 0,
               HasWriter(c) \/ process[c].stage = "ending"
        PROVE  /\ process[c].before + process[c].written <= process[c].index
               /\ process[c].index <= Len(lines')
               /\ \A i \in 1..process[c].written :
                    lines'[process[c].index - process[c].written + i].session = process[c].session
    <3>1. /\ process[c].before + process[c].written <= process[c].index
          /\ process[c].index <= Len(lines)
          /\ \A i \in 1..process[c].written :
               lines[process[c].index - process[c].written + i].session = process[c].session
      BY <2>2 DEF CaptureOK
    <3>2. \A i \in 1..process[c].written : process[c].index - process[c].written + i \in 1..Len(lines)
      BY <1>l, <2>1, <3>1
    <3>3. QED
      BY <1>l, <2>1, <3>1, <3>2
  <2>3. CaptureOK'
    <3>1. ASSUME ~overlap, failed = {}, NEW c \in Captures
          PROVE  /\ process'[c].stage \notin Done => process[c].before <= Len(lines')
                 /\ process'[c].stage = "reported" => process[c].before + process[c].written <= Len(lines')
      <4>1. /\ process'[c].stage \notin Done => process[c].before <= Len(lines)
            /\ process'[c].stage = "reported" => process[c].before + process[c].written <= Len(lines)
        BY <2>1, <3>1 DEF CaptureOK
      <4>2. QED
        BY <1>l, <2>1, <4>1
    <3>2. QED
      BY <1>0, <1>w, <2>1, <2>2, <3>1 DEF CaptureOK
  <2>4. ReportIsTrue'
    <3>1. SUFFICES ASSUME ~overlap, failed = {}, NEW c \in Captures, process'[c].stage = "reported",
                          NEW i \in 1..process[c].written
                   PROVE  lines'[process[c].before + i].session = process[c].session
      BY <1>0, <2>1 DEF ReportIsTrue
    <3>2. process[c].before + i \in 1..Len(lines)
      BY <1>l, <2>1, <3>1 DEF CaptureOK
    <3>3. QED
      BY <1>l, <2>1, <3>1, <3>2 DEF ReportIsTrue
  <2>5. QED
    BY <2>3, <2>4 DEF CaptureInv
<1>m. PICK m \in Nat : m = Len(lines) + 1
  BY <1>l
<1>4. GapInv'
  <2>1. SourceOK'
    BY <1>0 DEF SourceOK, Only, SameWriter, Writing
  <2>2. \A i \in 1..Len(lines) : Numbered(i)' <=> Numbered(i)
    BY <1>l, <1>m DEF Numbered
  <2>3. Numbered(m)' =>
          /\ p \in Recorders /\ x = process[p].row
          /\ lines'[m].session = process[p].session
          /\ lines'[m].sequence = process[p].row.sequence
          /\ process[p].row.sequence # NoSequence /\ process[p].row.sequence = process[p].last
    BY <1>0, <1>l, <1>m, <1>r, <1>x DEF Numbered, RowOK, SourceOK, Writing
  <2>4. \A i \in 1..m : i \in 1..Len(lines) \/ i = m
    BY <1>l, <1>m
  <2>n. process[p].row.sequence \in Numbers /\ process[p].last \in Numbers
    BY <1>d DEF LedgerRow, TypeOK, ProcessRecord, Numbers
  <2>5. GapsMarked'
    <3>1. SUFFICES ASSUME NEW i \in 1..m, NEW j \in 1..m, Successive(i, j)'
                   PROVE  /\ lines'[i].sequence < lines'[j].sequence
                          /\ ~overlap /\ lines'[i].session \notin failed
                               => lines'[j].gap = lines'[j].sequence - lines'[i].sequence - 1
      BY <1>0, <1>l, <1>m DEF GapsMarked
    <3>2. /\ Numbered(i)' /\ Numbered(j)' /\ i < j /\ i \in 1..Len(lines)
          /\ lines'[i].session = lines'[j].session
          /\ \A k \in i+1 .. j-1 : ~(Numbered(k)' /\ lines'[k].session = lines'[i].session)
      BY <1>l, <1>m, <3>1 DEF Successive
    <3>3. CASE j \in 1..Len(lines)
      <4>1. \A k \in i+1 .. j-1 : k \in 1..Len(lines)
        BY <1>l, <1>m, <3>2, <3>3
      <4>2. Successive(i, j)
        BY <1>l, <1>m, <2>2, <3>2, <3>3, <4>1 DEF Successive
      <4>3. QED
        BY <1>l, <1>m, <3>2, <3>3, <4>2 DEF GapsMarked
    <3>4. CASE j = m
      <4>1. Numbered(i) /\ lines[i].session = process[p].session /\ lines'[i] = lines[i]
        BY <1>l, <1>m, <2>2, <2>3, <3>2, <3>4
      <4>2. lines[i].sequence < process[p].row.sequence
        BY <1>0, <1>l, <1>m, <1>w, <2>3, <3>2, <3>4, <4>1 DEF NumbersOK
      <4>3. LastOf(p, i)
        <5>1. ASSUME NEW k \in DOMAIN lines, k > i, Numbered(k), lines[k].session = process[p].session
              PROVE  FALSE
          <6>1. k \in i+1 .. j-1 /\ k \in 1..Len(lines)
            BY <1>l, <1>m, <3>2, <3>4, <5>1
          <6>2. QED
            BY <1>l, <1>m, <2>2, <3>2, <4>1, <5>1, <6>1
        <5>2. QED
          BY <4>1, <5>1 DEF LastOf
      <4>4. ASSUME ~overlap, process[p].session \notin failed
            PROVE  process[p].row.gap = process[p].row.sequence - lines[i].sequence - 1
        BY <1>0, <1>l, <1>m, <1>w, <2>3, <3>2, <3>4, <4>3, <4>4 DEF NumbersOK
      <4>5. lines'[j] = process[p].row
        BY <1>l, <1>m, <2>3, <3>2, <3>4
      <4>6. QED
        BY <4>1, <4>2, <4>4, <4>5
    <3>5. QED
      BY <2>4, <3>3, <3>4
  <2>6. ASSUME NEW q \in Recorders, NEW i \in 1..m, HasWriter(q), Numbered(i)',
               lines'[i].session = process[q].session
        PROVE  process'[q].last # NoSequence /\ lines'[i].sequence <= process'[q].last
               /\ (process'[q].stage = "writing" /\ process'[q].row.sequence # NoSequence
                     => lines'[i].sequence < process'[q].row.sequence)
    <3>0. q \in Processes
      BY DEF Processes
    <3>1. CASE i \in 1..Len(lines)
      <4>1. /\ process[q].last # NoSequence /\ lines[i].sequence <= process[q].last
            /\ process[q].stage = "writing" /\ process[q].row.sequence # NoSequence
                 => lines[i].sequence < process[q].row.sequence
        BY <1>l, <1>m, <2>2, <2>6, <3>1 DEF NumbersOK
      <4>2. process'[q].last = process[q].last /\ process'[q].row = process[q].row
            /\ (process'[q].stage = "writing" => process[q].stage = "writing")
        BY <1>0, <3>0 DEF Only, SameWriter
      <4>3. QED
        BY <1>l, <1>m, <3>1, <4>1, <4>2
    <3>2. CASE i = m
      <4>1. process[q].session = process[p].session /\ process[p].session > 0
        BY <1>0, <2>3, <2>6, <3>2 DEF SessionsOK, Writing
      <4>2. q = p
        BY <3>0, <4>1 DEF SessionsOK
      <4>3. process[p].last \in Nat /\ lines'[i].sequence = process[p].last
        BY <2>3, <2>6, <2>n, <3>2 DEF Numbers
      <4>4. QED
        BY <1>0, <4>2, <4>3, RecorderAssumption DEF SameWriter
    <3>3. QED
      BY <2>4, <3>1, <3>2
  <2>7. ASSUME ~overlap, HasWriter(p), p \in Recorders, process[p].session \notin failed,
               NEW i \in 1..m, LastOf(p, i)'
        PROVE  lines'[i].sequence = process[p].last
    <3>1. Alone(p)
      BY <2>7 DEF Alone
    <3>2. /\ Numbered(i)' /\ lines'[i].session = process[p].session
          /\ \A k \in 1..m : k > i => ~(Numbered(k)' /\ lines'[k].session = process[p].session)
      BY <1>l, <1>m, <1>s, <2>7 DEF LastOf
    <3>3. CASE i = m
      BY <2>3, <3>2, <3>3
    <3>4. CASE i \in 1..Len(lines)
      <4>1. process[p].row.sequence = NoSequence
        <5>1. CASE Numbered(m)'
          BY <1>l, <1>m, <2>3, <3>2, <3>4, <5>1
        <5>2. CASE ~Numbered(m)'
          <6>1. lines'[m] = process[p].row
            BY <1>a, <1>l, <1>m, <3>1
          <6>2. process[p].row.source = "websocket"
            BY <1>0, <2>7 DEF SourceOK, Writing
          <6>3. QED
            BY <1>d, <5>2, <6>1, <6>2 DEF Numbered
        <5>3. QED
          BY <5>1, <5>2
      <4>2. LastOf(p, i)
        BY <1>l, <1>m, <2>2, <3>2, <3>4 DEF LastOf
      <4>3. lines[i].sequence = process[p].last
        BY <1>0, <1>l, <1>m, <2>7, <3>4, <4>1, <4>2 DEF NumbersOK
      <4>4. QED
        BY <1>l, <1>m, <3>4, <4>3
    <3>5. QED
      BY <2>4, <3>3, <3>4
  <2>8. NumbersOK'
    <3>1. \A q \in Recorders : q \in Processes
      BY DEF Processes
    <3>2. \A q \in Recorders : HasWriter(q)' /\ ~overlap => q = p
      BY <1>w, <3>1
    <3>3. ASSUME NEW q \in Recorders, ~overlap', HasWriter(q)', process'[q].session \notin failed'
          PROVE  q = p /\ process'[q].stage = "sync"
                 /\ \A i \in DOMAIN lines' : LastOf(q, i)' => lines'[i].sequence = process'[q].last
      BY <1>0, <1>l, <1>m, <1>s, <1>w, <2>7, <3>1, <3>2, <3>3 DEF SameWriter
    <3>4. \A q \in Recorders : process'[q].session = process[q].session
      BY <1>s, <3>1
    <3>5. QED
      BY <1>l, <1>m, <1>w, <2>6, <3>1, <3>3, <3>4 DEF NumbersOK
  <2>9. QED
    BY <2>1, <2>5, <2>8 DEF GapInv
<1>5. QED
  BY <1>1, <1>2, <1>3, <1>4

-----------------------------------------------------------------------------
(* The end of a write *)

\* A write that has failed: the file is cut back, or left as it is.
GivesUp(p) ==
  /\ process[p].stage = "rollback"
  /\ process'[p].stage \in {"connecting", "failed"}
  /\ process'[p].stage = "connecting" => p \in Recorders
  /\ failed' = failed \cup {process[p].session}
  /\ UNCHANGED <<sessions, completed, overlap>>
  /\ \E n \in 0..Len(lines) : lines' = SubSeq(lines, 1, n)
  /\ stuck => stuck'

\* Rollback and RollbackFails give the write up; a rollback of the only writer
\* leaves exactly what was there before.
LEMMA RollbackGivesUp ==
  ASSUME RecorderInv, NEW p \in Processes, Rollback(p) \/ RollbackFails(p)
  PROVE  /\ GivesUp(p)
         /\ stuck' \/ (Alone(p) => tail' = {} /\ lines' = SubSeq(lines, 1, process[p].index))
<1> USE DEF RecorderInv
<1>1. process'[p] = AfterRaise(p)
  BY DEF Rollback, RollbackFails, TypeOK
<1>2. /\ process'[p].stage \in {"connecting", "failed"}
      /\ process'[p].stage = "connecting" => p \in Recorders
  <2>1. process[p] \in ProcessRecord
    BY DEF TypeOK
  <2>2. QED
    BY <1>1, <2>1 DEF AfterRaise, ProcessRecord
<1>3. process[p].stage = "rollback" /\ failed' = failed \cup {process[p].session}
      /\ UNCHANGED <<sessions, completed, overlap>> /\ (stuck => stuck')
  BY DEF Rollback, RollbackFails, history
<1>4. lines \in Seq(Lines) /\ Len(lines) \in Nat /\ process[p].size.lines \in Nat
  BY DEF TypeOK, ProcessRecord
<1>5. CASE Rollback(p)
  <2>1. PICK n \in 0..Len(lines) : n = IF process[p].size.lines < Len(lines) THEN process[p].size.lines ELSE Len(lines)
    BY <1>4
  <2>2. lines' = SubSeq(lines, 1, n)
    BY <1>5, <2>1 DEF Rollback
  <2>3. ASSUME Alone(p) PROVE tail' = {} /\ n = process[p].index
    <3>1. WriterOK(p)
      BY <2>3 DEF WritersOK
    <3>2. /\ process[p].size = [lines |-> process[p].index, tail |-> {}]
          /\ Unwritten(p) \/ Written(p)
      BY <1>3, <3>1 DEF WriterOK, Writing
    <3>3. /\ process[p].size.lines = process[p].index /\ process[p].size.tail = {}
          /\ Len(lines) = process[p].index \/ Len(lines) = process[p].index + 1
      BY <3>2 DEF Unwritten, Written
    <3>4. QED
      BY <1>4, <1>5, <2>1, <3>3 DEF Rollback
  <2>4. QED
    BY <1>2, <1>3, <2>2, <2>3 DEF GivesUp
<1>6. CASE RollbackFails(p)
  <2>1. lines' = SubSeq(lines, 1, Len(lines)) /\ Len(lines) \in 0..Len(lines)
    <3>1. lines' = lines
      BY <1>6 DEF RollbackFails
    <3>2. SubSeq(lines, 1, Len(lines)) = lines
      BY <1>4
    <3>3. QED
      BY <1>4, <3>1, <3>2
  <2>2. QED
    BY <1>2, <1>3, <1>6, <2>1 DEF GivesUp, RollbackFails
<1>7. QED
  BY <1>5, <1>6

\* What a write that is given up leaves of the ledger.
LEMMA RollbackStep ==
  ASSUME RecorderInv, TypeOK', NEW p \in Processes, Rollback(p) \/ RollbackFails(p)
  PROVE  SessionsOK' /\ LedgerInv' /\ GapInv' /\ CaptureInv'
<1> USE DEF RecorderInv
<1>0. GivesUp(p) /\ Only(p) /\ SameWriter(p)
  BY RollbackGivesUp, StageEffect
<1>n. PICK n \in 0..Len(lines) : lines' = SubSeq(lines, 1, n)
  BY <1>0 DEF GivesUp
<1>l. /\ Len(lines) \in Nat /\ n \in Nat /\ Len(lines') = n
      /\ DOMAIN lines = 1..Len(lines) /\ DOMAIN lines' = 1..n
      /\ \A i \in 1..n : lines'[i] = lines[i] /\ i \in 1..Len(lines)
  BY <1>n, LinesCut DEF TypeOK
<1>s. \A q \in Processes : process'[q].session = process[q].session
  BY <1>0 DEF Only, SameWriter
<1>w. /\ \A q \in Processes : HasWriter(q)' => HasWriter(q)
      /\ HasWriter(p)
      /\ ~overlap => \A q \in Processes : HasWriter(q) => q = p
      /\ ~overlap /\ ~stuck => Alone(p)
  <2>1. \A q \in Processes : HasWriter(q)' => HasWriter(q)
    BY <1>0, <1>s DEF GivesUp, Only, HasWriter, Done
  <2>2. QED
    BY <1>0, <2>1, WriterIsAlone DEF GivesUp, Writing
<1>u. UNCHANGED <<sessions, completed, overlap>> /\ (stuck => stuck')
  BY <1>0 DEF GivesUp
<1>f. failed' # {} /\ failed \subseteq failed' /\ process[p].session \in failed'
  BY <1>0 DEF GivesUp
<1>p. process[p].stage = "rollback" /\ process'[p].stage \notin Writing \cup {"consuming", "ending"}
  BY <1>0 DEF GivesUp, Writing
<1>1. SessionsOK'
  <2>1. \A i \in DOMAIN lines' : lines'[i] # Damaged => lines'[i].session <= sessions'
    BY <1>l, <1>u DEF SessionsOK
  <2>2. ASSUME NEW q \in Processes
        PROVE  /\ process'[q].stage \in Writing \cup {"consuming", "ending"} => process[q].session > 0
               /\ q \in Recorders /\ process'[q].stage = "connecting" => process[q].session > 0
    <3>1. CASE q # p
      BY <1>0, <3>1 DEF Only, SessionsOK
    <3>2. CASE q = p
      BY <1>p, <3>2 DEF SessionsOK, Writing
    <3>3. QED
      BY <3>1, <3>2
  <2>3. QED
    BY <1>f, <1>s, <1>u, <2>1, <2>2 DEF SessionsOK
<1>2. LedgerInv'
  <2>1. SingleWriter'
    BY <1>u, <1>w DEF SingleWriter
  <2>2. ASSUME NEW q \in Processes PROVE process'[q].stage \in Writing => RowOK(q)'
    BY <1>0, <1>p DEF RowOK, Only, WritersOK
  <2>3. ASSUME NEW q \in Processes, Alone(q)' PROVE WriterOK(q)'
    <3>1. q = p /\ ~stuck' /\ ~overlap
      BY <1>f, <1>s, <1>u, <1>w, <2>3 DEF Alone
    <3>2. Alone(p) /\ WriterOK(p)
      BY <1>u, <1>w, <3>1 DEF WritersOK
    <3>3. tail' = {} /\ lines' = SubSeq(lines, 1, process[p].index)
      BY <3>1, <3>2, RollbackGivesUp
    <3>4. process[p].index \in 0..Len(lines)
      <4>1. Len(lines) = process[p].index \/ Len(lines) = process[p].index + 1
        BY <1>p, <3>2 DEF WriterOK, Unwritten, Written
      <4>2. process[p].index \in Nat
        BY DEF TypeOK, ProcessRecord
      <4>3. QED
        BY <1>l, <4>1, <4>2
    <3>5. Len(lines') = process[p].index /\ \A i \in 1..process[p].index : lines'[i] = lines[i]
      BY <3>3, <3>4, LinesCut
    <3>6. HeadAt(process[p].index)' = HeadAt(process[p].index)
      BY <1>0, <3>4, <3>5 DEF HeadAt, HeadOf, SameWriter
    <3>7. QED
      BY <1>0, <1>p, <3>1, <3>2, <3>3, <3>5, <3>6 DEF WriterOK, SameWriter, Writing
  <2>4. CompletedOK'
    BY <1>p, <1>u, <1>w DEF CompletedOK
  <2>5. LedgerIntact'
    <3>1. SUFFICES ASSUME ~overlap, ~stuck' PROVE Chained(lines') /\ completed \subseteq Range(lines')
      BY <1>u DEF LedgerIntact
    <3>2. Alone(p) /\ lines' = SubSeq(lines, 1, process[p].index)
      BY <1>u, <1>w, <3>1, RollbackGivesUp
    <3>3. Chained(lines) /\ completed \subseteq Kept(p)
      BY <1>p, <1>u, <1>w, <3>1 DEF LedgerIntact, CompletedOK, Writing
    <3>4. process[p].index \in 0..Len(lines)
      <4>1. Len(lines) = process[p].index \/ Len(lines) = process[p].index + 1
        BY <1>p, <3>2 DEF WritersOK, WriterOK, Unwritten, Written
      <4>2. process[p].index \in Nat
        BY DEF TypeOK, ProcessRecord
      <4>3. QED
        BY <1>l, <4>1, <4>2
    <3>5. n = process[p].index
      BY <1>l, <3>2, <3>4, LinesCut
    <3>6. Kept(p) \subseteq Range(lines')
      BY <1>l, <3>5 DEF Kept, Range
    <3>7. \A k \in 0..n : HeadAt(k)' = HeadAt(k)
      BY <1>l DEF HeadAt, HeadOf
    <3>8. ASSUME NEW i \in 1..Len(lines')
          PROVE  /\ lines'[i] # Damaged /\ lines'[i].index = i - 1
                 /\ lines'[i].previous = HeadAt(i - 1)' /\ lines'[i].hash = Hash(lines'[i])
      <4>1. /\ lines[i] # Damaged /\ lines[i].index = i - 1
            /\ lines[i].previous = HeadAt(i - 1) /\ lines[i].hash = Hash(lines[i])
        BY <1>l, <3>3, ChainedByPosition DEF TypeOK, HeadAt
      <4>2. lines'[i] = lines[i] /\ HeadAt(i - 1)' = HeadAt(i - 1)
        BY <1>l, <3>7
      <4>3. QED
        BY <4>1, <4>2
    <3>9. Chained(lines')
      BY <3>8, ChainedByPosition DEF TypeOK, HeadAt
    <3>10. QED
      BY <3>3, <3>6, <3>9
  <2>6. QED
    BY <2>1, <2>2, <2>3, <2>4, <2>5 DEF LedgerInv, WritersOK
<1>3. CaptureInv'
  BY <1>f DEF CaptureInv, CaptureOK, ReportIsTrue
<1>4. GapInv'
  <2>1. SourceOK'
    BY <1>0, <1>p DEF SourceOK, Only
  <2>2. \A i \in 1..n : Numbered(i)' <=> Numbered(i)
    BY <1>l DEF Numbered
  <2>3. GapsMarked'
    <3>1. SUFFICES ASSUME NEW i \in 1..n, NEW j \in 1..n, Successive(i, j)'
                   PROVE  /\ lines'[i].sequence < lines'[j].sequence
                          /\ ~overlap /\ lines'[i].session \notin failed'
                               => lines'[j].gap = lines'[j].sequence - lines'[i].sequence - 1
      BY <1>l, <1>u DEF GapsMarked
    <3>2. \A k \in i+1 .. j-1 : k \in 1..n
      BY <1>l
    <3>3. Successive(i, j)
      BY <1>l, <2>2, <3>1, <3>2 DEF Successive
    <3>4. QED
      BY <1>f, <1>l, <3>3 DEF GapsMarked
  <2>4. NumbersOK'
    <3>1. ASSUME NEW q \in Recorders, NEW i \in 1..n, HasWriter(q)', Numbered(i)',
                 lines'[i].session = process[q].session
          PROVE  process'[q].last # NoSequence /\ lines'[i].sequence <= process'[q].last
                 /\ (process'[q].stage = "writing" /\ process'[q].row.sequence # NoSequence
                       => lines'[i].sequence < process'[q].row.sequence)
      <4>0. q \in Processes /\ HasWriter(q)
        BY <1>w, <3>1 DEF Processes
      <4>1. /\ process[q].last # NoSequence /\ lines[i].sequence <= process[q].last
            /\ process[q].stage = "writing" /\ process[q].row.sequence # NoSequence
                 => lines[i].sequence < process[q].row.sequence
        BY <1>l, <2>2, <3>1, <4>0 DEF NumbersOK
      <4>2. process'[q].last = process[q].last /\ process'[q].row = process[q].row
            /\ (process'[q].stage = "writing" => process[q].stage = "writing")
        BY <1>0, <1>p, <4>0 DEF Only, SameWriter, Writing
      <4>3. QED
        BY <1>l, <4>1, <4>2
    <3>2. ASSUME NEW q \in Recorders, ~overlap', HasWriter(q)', process'[q].session \notin failed'
          PROVE  FALSE
      <4>1. q \in Processes
        BY DEF Processes
      <4>2. QED
        BY <1>f, <1>s, <1>u, <1>w, <3>2, <4>1
    <3>3. \A q \in Recorders : process'[q].session = process[q].session
      BY <1>s DEF Processes
    <3>4. QED
      BY <1>l, <3>1, <3>2, <3>3 DEF NumbersOK
  <2>5. QED
    BY <2>1, <2>3, <2>4 DEF GapInv
<1>5. QED
  BY <1>1, <1>2, <1>3, <1>4

\* write returns: the writer has moved past its row.
LEMMA CommitStep ==
  ASSUME RecorderInv, TypeOK', NEW p \in Processes, Commit(p)
  PROVE  SessionsOK' /\ LedgerInv' /\ GapInv' /\ CaptureInv'
<1> USE DEF RecorderInv
<1>u. /\ process[p].stage = "sync" /\ completed' = completed \cup {process[p].row}
      /\ UNCHANGED <<lines, tail, sessions, failed, overlap, stuck>>
  BY DEF Commit
<1>r. RowOK(p)
  BY <1>u DEF WritersOK, Writing
<1>0. /\ Only(p)
      /\ process'[p].stage \in {"consuming", "finished", "ending"}
      /\ process'[p].index = process[p].index + 1 /\ process'[p].head = process[p].row.hash
      /\ process'[p].written = process[p].written + 1
      /\ process'[p].session = process[p].session /\ process'[p].last = process[p].last
      /\ process'[p].before = process[p].before
  BY <1>r, CommitEffect DEF RowOK
<1>s. \A q \in Processes : process'[q].session = process[q].session
  BY <1>0 DEF Only
<1>w. /\ \A q \in Processes : HasWriter(q)' => HasWriter(q)
      /\ HasWriter(p)
      /\ ~overlap => \A q \in Processes : HasWriter(q) => q = p
      /\ ~overlap /\ ~stuck => Alone(p)
  <2>1. \A q \in Processes : HasWriter(q)' => HasWriter(q)
    BY <1>0, <1>s, <1>u DEF Only, HasWriter, Done
  <2>2. QED
    BY <1>u, <2>1, WriterIsAlone DEF Writing
<1>a. Alone(p) => tail = {} /\ Len(lines) = process[p].index + 1 /\ lines[process[p].index + 1] = process[p].row
  BY <1>u DEF WritersOK, WriterOK, Written
<1>i. process[p].index \in Nat /\ process[p].written \in Nat /\ process[p].before \in Nat
  BY DEF TypeOK, ProcessRecord
<1>1. SessionsOK'
  <2>1. process[p].session > 0
    BY <1>u DEF SessionsOK, Writing
  <2>2. QED
    BY <1>0, <1>s, <1>u, <2>1 DEF SessionsOK, Only
<1>2. LedgerInv'
  <2>1. SingleWriter'
    BY <1>u, <1>w DEF SingleWriter
  <2>2. ASSUME NEW q \in Processes PROVE process'[q].stage \in Writing => RowOK(q)'
    <3>1. CASE q = p
      BY <1>0, <3>1 DEF Writing
    <3>2. CASE q # p
      BY <1>0, <3>2 DEF RowOK, Only, WritersOK
    <3>3. QED
      BY <3>1, <3>2
  <2>3. ASSUME NEW q \in Processes, Alone(q)' PROVE WriterOK(q)'
    <3>1. Alone(p) /\ q = p /\ process'[p].stage = "consuming"
      BY <1>0, <1>s, <1>u, <1>w, <2>3 DEF Alone, HasWriter, Done
    <3>2. HeadAt(process[p].index)' = process[p].row.hash
      BY <1>0, <1>a, <1>i, <1>u, <3>1 DEF HeadAt, HeadOf
    <3>3. QED
      BY <1>0, <1>a, <1>u, <3>1, <3>2 DEF WriterOK, Writing
  <2>4. CompletedOK'
    BY <1>0, <1>u, <1>w DEF CompletedOK, Writing
  <2>5. LedgerIntact'
    <3>1. ~overlap /\ ~stuck => process[p].row \in Range(lines)
      <4>1. process[p].index + 1 \in DOMAIN lines <=> process[p].index + 1 <= Len(lines)
        BY <1>i DEF TypeOK
      <4>2. QED
        BY <1>a, <1>i, <1>w, <4>1 DEF Range
    <3>2. QED
      BY <1>u, <3>1 DEF LedgerIntact
  <2>6. QED
    BY <2>1, <2>2, <2>3, <2>4, <2>5 DEF LedgerInv, WritersOK
<1>3. CaptureInv'
  <2>1. ASSUME ~overlap, failed = {}, NEW c \in Captures, c # p
        PROVE  c \in Processes /\ process'[c] = process[c] /\ (HasWriter(c)' <=> HasWriter(c))
    <3>1. c \in Processes
      BY DEF Processes
    <3>2. process'[c] = process[c]
      BY <1>0, <2>1, <3>1 DEF Only
    <3>3. QED
      BY <3>1, <3>2 DEF HasWriter
  <2>2. ASSUME ~overlap, failed = {}, p \in Captures
        PROVE  /\ process'[p].before <= Len(lines)
               /\ process'[p].before + process'[p].written <= process'[p].index
               /\ process'[p].index <= Len(lines)
               /\ \A i \in 1..process'[p].written :
                    lines[process'[p].index - process'[p].written + i].session = process'[p].session
    <3>1. Alone(p)
      BY <1>w, <2>2 DEF SessionsOK
    <3>2. process[p].session > 0 /\ process[p].stage \notin Done
      BY <1>u DEF SessionsOK, Writing, Done
    <3>3. /\ process[p].before <= Len(lines)
          /\ process[p].before + process[p].written <= process[p].index
          /\ \A i \in 1..process[p].written :
               lines[process[p].index - process[p].written + i].session = process[p].session
      BY <1>w, <2>2, <3>2 DEF CaptureOK
    <3>4. ASSUME NEW i \in 1..process'[p].written
          PROVE  lines[process'[p].index - process'[p].written + i].session = process'[p].session
      <4>1. process'[p].index - process'[p].written + i = process[p].index - process[p].written + i
        BY <1>0, <1>i
      <4>2. CASE i \in 1..process[p].written
        BY <1>0, <3>3, <4>1, <4>2
      <4>3. CASE i = process[p].written + 1
        <5>1. process'[p].index - process'[p].written + i = process[p].index + 1
          BY <1>i, <4>1, <4>3
        <5>2. QED
          BY <1>0, <1>a, <1>r, <3>1, <5>1 DEF RowOK
      <4>4. QED
        BY <1>0, <1>i, <4>2, <4>3
    <3>5. QED
      BY <1>0, <1>a, <1>i, <3>1, <3>3, <3>4
  <2>3. CaptureOK'
    <3>1. ASSUME ~overlap, failed = {}, NEW c \in Captures
          PROVE  /\ process'[c].stage \notin Done => process'[c].before <= Len(lines)
                 /\ process'[c].session > 0 /\ (HasWriter(c)' \/ process'[c].stage = "ending") =>
                      /\ process'[c].before + process'[c].written <= process'[c].index
                      /\ process'[c].index <= Len(lines)
                      /\ \A i \in 1..process'[c].written :
                           lines[process'[c].index - process'[c].written + i].session = process'[c].session
                 /\ process'[c].stage = "reported" => process'[c].before + process'[c].written <= Len(lines)
      <4>1. CASE c = p
        BY <1>0, <2>2, <3>1, <4>1
      <4>2. CASE c # p
        BY <2>1, <3>1, <4>2 DEF CaptureOK
      <4>3. QED
        BY <4>1, <4>2
    <3>2. QED
      BY <1>u, <3>1 DEF CaptureOK
  <2>4. ReportIsTrue'
    BY <1>0, <1>u, <2>1 DEF ReportIsTrue
  <2>5. QED
    BY <2>3, <2>4 DEF CaptureInv
<1>4. GapInv'
  <2>1. SourceOK'
    BY <1>0 DEF SourceOK, Only, Writing
  <2>2. \A i : Numbered(i)' <=> Numbered(i)
    BY <1>u DEF Numbered
  <2>3. GapsMarked'
    BY <1>u, <2>2 DEF GapsMarked, Successive
  <2>4. NumbersOK'
    <3>1. \A q \in Recorders, i \in DOMAIN lines : LastOf(q, i)' <=> LastOf(q, i)
      BY <1>s, <1>u, <2>2 DEF LastOf, Processes
    <3>2. ASSUME NEW q \in Recorders, HasWriter(q)'
          PROVE  /\ HasWriter(q) /\ process'[q].session = process[q].session /\ process'[q].last = process[q].last
                 /\ (process'[q].stage = "writing" <=> process[q].stage = "writing")
                 /\ process[q].stage = "writing" => process'[q].row = process[q].row
                 /\ process'[q].stage # "rollback" => process[q].stage # "rollback"
      <4>1. q \in Processes
        BY DEF Processes
      <4>2. CASE q = p
        BY <1>0, <1>u, <1>w, <4>2
      <4>3. CASE q # p
        BY <1>0, <1>w, <3>2, <4>1, <4>3 DEF Only
      <4>4. QED
        BY <4>2, <4>3
    <3>3. \A q \in Recorders : process'[q].session = process[q].session
      BY <1>s DEF Processes
    <3>4. QED
      BY <1>u, <2>2, <3>1, <3>2, <3>3 DEF NumbersOK
  <2>5. QED
    BY <2>1, <2>3, <2>4 DEF GapInv
<1>5. QED
  BY <1>1, <1>2, <1>3, <1>4

-----------------------------------------------------------------------------
(* Processes start, begin a row and are killed: the lines stay *)

\* The numbers of the sessions that p has no part in stay as they are.
LEMMA OtherNumbers ==
  ASSUME NumbersOK, NEW p \in Processes, Only(p), UNCHANGED lines, NEW q \in Recorders, q # p,
         failed' = failed, ~overlap' => ~overlap
  PROVE  /\ \A i \in DOMAIN lines' :
              HasWriter(q)' /\ Numbered(i)' /\ lines'[i].session = process'[q].session =>
                /\ process'[q].last # NoSequence /\ lines'[i].sequence <= process'[q].last
                /\ process'[q].stage = "writing" /\ process'[q].row.sequence # NoSequence
                     => lines'[i].sequence < process'[q].row.sequence
         /\ ~overlap' /\ HasWriter(q)' /\ process'[q].session \notin failed' /\ process'[q].stage # "rollback" =>
              \A i \in DOMAIN lines' : LastOf(q, i)' =>
                IF process'[q].stage = "writing" /\ process'[q].row.sequence # NoSequence
                  THEN process'[q].row.gap = process'[q].row.sequence - lines'[i].sequence - 1
                  ELSE lines'[i].sequence = process'[q].last
<1>1. process'[q] = process[q] /\ lines' = lines
  BY DEF Only, Processes
<1>2. \A i : Numbered(i)' <=> Numbered(i)
  BY <1>1 DEF Numbered
<1>3. \A i : LastOf(q, i)' <=> LastOf(q, i)
  BY <1>1, <1>2 DEF LastOf
<1>4. HasWriter(q)' <=> HasWriter(q)
  BY <1>1 DEF HasWriter
<1>5. QED
  BY <1>1, <1>2, <1>3, <1>4 DEF NumbersOK

\* p has no writer: it was killed, or it is a capture that begins.
WithoutWriter(p) ==
  /\ UNCHANGED <<lines, sessions, completed, failed, overlap, stuck>>
  /\ p \notin tail => tail' = tail
  /\ Only(p) /\ process'[p].session = 0
  /\ \/ process'[p].stage = "closed"
     \/ p \notin Recorders /\ process'[p].stage = "connecting" /\ process'[p].before = Len(lines)

\* A process without a writer disturbs nobody.
LEMMA WithoutWriterStep ==
  ASSUME RecorderInv, TypeOK', NEW p \in Processes, WithoutWriter(p)
  PROVE  SessionsOK' /\ LedgerInv' /\ GapInv' /\ CaptureInv'
<1> USE DEF RecorderInv
<1>0. /\ Only(p) /\ process'[p].session = 0
      /\ \/ process'[p].stage = "closed"
         \/ p \notin Recorders /\ process'[p].stage = "connecting" /\ process'[p].before = Len(lines)
  BY DEF WithoutWriter
<1>u. UNCHANGED <<lines, sessions, completed, failed, overlap, stuck>>
  BY DEF WithoutWriter
<1>t. p \notin tail => tail' = tail
  BY DEF WithoutWriter
<1>w. /\ ~HasWriter(p)'
      /\ \A q \in Processes : HasWriter(q)' => q # p /\ HasWriter(q) /\ process'[q] = process[q]
  <2>1. ~HasWriter(p)'
    BY <1>0 DEF HasWriter
  <2>2. \A q \in Processes : q # p => process'[q] = process[q]
    BY <1>0 DEF Only
  <2>3. QED
    BY <2>1, <2>2 DEF HasWriter
<1>1. SessionsOK'
  <2>1. sessions \in Nat
    BY DEF TypeOK
  <2>2. ASSUME NEW q \in Processes
        PROVE  /\ process'[q].session <= sessions'
               /\ process'[q].stage \in Writing \cup {"consuming", "ending"} => process'[q].session > 0
               /\ q \in Recorders /\ process'[q].stage = "connecting" => process'[q].session > 0
               /\ \A r \in Processes : process'[q].session = process'[r].session /\ q # r
                    => process'[q].session = 0
    <3>1. CASE q = p
      BY <1>0, <1>u, <2>1, <3>1 DEF Writing
    <3>2. CASE q # p
      BY <1>0, <1>u, <3>2 DEF Only, SessionsOK
    <3>3. QED
      BY <3>1, <3>2
  <2>3. QED
    BY <1>u, <2>2 DEF SessionsOK
<1>2. LedgerInv'
  <2>1. SingleWriter' /\ LedgerIntact'
    BY <1>u, <1>w DEF SingleWriter, LedgerIntact
  <2>2. ASSUME NEW q \in Processes, process'[q].stage \in Writing PROVE RowOK(q)'
    <3>1. process'[q] = process[q]
      BY <1>0, <2>2 DEF Only, Writing
    <3>2. QED
      BY <2>2, <3>1 DEF WritersOK, RowOK
  <2>3. ASSUME NEW q \in Processes, Alone(q)' PROVE WriterOK(q)'
    <3>1. q # p /\ process'[q] = process[q] /\ Alone(q)
      BY <1>u, <1>w, <2>3 DEF Alone
    <3>2. WriterOK(q)
      BY <3>1 DEF WritersOK
    <3>3. tail \subseteq {q}
      <4>1. process[q].stage \in {"connecting", "consuming"} \cup Writing
        BY <3>1 DEF Alone, HasWriter, Stages, TypeOK, ProcessRecord
      <4>2. QED
        BY <3>2, <4>1 DEF WriterOK, Writing, Unwritten, Written
    <3>4. tail' = tail
      BY <1>t, <3>1, <3>3
    <3>5. QED
      BY <1>u, <3>1, <3>2, <3>4 DEF WriterOK, HeadAt, HeadOf, Unwritten, Written
  <2>4. CompletedOK'
    <3>1. \A q \in Processes : HasWriter(q)' => Kept(q)' = Kept(q)
      BY <1>u, <1>w DEF Kept
    <3>2. QED
      BY <1>u, <1>w, <3>1 DEF CompletedOK
  <2>5. QED
    BY <2>1, <2>2, <2>3, <2>4 DEF LedgerInv, WritersOK
<1>3. GapInv'
  <2>1. SourceOK'
    BY <1>0 DEF SourceOK, Only, Writing
  <2>2. GapsMarked'
    BY <1>u DEF GapsMarked, Successive, Numbered
  <2>3. NumbersOK'
    <3>1. \A q \in Recorders : q = p => ~HasWriter(q)'
      BY <1>w
    <3>2. QED
      BY <1>0, <1>u, <3>1, OtherNumbers DEF NumbersOK
  <2>4. QED
    BY <2>1, <2>2, <2>3 DEF GapInv
<1>4. CaptureInv'
  <2>1. \A c \in Captures : c # p => process'[c] = process[c] /\ (HasWriter(c)' <=> HasWriter(c))
    BY <1>0 DEF Only, HasWriter, Processes
  <2>0. Len(lines) \in Nat
    BY DEF TypeOK
  <2>2. \A c \in Captures : c = p => /\ process'[c].session = 0 /\ ~HasWriter(c)'
                                     /\ \/ process'[c].stage = "closed"
                                        \/ process'[c].stage = "connecting" /\ process'[c].before <= Len(lines)
    BY <1>0, <1>w, <2>0
  <2>3. CaptureOK'
    BY <1>u, <2>1, <2>2 DEF CaptureOK, Done
  <2>4. ReportIsTrue'
    BY <1>u, <2>1, <2>2 DEF ReportIsTrue
  <2>5. QED
    BY <2>3, <2>4 DEF CaptureInv
<1>5. QED
  BY <1>1, <1>2, <1>3, <1>4

\* A process is killed, and its bytes stay.
LEMMA KilledStep ==
  ASSUME RecorderInv, TypeOK', NEW p \in Processes, Killed(p)
  PROVE  SessionsOK' /\ LedgerInv' /\ GapInv' /\ CaptureInv'
<1>1. TypeOK
  BY DEF RecorderInv
<1>2. Only(p) /\ process'[p].stage = "closed" /\ process'[p].session = 0
  BY <1>1, KilledEffect
<1>3. WithoutWriter(p)
  BY <1>2 DEF WithoutWriter, Killed, Orphaned, history
<1>4. QED
  BY <1>3, WithoutWriterStep

\* A capture begins; it has no writer yet.
LEMMA StartCaptureStep ==
  ASSUME RecorderInv, TypeOK', NEW p \in Captures, StartCapture(p)
  PROVE  SessionsOK' /\ LedgerInv' /\ GapInv' /\ CaptureInv'
<1>1. TypeOK /\ p \in Processes /\ p \notin Recorders
  BY RecorderAssumption DEF RecorderInv, Processes
<1>2. /\ Only(p) /\ process'[p].stage = "connecting" /\ process'[p].session = 0
      /\ process'[p].before = Len(lines)
  BY <1>1, StartCaptureEffect
<1>3. WithoutWriter(p)
  BY <1>1, <1>2 DEF WithoutWriter, StartCapture, history
<1>4. QED
  BY <1>1, <1>3, WithoutWriterStep

\* A writer is opened on a file that verifies: it continues the chain, in a
\* session of its own.
LEMMA OpenStep ==
  ASSUME RecorderInv, TypeOK', NEW p \in Processes, NEW stage \in {"connecting", "consuming"},
         OpenWriter(p, stage), UNCHANGED <<lines, tail, completed, failed, stuck>>,
         p \in Captures => process[p].stage = "connecting"
  PROVE  SessionsOK' /\ LedgerInv' /\ GapInv' /\ CaptureInv'
<1> USE DEF RecorderInv
<1>0. /\ Only(p) /\ process'[p].stage = stage /\ process'[p].session = sessions + 1
      /\ process'[p].index = Len(lines) /\ process'[p].head = HeadHash(lines)
      /\ process'[p].last = NoSequence /\ process'[p].written = 0
      /\ process'[p].before = process[p].before
  BY OpenEffect
<1>u. UNCHANGED <<lines, tail, completed, failed, stuck>> /\ sessions' = sessions + 1
  BY DEF OpenWriter
<1>v. tail = {} /\ Chained(lines)
  BY DEF OpenWriter, Verified
<1>t. /\ sessions \in Nat /\ Len(lines) \in Nat /\ lines \in Seq(Lines) /\ DOMAIN lines = 1..Len(lines)
      /\ process[p].before \in Nat
  BY SMTT(30) DEF TypeOK, ProcessRecord
<1>o. ~overlap' => ~overlap /\ \A q \in Processes : HasWriter(q)' => q = p
  <2>1. ~overlap' => ~overlap /\ \A q \in Processes \ {p} : ~HasWriter(q)
    BY DEF OpenWriter
  <2>2. \A q \in Processes \ {p} : HasWriter(q)' <=> HasWriter(q)
    BY <1>0 DEF Only, HasWriter
  <2>3. QED
    BY <2>1, <2>2
<1>n. \A i \in DOMAIN lines : lines[i] # Damaged => lines[i].session <= sessions
  BY DEF SessionsOK
<1>1. SessionsOK'
  <2>1. ASSUME NEW q \in Processes
        PROVE  /\ process'[q].session <= sessions'
               /\ process'[q].stage \in Writing \cup {"consuming", "ending"} => process'[q].session > 0
               /\ q \in Recorders /\ process'[q].stage = "connecting" => process'[q].session > 0
    <3>1. CASE q = p
      BY <1>0, <1>t, <1>u, <3>1
    <3>2. CASE q # p
      <4>1. process'[q] = process[q] /\ process[q].session \in Nat /\ process[q].session <= sessions
        BY <1>0, <3>2 DEF Only, SessionsOK, TypeOK, ProcessRecord
      <4>2. QED
        BY <1>t, <1>u, <4>1 DEF SessionsOK
    <3>3. QED
      BY <3>1, <3>2
  <2>2. ASSUME NEW q \in Processes, NEW r \in Processes, process'[q].session = process'[r].session, q # r
        PROVE  process'[q].session = 0
    <3>1. \A x \in Processes : x # p => process'[x] = process[x] /\ process[x].session \in Nat
                                          /\ process[x].session <= sessions
      BY <1>0 DEF Only, SessionsOK, TypeOK, ProcessRecord
    <3>2. q # p /\ r # p
      BY <1>0, <1>t, <2>2, <3>1
    <3>3. process[q].session = process[r].session
      BY <2>2, <3>1, <3>2
    <3>4. process[q].session = 0
      BY <2>2, <3>3 DEF SessionsOK
    <3>5. QED
      BY <3>1, <3>2, <3>4
  <2>3. ASSUME NEW i \in DOMAIN lines, lines[i] # Damaged PROVE lines[i].session <= sessions + 1
    <3>1. lines[i] \in Lines
      BY <1>t
    <3>2. lines[i].session \in Nat
      BY <2>3, <3>1 DEF Lines, LedgerRow
    <3>3. QED
      BY <1>n, <1>t, <2>3, <3>2
  <2>4. stuck' => failed' # {}
    BY <1>u DEF SessionsOK
  <2>5. QED
    BY <1>u, <2>1, <2>2, <2>3, <2>4 DEF SessionsOK
<1>2. LedgerInv'
  <2>1. SingleWriter'
    BY <1>o DEF SingleWriter
  <2>2. ASSUME NEW q \in Processes, process'[q].stage \in Writing PROVE RowOK(q)'
    <3>1. process'[q] = process[q]
      BY <1>0, <2>2 DEF Only, Writing
    <3>2. QED
      BY <2>2, <3>1 DEF WritersOK, RowOK
  <2>3. ASSUME NEW q \in Processes, Alone(q)' PROVE WriterOK(q)'
    <3>1. q = p
      BY <1>o, <2>3 DEF Alone
    <3>2. HeadAt(process[p].index)' = HeadOf(lines, Len(lines))
      BY <1>0, <1>u DEF HeadAt
    <3>3. HeadHash(lines) = HeadOf(lines, Len(lines))
      BY <1>t, ChainedByPosition
    <3>4. QED
      BY <1>0, <1>u, <1>v, <3>1, <3>2, <3>3 DEF WriterOK, Writing
  <2>4. CompletedOK'
    BY <1>0, <1>o DEF CompletedOK, Writing
  <2>5. LedgerIntact'
    BY <1>o, <1>u DEF LedgerIntact
  <2>6. QED
    BY <2>1, <2>2, <2>3, <2>4, <2>5 DEF LedgerInv, WritersOK
<1>3. GapInv'
  <2>1. SourceOK'
    BY <1>0 DEF SourceOK, Only, Writing
  <2>2. GapsMarked'
    BY <1>o, <1>u DEF GapsMarked, Successive, Numbered
  <2>3. ASSUME NEW i \in DOMAIN lines PROVE Numbered(i) => lines[i].session # process'[p].session
    <3>1. SUFFICES ASSUME Numbered(i) PROVE lines[i].session # process'[p].session
      OBVIOUS
    <3>2. lines[i] \in Lines /\ lines[i] # Damaged
      BY <1>t, <3>1 DEF Numbered
    <3>3. lines[i].session \in Nat
      BY <3>2 DEF Lines, LedgerRow
    <3>4. QED
      BY <1>0, <1>n, <1>t, <3>2, <3>3
  <2>4. \A i : Numbered(i)' <=> Numbered(i)
    BY <1>u DEF Numbered
  <2>5. \A i \in DOMAIN lines' : /\ ~(Numbered(i)' /\ lines'[i].session = process'[p].session)
                                 /\ ~LastOf(p, i)'
    BY <1>u, <2>3, <2>4 DEF LastOf
  <2>6. NumbersOK'
    BY <1>0, <1>o, <1>u, <2>5, OtherNumbers DEF NumbersOK
  <2>7. QED
    BY <2>1, <2>2, <2>6 DEF GapInv
<1>4. CaptureInv'
  <2>1. \A c \in Captures : c # p => process'[c] = process[c] /\ (HasWriter(c)' <=> HasWriter(c))
    BY <1>0 DEF Only, HasWriter, Processes
  <2>2. ASSUME ~overlap', failed = {}, p \in Captures
        PROVE  /\ process'[p].before <= Len(lines)
               /\ process'[p].before + process'[p].written <= process'[p].index
               /\ process'[p].index <= Len(lines)
               /\ \A i \in 1..process'[p].written :
                    lines[process'[p].index - process'[p].written + i].session = process'[p].session
    <3>1. process[p].before <= Len(lines)
      BY <1>o, <2>2 DEF CaptureOK, Done
    <3>2. QED
      BY <1>0, <1>t, <3>1
  <2>3. process'[p].stage # "reported"
    BY <1>0
  <2>4. CaptureOK'
    <3>1. ASSUME ~overlap', failed = {}, NEW c \in Captures
          PROVE  /\ process'[c].stage \notin Done => process'[c].before <= Len(lines)
                 /\ process'[c].session > 0 /\ (HasWriter(c)' \/ process'[c].stage = "ending") =>
                      /\ process'[c].before + process'[c].written <= process'[c].index
                      /\ process'[c].index <= Len(lines)
                      /\ \A i \in 1..process'[c].written :
                           lines[process'[c].index - process'[c].written + i].session = process'[c].session
                 /\ process'[c].stage = "reported" => process'[c].before + process'[c].written <= Len(lines)
      <4>1. CASE c = p
        BY <2>2, <2>3, <3>1, <4>1
      <4>2. CASE c # p
        BY <1>o, <2>1, <3>1, <4>2 DEF CaptureOK
      <4>3. QED
        BY <4>1, <4>2
    <3>2. QED
      BY <1>u, <3>1 DEF CaptureOK
  <2>5. ReportIsTrue'
    BY <1>o, <1>u, <2>1, <2>3 DEF ReportIsTrue
  <2>6. QED
    BY <2>4, <2>5 DEF CaptureInv
<1>5. QED
  BY <1>1, <1>2, <1>3, <1>4

\* write begins: the record continues the chain and the numbers of its session.
LEMMA BeginWriteStep ==
  ASSUME RecorderInv, TypeOK', NEW p \in Processes, NEW sequence \in Numbers, NEW gap \in Int,
         NEW last \in Numbers, BeginWrite(p, sequence, gap, last), process[p].stage = "consuming",
         sequence # NoSequence =>
           /\ last = sequence
           /\ process[p].last # NoSequence => /\ process[p].last < sequence
                                              /\ gap = sequence - process[p].last - 1,
         p \in Recorders /\ sequence = NoSequence => last = process[p].last
  PROVE  SessionsOK' /\ LedgerInv' /\ GapInv' /\ CaptureInv'
<1> USE DEF RecorderInv
<1>0. /\ Only(p) /\ process'[p].stage = "writing" /\ process'[p].last = last
      /\ process'[p].row = Row(p, sequence, gap)
      /\ process'[p].size = [lines |-> Len(lines), tail |-> tail]
      /\ process'[p].session = process[p].session /\ process'[p].index = process[p].index
      /\ process'[p].head = process[p].head /\ process'[p].written = process[p].written
      /\ process'[p].before = process[p].before
  BY BeginWriteEffect
<1>u. UNCHANGED <<lines, tail, sessions, completed, failed, overlap, stuck>>
  BY DEF BeginWrite, history
<1>r. /\ process'[p].row \in LedgerRow
      /\ process'[p].row.index = process[p].index /\ process'[p].row.previous = process[p].head
      /\ process'[p].row.session = process[p].session
      /\ process'[p].row.sequence = sequence /\ process'[p].row.gap = gap
      /\ process'[p].row.hash = Hash(process'[p].row)
      /\ p \in Recorders <=> process'[p].row.source = "websocket"
  BY <1>0, RowType
<1>w. /\ \A q \in Processes : HasWriter(q)' <=> HasWriter(q)
      /\ HasWriter(p)
      /\ ~overlap => \A q \in Processes : HasWriter(q) => q = p
      /\ ~overlap /\ ~stuck => Alone(p)
  <2>1. \A q \in Processes : HasWriter(q)' <=> HasWriter(q)
    BY <1>0 DEF Only, HasWriter, Done
  <2>2. QED
    BY <2>1, WriterIsAlone
<1>s. \A q \in Processes : process'[q].session = process[q].session
  BY <1>0 DEF Only
<1>a. Alone(p) => tail = {} /\ Len(lines) = process[p].index /\ process[p].head = HeadAt(process[p].index)
  BY DEF WritersOK, WriterOK
<1>1. SessionsOK'
  <2>1. process[p].session > 0
    BY DEF SessionsOK
  <2>2. QED
    BY <1>0, <1>s, <1>u, <2>1 DEF SessionsOK, Only
<1>2. LedgerInv'
  <2>1. SingleWriter' /\ LedgerIntact'
    BY <1>u, <1>w DEF SingleWriter, LedgerIntact
  <2>2. ASSUME NEW q \in Processes, process'[q].stage \in Writing PROVE RowOK(q)'
    <3>1. CASE q = p
      BY <1>0, <1>r, <3>1 DEF RowOK
    <3>2. CASE q # p
      BY <1>0, <2>2, <3>2 DEF RowOK, Only, WritersOK
    <3>3. QED
      BY <3>1, <3>2
  <2>3. ASSUME NEW q \in Processes, Alone(q)' PROVE WriterOK(q)'
    <3>1. q = p /\ Alone(p)
      BY <1>s, <1>u, <1>w, <2>3 DEF Alone
    <3>2. HeadAt(process[p].index)' = HeadAt(process[p].index)
      BY <1>0, <1>u DEF HeadAt
    <3>3. Unwritten(p)'
      BY <1>0, <1>a, <1>u, <3>1 DEF Unwritten
    <3>4. QED
      BY <1>0, <1>a, <1>u, <3>1, <3>2, <3>3 DEF WriterOK
  <2>4. CompletedOK'
    <3>1. SUFFICES ASSUME ~overlap, ~stuck PROVE completed \subseteq Kept(p)'
      BY <1>u, <1>w DEF CompletedOK
    <3>2. Len(lines) = process[p].index /\ DOMAIN lines = 1..Len(lines)
      BY <1>a, <1>w, <3>1 DEF TypeOK
    <3>3. Kept(p)' = Range(lines)
      BY <1>0, <1>u, <3>2 DEF Kept, Range
    <3>4. QED
      BY <3>1, <3>3 DEF LedgerIntact
  <2>5. QED
    BY <2>1, <2>2, <2>3, <2>4 DEF LedgerInv, WritersOK
<1>3. GapInv'
  <2>1. SourceOK'
    <3>1. ASSUME NEW q \in Processes, process'[q].stage \in Writing
          PROVE  q \in Recorders <=> process'[q].row.source = "websocket"
      <4>1. CASE q = p
        BY <1>r, <4>1
      <4>2. CASE q # p
        BY <1>0, <3>1, <4>2 DEF Only, SourceOK
      <4>3. QED
        BY <4>1, <4>2
    <3>2. QED
      BY <3>1 DEF SourceOK
  <2>2. \A i : Numbered(i)' <=> Numbered(i)
    BY <1>u DEF Numbered
  <2>3. GapsMarked'
    BY <1>u, <2>2 DEF GapsMarked, Successive
  <2>4. \A i : LastOf(p, i)' <=> LastOf(p, i)
    BY <1>s, <1>u, <2>2 DEF LastOf
  <2>5. ASSUME p \in Recorders, NEW i \in DOMAIN lines, Numbered(i), lines[i].session = process[p].session
        PROVE  /\ last # NoSequence /\ lines[i].sequence <= last
               /\ sequence # NoSequence => lines[i].sequence < sequence
    <3>1. process[p].last # NoSequence /\ lines[i].sequence <= process[p].last
      BY <1>w, <2>5 DEF NumbersOK
    <3>2. process[p].last \in Nat
      BY <3>1 DEF TypeOK, ProcessRecord, Numbers
    <3>3. lines[i].sequence \in Nat
      <4>1. lines[i] \in Lines /\ lines[i] # Damaged /\ lines[i].sequence # NoSequence
        BY <2>5 DEF TypeOK, Numbered
      <4>2. QED
        BY <4>1 DEF Lines, LedgerRow
    <3>4. CASE sequence = NoSequence
      BY <2>5, <3>1, <3>4
    <3>5. CASE sequence # NoSequence
      <4>1. sequence \in Nat /\ last = sequence /\ process[p].last < sequence
        BY <3>1, <3>5 DEF Numbers
      <4>2. QED
        BY <3>1, <3>2, <3>3, <3>5, <4>1, RecorderAssumption
    <3>6. QED
      BY <3>4, <3>5
  <2>6. ASSUME p \in Recorders, ~overlap, process[p].session \notin failed, NEW i \in DOMAIN lines, LastOf(p, i)
        PROVE  IF sequence # NoSequence THEN gap = sequence - lines[i].sequence - 1
                                        ELSE lines[i].sequence = last
    <3>1. lines[i].sequence = process[p].last
      BY <1>w, <2>6 DEF NumbersOK
    <3>2. process[p].last # NoSequence
      BY <2>6, <3>1 DEF LastOf, Numbered
    <3>3. QED
      BY <2>6, <3>1, <3>2
  <2>7. NumbersOK'
    <3>1. ASSUME p \in Recorders
          PROVE  /\ \A i \in DOMAIN lines' :
                      HasWriter(p)' /\ Numbered(i)' /\ lines'[i].session = process'[p].session =>
                        /\ process'[p].last # NoSequence /\ lines'[i].sequence <= process'[p].last
                        /\ process'[p].stage = "writing" /\ process'[p].row.sequence # NoSequence
                             => lines'[i].sequence < process'[p].row.sequence
                 /\ ~overlap' /\ HasWriter(p)' /\ process'[p].session \notin failed' /\ process'[p].stage # "rollback" =>
                      \A i \in DOMAIN lines' : LastOf(p, i)' =>
                        IF process'[p].stage = "writing" /\ process'[p].row.sequence # NoSequence
                          THEN process'[p].row.gap = process'[p].row.sequence - lines'[i].sequence - 1
                          ELSE lines'[i].sequence = process'[p].last
      BY <1>0, <1>r, <1>u, <2>2, <2>4, <2>5, <2>6, <3>1
    <3>2. QED
      BY <1>0, <1>u, <3>1, OtherNumbers, SMTT(30) DEF NumbersOK
  <2>8. QED
    BY <2>1, <2>3, <2>7 DEF GapInv
<1>4. CaptureInv'
  <2>1. ASSUME NEW c \in Captures
        PROVE  /\ process'[c].session = process[c].session /\ process'[c].before = process[c].before
               /\ process'[c].written = process[c].written /\ process'[c].index = process[c].index
               /\ HasWriter(c)' <=> HasWriter(c)
               /\ process'[c].stage \notin Done => process[c].stage \notin Done
               /\ process'[c].stage \in {"ending", "reported"} => process'[c].stage = process[c].stage
    <3>1. c \in Processes
      BY DEF Processes
    <3>2. CASE c = p
      BY <1>0, <1>w, <3>2 DEF Done
    <3>3. CASE c # p
      BY <1>0, <1>w, <3>1, <3>3 DEF Only
    <3>4. QED
      BY <3>2, <3>3
  <2>2. CaptureOK' /\ ReportIsTrue'
    BY <1>u, <2>1 DEF CaptureOK, ReportIsTrue
  <2>3. QED
    BY <2>2 DEF CaptureInv
<1>5. QED
  BY <1>1, <1>2, <1>3, <1>4

-----------------------------------------------------------------------------
(* The invariant *)

\* What _sequence_metadata returns for a quote that is not a duplicate.
LEMMA HandleMetadata ==
  ASSUME TypeOK, NEW r \in Recorders, NEW s \in 1..MaxSequence \cup {NoSequence}, ~Duplicate(r, s)
  PROVE  /\ s \in Numbers /\ SequenceMetadata(r, s).gap \in Int /\ SequenceMetadata(r, s).last \in Numbers
         /\ s # NoSequence =>
              /\ SequenceMetadata(r, s).last = s
              /\ process[r].last # NoSequence =>
                   /\ process[r].last < s
                   /\ SequenceMetadata(r, s).gap = s - process[r].last - 1
         /\ s = NoSequence => SequenceMetadata(r, s).last = process[r].last
<1>1. process[r].last \in Numbers /\ s \in Numbers /\ NoSequence \notin Nat
  BY RecorderAssumption DEF TypeOK, ProcessRecord, Processes, Numbers
<1>2. CASE s = NoSequence
  BY <1>1, <1>2 DEF SequenceMetadata
<1>3. CASE s # NoSequence
  <2>1. s \in Nat /\ (process[r].last # NoSequence => process[r].last \in Nat /\ process[r].last < s)
    BY <1>1, <1>3 DEF Numbers, Duplicate
  <2>2. QED
    BY <1>1, <1>3, <2>1 DEF SequenceMetadata
<1>4. QED
  BY <1>2, <1>3

\* The steps that only change a stage.
LEMMA MovesActions ==
  ASSUME TypeOK, NEW p \in Processes,
         \/ WriteFails(p) \/ (p \in Recorders /\ (Connect(p) \/ Disconnected(p)))
         \/ CaptureFails(p) \/ CaptureEnds(p) \/ Report(p)
  PROVE  Moves(p)
<1>0. process \in [Processes -> ProcessRecord] /\ process[p] \in ProcessRecord
  BY DEF TypeOK
<1> USE DEF Moves
<1>1. CASE WriteFails(p)
  BY <1>0, <1>1 DEF WriteFails, ProcessRecord
<1>2. CASE p \in Recorders /\ Connect(p)
  BY <1>0, <1>2 DEF Connect, ProcessRecord
<1>3. CASE p \in Recorders /\ Disconnected(p)
  <2>1. process'[p] = AfterRaise(p)
    BY <1>0, <1>3 DEF Disconnected
  <2>2. AfterRaise(p).stage \in {"failed", "connecting"}
    BY <1>0, <1>3 DEF AfterRaise, ProcessRecord
  <2>3. QED
    BY <1>3, <2>1, <2>2 DEF Disconnected
<1>4. CASE CaptureFails(p)
  BY <1>0, <1>4 DEF CaptureFails, ProcessRecord
<1>5. CASE CaptureEnds(p)
  BY <1>0, <1>5 DEF CaptureEnds, ProcessRecord
<1>6. CASE Report(p)
  BY <1>0, <1>6 DEF Report, ProcessRecord
<1>7. QED
  BY <1>1, <1>2, <1>3, <1>4, <1>5, <1>6

\* The processes, the file and the counters keep their types.
LEMMA RecorderType ==
  ASSUME RecorderInv, Next
  PROVE  TypeOK'
<1> USE DEF RecorderInv
<1>0. /\ lines \in Seq(Lines) /\ tail \in Owners /\ process \in [Processes -> ProcessRecord]
      /\ sessions \in Nat /\ overlap \in BOOLEAN /\ stuck \in BOOLEAN /\ rows \in Nat /\ faults \in Nat
  BY DEF TypeOK
<1>1. ASSUME NEW p \in Processes, Write(p) PROVE TypeOK'
  <2>1. CASE WritePart(p)
    BY <1>0, <2>1 DEF WritePart, history, TypeOK, Owners
  <2>2. CASE WriteRest(p)
    <3>1. process' \in [Processes -> ProcessRecord]
      BY <2>2, StageEffect
    <3>2. RowOK(p)
      BY <2>2 DEF WriteRest, WritersOK, Writing
    <3>3. (IF tail \subseteq {p} THEN process[p].row ELSE Damaged) \in Lines
      BY <3>2 DEF RowOK, Lines
    <3>4. lines' \in Seq(Lines)
      BY <2>2, <3>3, LinesGrow DEF WriteRest
    <3>5. QED
      BY <1>0, <2>2, <3>1, <3>4 DEF WriteRest, history, TypeOK, Owners
  <2>3. CASE WriteFails(p)
    <3>1. process' \in [Processes -> ProcessRecord]
      BY <2>3, StageEffect
    <3>2. QED
      BY <1>0, <2>3, <3>1 DEF WriteFails, Fault, history, TypeOK
  <2>4. CASE Rollback(p)
    <3>1. process' \in [Processes -> ProcessRecord]
      BY <2>4, StageEffect
    <3>2. process[p].size.lines \in Nat /\ process[p].size.tail \in Owners
      BY <1>0 DEF ProcessRecord
    <3>3. (IF process[p].size.lines < Len(lines) THEN process[p].size.lines ELSE Len(lines)) \in 0..Len(lines)
      BY <1>0, <3>2
    <3>4. lines' \in Seq(Lines)
      BY <2>4, <3>3, LinesCut DEF Rollback
    <3>5. tail' \in Owners
      BY <2>4, <3>2 DEF Rollback, Owners
    <3>6. QED
      BY <1>0, <2>4, <3>1, <3>4, <3>5 DEF Rollback, TypeOK
  <2>5. CASE RollbackFails(p)
    <3>1. process' \in [Processes -> ProcessRecord]
      BY <2>5, StageEffect
    <3>2. QED
      BY <1>0, <2>5, <3>1 DEF RollbackFails, Fault, Orphaned, TypeOK, Owners
  <2>6. CASE Commit(p)
    <3>1. process[p].row \in LedgerRow
      BY <2>6 DEF Commit, WritersOK, Writing, RowOK
    <3>2. process' \in [Processes -> ProcessRecord]
      BY <2>6, <3>1, CommitEffect
    <3>3. QED
      BY <1>0, <2>6, <3>2 DEF Commit, TypeOK
  <2>7. QED
    BY <1>1, <2>1, <2>2, <2>3, <2>4, <2>5, <2>6 DEF Write
<1>2. ASSUME NEW p \in Processes, Killed(p) PROVE TypeOK'
  <2>1. process' \in [Processes -> ProcessRecord] /\ tail' \in Owners
    BY <1>2, KilledEffect
  <2>2. QED
    BY <1>0, <1>2, <2>1 DEF Killed, Fault, history, TypeOK
<1>3. ASSUME NEW p \in Processes, NEW stage \in {"connecting", "consuming"}, OpenWriter(p, stage),
             UNCHANGED <<lines, tail, completed, failed, stuck, rows, faults>>
      PROVE  TypeOK'
  <2>1. process' \in [Processes -> ProcessRecord]
    BY <1>3, OpenEffect
  <2>2. overlap' \in BOOLEAN /\ sessions' \in Nat
    BY <1>0, <1>3 DEF OpenWriter
  <2>3. QED
    BY <1>0, <1>3, <2>1, <2>2 DEF TypeOK
<1>4. ASSUME NEW p \in Processes, NEW s \in Numbers, NEW gap \in Int, NEW last \in Numbers,
             BeginWrite(p, s, gap, last)
      PROVE  TypeOK'
  <2>1. process' \in [Processes -> ProcessRecord]
    BY <1>4, BeginWriteEffect
  <2>2. QED
    BY <1>0, <1>4, <2>1 DEF BeginWrite, history, TypeOK
<1>5. ASSUME NEW p \in Processes,
             Connect(p) \/ Disconnected(p) \/ CaptureFails(p) \/ CaptureEnds(p) \/ Report(p)
      PROVE  TypeOK'
  <2>1. process' \in [Processes -> ProcessRecord]
    BY <1>5, StageEffect
  <2>2. QED
    BY <1>0, <1>5, <2>1 DEF Connect, Disconnected, CaptureFails, CaptureEnds, Report, Fault, history, TypeOK
<1>6. ASSUME NEW r \in Recorders, StartRecorder(r) PROVE TypeOK'
  BY <1>3, <1>6 DEF StartRecorder, Processes
<1>7. ASSUME NEW r \in Recorders, NEW s \in 1..MaxSequence \cup {NoSequence}, Handle(r, s) PROVE TypeOK'
  <2>1. r \in Processes /\ ~Duplicate(r, s)
    BY <1>7 DEF Processes, Handle
  <2>2. QED
    BY <1>4, <1>7, <2>1, HandleMetadata DEF Handle
<1>8. ASSUME NEW c \in Captures, StartCapture(c) PROVE TypeOK'
  <2>1. process' \in [Processes -> ProcessRecord]
    BY <1>8, StartCaptureEffect DEF Processes
  <2>2. QED
    BY <1>0, <1>8, <2>1 DEF StartCapture, history, TypeOK
<1>9. ASSUME NEW c \in Captures, OpenCapture(c) PROVE TypeOK'
  BY <1>3, <1>9 DEF OpenCapture, Processes
<1>10. ASSUME NEW c \in Captures, CaptureEvent(c) PROVE TypeOK'
  <2>1. c \in Processes /\ NoSequence \in Numbers /\ 0 \in Int /\ BeginWrite(c, NoSequence, 0, NoSequence)
    BY <1>10 DEF CaptureEvent, Processes, Numbers
  <2>2. QED
    BY <1>4, <2>1
<1>11. QED
  BY <1>1, <1>2, <1>5, <1>6, <1>7, <1>8, <1>9, <1>10 DEF Next, Processes

\* The invariant holds of the empty file.
LEMMA RecorderInit ==
  ASSUME Init
  PROVE  RecorderInv
<1>1. Closed \in ProcessRecord /\ Closed.stage = "closed" /\ Closed.session = 0
  <2>1. Genesis \in Hashes
    BY DEF Genesis, Hashes
  <2>2. [lines |-> 0, tail |-> {}] \in [lines : Nat, tail : Owners]
    BY DEF Owners
  <2>3. QED
    BY <2>1, <2>2 DEF Closed, ProcessRecord, Stages, Done, Lines, Numbers
<1>2. /\ lines = <<>> /\ DOMAIN lines = {} /\ Range(lines) = {}
      /\ \A p \in Processes : /\ process[p].stage = "closed" /\ process[p].session = 0
                              /\ process[p].stage \notin Writing /\ ~HasWriter(p)
  BY <1>1 DEF Init, Range, Writing, HasWriter
<1>3. TypeOK
  <2>1. process \in [Processes -> ProcessRecord] /\ lines \in Seq(Lines) /\ tail \in Owners
    <3>1. process = [p \in Processes |-> Closed] /\ lines = <<>> /\ tail = {}
      BY DEF Init
    <3>2. process \in [Processes -> ProcessRecord]
      BY <1>1, <3>1
    <3>3. lines \in Seq(Lines) /\ tail \in Owners
      BY <3>1 DEF Owners
    <3>4. QED
      BY <3>2, <3>3
  <2>2. QED
    BY <2>1 DEF Init, TypeOK
<1>4. SessionsOK
  BY <1>2 DEF Init, SessionsOK, Writing
<1>5. SingleWriter /\ WritersOK /\ CompletedOK
  BY <1>2 DEF SingleWriter, WritersOK, Alone, CompletedOK
<1>6. LedgerIntact
  BY <1>2 DEF Init, LedgerIntact, Chained
<1>7. SourceOK /\ NumbersOK /\ GapsMarked
  BY <1>2 DEF SourceOK, NumbersOK, GapsMarked
<1>8. \A c \in Captures : c \in Processes
  BY DEF Processes
<1>9. CaptureOK /\ ReportIsTrue
  BY <1>2, <1>8 DEF CaptureOK, ReportIsTrue, Done
<1>10. QED
  BY <1>3, <1>4, <1>5, <1>6, <1>7, <1>9 DEF RecorderInv

\* Every step keeps the invariant.
LEMMA RecorderStep ==
  ASSUME RecorderInv, Next
  PROVE  RecorderInv'
<1>0. TypeOK' /\ TypeOK
  BY RecorderType DEF RecorderInv
<1> DEFINE Keeps == SessionsOK' /\ LedgerInv' /\ GapInv' /\ CaptureInv'
<1>m. ASSUME NEW p \in Processes,
             \/ WriteFails(p) \/ (p \in Recorders /\ (Connect(p) \/ Disconnected(p)))
             \/ CaptureFails(p) \/ CaptureEnds(p) \/ Report(p)
      PROVE  Keeps
  <2>1. Moves(p) /\ Only(p) /\ SameWriter(p)
    BY <1>0, <1>m, MovesActions, StageEffect
  <2>2. SessionsOK /\ LedgerInv /\ GapInv /\ CaptureInv
    BY DEF RecorderInv, LedgerInv, GapInv, CaptureInv
  <2>3. QED
    BY <1>0, <2>1, <2>2, MovesSessions, MovesLedger, MovesGaps, MovesCaptures
<1>1. ASSUME NEW p \in Processes, Write(p) PROVE Keeps
  BY <1>0, <1>1, <1>m, WritePartStep, WriteRestStep, RollbackStep, CommitStep DEF Write
<1>2. ASSUME NEW p \in Processes, Killed(p) PROVE Keeps
  BY <1>0, <1>2, KilledStep
<1>3. ASSUME NEW r \in Recorders, StartRecorder(r) PROVE Keeps
  <2>1. r \in Processes /\ r \notin Captures
    BY RecorderAssumption DEF Processes
  <2>2. OpenWriter(r, "connecting") /\ UNCHANGED <<lines, tail, completed, failed, stuck>>
    BY <1>3 DEF StartRecorder
  <2>3. QED
    BY <1>0, <2>1, <2>2, OpenStep
<1>4. ASSUME NEW r \in Recorders, Connect(r) \/ Disconnected(r) PROVE Keeps
  BY <1>4, <1>m DEF Processes
<1>5. ASSUME NEW r \in Recorders, NEW s \in 1..MaxSequence \cup {NoSequence}, Handle(r, s) PROVE Keeps
  <2>1. r \in Processes /\ ~Duplicate(r, s) /\ process[r].stage = "consuming"
        /\ BeginWrite(r, s, SequenceMetadata(r, s).gap, SequenceMetadata(r, s).last)
    BY <1>5 DEF Processes, Handle
  <2>2. QED
    BY <1>0, <2>1, HandleMetadata, BeginWriteStep
<1>6. ASSUME NEW c \in Captures, StartCapture(c) PROVE Keeps
  BY <1>0, <1>6, StartCaptureStep
<1>7. ASSUME NEW c \in Captures, OpenCapture(c) PROVE Keeps
  <2>1. /\ c \in Processes /\ process[c].stage = "connecting" /\ OpenWriter(c, "consuming")
        /\ UNCHANGED <<lines, tail, completed, failed, stuck>>
    BY <1>7 DEF OpenCapture, Processes
  <2>2. QED
    BY <1>0, <2>1, OpenStep
<1>8. ASSUME NEW c \in Captures, CaptureFails(c) \/ CaptureEnds(c) \/ Report(c) PROVE Keeps
  BY <1>8, <1>m DEF Processes
<1>9. ASSUME NEW c \in Captures, CaptureEvent(c) PROVE Keeps
  <2>1. /\ c \in Processes /\ c \notin Recorders /\ NoSequence \in Numbers /\ 0 \in Int
        /\ process[c].stage = "consuming" /\ BeginWrite(c, NoSequence, 0, NoSequence)
    BY <1>9, RecorderAssumption DEF CaptureEvent, Processes, Numbers
  <2>2. QED
    BY <1>0, <2>1, BeginWriteStep
<1>10. Keeps
  BY <1>1, <1>2, <1>3, <1>4, <1>5, <1>6, <1>7, <1>8, <1>9 DEF Next
<1>11. QED
  BY <1>0, <1>10 DEF RecorderInv, LedgerInv, GapInv, CaptureInv

\* The state of the ledger, its writers and its captures is consistent in every
\* behaviour, for any number of processes, rows, reconnects, failures and kills.
THEOREM RecorderInvariant == Spec => []RecorderInv
<1>1. Init => RecorderInv
  BY RecorderInit
<1>2. RecorderInv /\ [Next]_vars => RecorderInv'
  <2>1. SUFFICES ASSUME RecorderInv, [Next]_vars PROVE RecorderInv'
    OBVIOUS
  <2>2. CASE Next
    BY <2>1, <2>2, RecorderStep
  <2>3. CASE UNCHANGED vars
    <3>1. UNCHANGED <<lines, tail, process, sessions, completed, failed, overlap, stuck, rows, faults>>
      BY <2>3 DEF vars, history
    <3>2. \A p : HasWriter(p)' <=> HasWriter(p)
      BY <3>1 DEF HasWriter
    <3>3. \A i : Numbered(i)' <=> Numbered(i)
      BY <3>1 DEF Numbered
    <3>4. TypeOK' /\ SessionsOK' /\ SingleWriter' /\ LedgerIntact'
      BY <2>1, <3>1, <3>2 DEF RecorderInv, TypeOK, SessionsOK, SingleWriter, LedgerIntact
    <3>5. WritersOK' /\ CompletedOK'
      BY <2>1, <3>1, <3>2 DEF RecorderInv, WritersOK, CompletedOK, RowOK, Alone, WriterOK, HeadAt,
                              Unwritten, Written, Kept
    <3>6. NumbersOK'
      <4>1. \A p, i : LastOf(p, i)' <=> LastOf(p, i)
        BY <3>1, <3>3 DEF LastOf
      <4>2. QED
        BY <2>1, <3>1, <3>2, <3>3, <4>1 DEF RecorderInv, NumbersOK
    <3>7. SourceOK' /\ GapsMarked'
      BY <2>1, <3>1, <3>3 DEF RecorderInv, SourceOK, GapsMarked, Successive
    <3>8. CaptureOK' /\ ReportIsTrue'
      BY <2>1, <3>1, <3>2 DEF RecorderInv, CaptureOK, ReportIsTrue
    <3>9. QED
      BY <3>4, <3>5, <3>6, <3>7, <3>8 DEF RecorderInv
  <2>4. QED
    BY <2>1, <2>2, <2>3
<1>3. QED
  BY <1>1, <1>2, PTL DEF Spec

\* As long as no two writers are open at once and no rollback fails, the rows
\* that AtomicJsonlWriter.write has returned are in the file and every line is
\* linked to the one before it, through partial writes, rollbacks, reconnects,
\* kills and restarts.
THEOREM LedgerStaysIntact == Spec => []LedgerIntact
<1>1. RecorderInv => LedgerIntact
  BY DEF RecorderInv
<1>2. QED
  BY <1>1, RecorderInvariant, PTL

\* The numbers of a recorder's session increase whatever happens to the file,
\* and the gap that _sequence_metadata computed is what is missing between two
\* successive rows unless a write of the session has failed or writers overlapped.
THEOREM GapsAreMarked == Spec => []GapsMarked
<1>1. RecorderInv => GapsMarked
  BY DEF RecorderInv
<1>2. QED
  BY <1>1, RecorderInvariant, PTL

\* The rows that capture_provider_session reports as verified are its own, if no
\* two writers were open at once and no write has failed.
THEOREM ReportTellsTheTruth == Spec => []ReportIsTrue
<1>1. RecorderInv => ReportIsTrue
  BY DEF RecorderInv
<1>2. QED
  BY <1>1, RecorderInvariant, PTL
=============================================================================
