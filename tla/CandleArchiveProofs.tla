------------------------- MODULE CandleArchiveProofs -------------------------
(***************************************************************************)
(* Proofs about the candle archive, for any number of workers, entries,    *)
(* events and faults and for every batch size and retry limit: nothing     *)
(* acknowledged is lost, the statement implements the canonical merge,     *)
(* every row is the candle of its recorded events, and the history that a  *)
(* request is answered with is exact.                                      *)
(***************************************************************************)
EXTENDS CandleHistory, FiniteSetTheorems, WellFoundedInduction, TLAPS

-----------------------------------------------------------------------------
(* The inductive invariant *)

Stages == {"claim", "read", "persist", "dead", "ack"}
InHand == {"persist", "dead", "ack"}

\* Types of what the group and the workers keep. Entries exist before they
\* are pending, acknowledged or in a batch.
GroupOK ==
  /\ stream \in Seq(Events \cup {Malformed}) /\ Len(stream) <= MaxEntries
  /\ retries \in [1..MaxEntries -> Nat]
  /\ pending \subseteq 1..Len(stream) /\ acked \subseteq 1..Len(stream)
  /\ worker \in [Workers -> [stage : Stages, batch : SUBSET (1..Len(stream)), cursor : Nat]]

\* What the stage of a worker says about the entry in its hands: it is there,
\* it goes to the dead letters only when it is malformed and its attempts are
\* used up, and it is acknowledged only when it is settled.
StageOK(w) ==
  /\ worker[w].stage \in InHand => worker[w].batch # {}
  /\ worker[w].stage = "dead" => /\ stream[Current(w)] = Malformed
                                 /\ retries[Current(w)] >= RetryLimit
  /\ worker[w].stage = "ack" => Settled(Current(w))

ArchiveInv ==
  /\ GroupOK
  /\ \A w \in Workers : StageOK(w)
  /\ AckedIsArchived

-----------------------------------------------------------------------------
(* Lemmas *)

\* A non-empty set of naturals has a minimum.
LEMMA MinInSet ==
  ASSUME NEW S, S \subseteq Nat, S # {}
  PROVE  Min(S) \in S
<1>1. PICK x \in S : \A y \in S : ~(<<y, x>> \in OpToRel(<, Nat))
  BY NatLessThanWellFounded, WFMin
<1>2. ASSUME NEW y \in S PROVE x <= y
  <2>1. x \in Nat /\ y \in Nat
    OBVIOUS
  <2>2. ~(<<y, x>> \in OpToRel(<, Nat))
    BY <1>1
  <2>3. ~(y < x)
    BY <2>1, <2>2, Zenon DEF OpToRel
  <2> HIDE <1>1
  <2> QED
    BY <2>1, <2>3
<1> QED
  BY <1>2 DEF Min

\* The first entries of a set belong to it.
LEMMA FirstOfSubset ==
  ASSUME NEW entries, NEW n
  PROVE  FirstOf(entries, n) \subseteq entries
BY DEF FirstOf

\* The entry in a worker's hands is an entry of its batch and of the stream.
LEMMA CurrentInBatch ==
  ASSUME GroupOK, NEW w \in Workers, worker[w].batch # {}
  PROVE  /\ Current(w) \in worker[w].batch
         /\ Current(w) \in 1..Len(stream)
         /\ Current(w) \in 1..MaxEntries
<1>1. worker[w].batch \subseteq 1..Len(stream) /\ Len(stream) \in Nat
  BY DEF GroupOK
<1>2. worker[w].batch \subseteq Nat
  BY <1>1
<1>3. Current(w) \in worker[w].batch
  BY <1>2, MinInSet DEF Current
<1> QED
  BY <1>1, <1>3, ArchiveAssumption DEF GroupOK

\* What every step leaves in place: entries do not change, the tables and the
\* dead letters grow and retries are only counted up.
Grows ==
  /\ Len(stream') >= Len(stream)
  /\ \A i \in 1..Len(stream) : stream'[i] = stream[i]
  /\ \A i \in 1..MaxEntries : retries'[i] >= retries[i]
  /\ dead \subseteq dead' /\ recorded \subseteq recorded'

\* Once settled, an entry stays settled.
LEMMA SettledStays ==
  ASSUME GroupOK, GroupOK', Grows, NEW i \in 1..Len(stream), Settled(i)
  PROVE  Settled(i)'
<1>1. i \in 1..MaxEntries
  BY ArchiveAssumption DEF GroupOK
<1>2. retries[i] \in Nat /\ retries'[i] \in Nat /\ retries'[i] >= retries[i]
  BY <1>1 DEF GroupOK, Grows
<1> QED
  BY <1>2, ArchiveAssumption DEF Settled, Grows

\* A worker that does not move keeps what its stage says.
LEMMA OthersKeep ==
  ASSUME GroupOK, GroupOK', Grows, NEW w \in Workers, StageOK(w), worker'[w] = worker[w]
  PROVE  StageOK(w)'
<1>1. Current(w)' = Current(w)
  BY DEF Current
<1>2. CASE worker[w].stage \notin InHand
  BY <1>2 DEF StageOK, InHand
<1>3. CASE worker[w].stage \in InHand
  <2>1. worker[w].batch # {}
    BY <1>3 DEF StageOK
  <2>2. Current(w) \in 1..Len(stream) /\ Current(w) \in 1..MaxEntries
    BY <2>1, CurrentInBatch
  <2>3. stream'[Current(w)] = stream[Current(w)]
    BY <2>2 DEF Grows
  <2>4. retries[Current(w)] >= RetryLimit => retries'[Current(w)] >= RetryLimit
    BY <2>2, ArchiveAssumption, SMTT(30) DEF GroupOK, Grows
  <2>5. worker[w].stage = "ack" => Settled(Current(w))'
    BY <1>1, <2>2, SettledStays DEF StageOK
  <2> QED
    BY <1>1, <2>1, <2>3, <2>4, <2>5 DEF StageOK
<1> QED
  BY <1>2, <1>3

\* A step of one worker keeps the invariant, if that worker's stage says the
\* truth and what it acknowledges is settled.
LEMMA WorkerStepKeeps ==
  ASSUME ArchiveInv, GroupOK', Grows, NEW w \in Workers,
         \A v \in Workers \ {w} : worker'[v] = worker[v],
         StageOK(w)',
         \A i \in acked' \ acked : Settled(i)'
  PROVE  ArchiveInv'
<1>1. ASSUME NEW v \in Workers PROVE StageOK(v)'
  BY OthersKeep DEF ArchiveInv
<1>2. ASSUME NEW i \in acked' PROVE Settled(i)'
  <2>1. CASE i \in acked
    BY <2>1, SettledStays DEF ArchiveInv, AckedIsArchived, GroupOK
  <2> QED
    BY <2>1
<1> QED
  BY <1>1, <1>2 DEF ArchiveInv, AckedIsArchived

\* So does a step that leaves the workers alone.
LEMMA IdleStepKeeps ==
  ASSUME ArchiveInv, GroupOK', Grows, worker' = worker, acked' = acked
  PROVE  ArchiveInv'
<1>1. ASSUME NEW v \in Workers PROVE StageOK(v)'
  BY OthersKeep DEF ArchiveInv
<1>2. ASSUME NEW i \in acked' PROVE Settled(i)'
  BY SettledStays DEF ArchiveInv, AckedIsArchived, GroupOK
<1> QED
  BY <1>1, <1>2 DEF ArchiveInv, AckedIsArchived

\* Stuttering of the archive's variables.
LEMMA UnchangedKeeps ==
  ASSUME ArchiveInv, UNCHANGED <<streamVars, groupVars, retries, worker, tableVars, dead>>
  PROVE  ArchiveInv'
BY DEF ArchiveInv, GroupOK, StageOK, Settled, Current, AckedIsArchived,
       streamVars, groupVars, tableVars

-----------------------------------------------------------------------------
(* The steps *)

\* The invariant holds when the workers start on an empty stream.
LEMMA InitEstablishes == Init => ArchiveInv
<1> SUFFICES ASSUME Init PROVE ArchiveInv
  OBVIOUS
<1> USE DEF Init, ArchiveInit, Idle
<1>1. GroupOK
  BY ArchiveAssumption DEF GroupOK, Stages
<1>2. \A w \in Workers : StageOK(w)
  BY DEF StageOK, InHand
<1>3. AckedIsArchived
  BY DEF AckedIsArchived
<1> QED
  BY <1>1, <1>2, <1>3 DEF ArchiveInv

\* An append to the stream, and its trimming, keep the invariant (XADD with MAXLEN).
LEMMA PublishKeeps ==
  ASSUME ArchiveInv, NEW entry \in Events \cup {Malformed}, PublishQuote(entry)
  PROVE  ArchiveInv'
<1>1. /\ stream' \in Seq(Events \cup {Malformed})
      /\ Len(stream') = Len(stream) + 1 /\ Len(stream) \in Nat
      /\ \A i \in 1..Len(stream) : stream'[i] = stream[i]
  BY DEF PublishQuote, ArchiveInv, GroupOK
<1>2. Len(stream') <= MaxEntries
  BY <1>1, ArchiveAssumption DEF PublishQuote
<1>3. UNCHANGED <<groupVars, retries, worker, tableVars, dead>>
  BY DEF PublishQuote
<1>4. 1..Len(stream) \subseteq 1..Len(stream')
  BY <1>1
<1>5. GroupOK'
  BY <1>1, <1>2, <1>3, <1>4 DEF ArchiveInv, GroupOK, groupVars
<1>6. Grows
  <2>1. \A i \in 1..MaxEntries : retries'[i] >= retries[i]
    BY <1>3 DEF ArchiveInv, GroupOK
  <2>2. Len(stream') >= Len(stream)
    BY <1>1
  <2> QED
    BY <1>1, <1>3, <2>1, <2>2 DEF Grows, tableVars
<1> QED
  BY <1>3, <1>5, <1>6, IdleStepKeeps DEF groupVars

\* Claiming idle entries of another worker keeps the invariant (_claim_stale).
LEMMA ClaimKeeps ==
  ASSUME ArchiveInv, NEW w \in Workers, NEW idle \in SUBSET pending, ClaimStale(w, idle)
  PROVE  ArchiveInv'
<1> DEFINE claimed == FirstOf({i \in {i \in idle : i >= worker[w].cursor} : i > trimmed},
                              BatchCount)
           rest == {i \in pending : \A j \in claimed : i > j}
<1>1. claimed \subseteq 1..Len(stream) /\ rest \subseteq 1..Len(stream)
  BY FirstOfSubset DEF ArchiveInv, GroupOK
<1>2. rest # {} => Min(rest) \in Nat
  <2>1. rest \subseteq Nat
    BY <1>1 DEF ArchiveInv, GroupOK
  <2> HIDE DEF rest
  <2> QED
    BY <2>1, MinInSet
<1>3. PICK c \in Nat : worker' = [worker EXCEPT ![w] = [stage |-> "read", batch |-> claimed,
                                                        cursor |-> c]]
  BY <1>2 DEF ClaimStale
<1>4. /\ UNCHANGED <<streamVars, acked, retries, tableVars, dead>>
      /\ pending' \subseteq pending
  BY DEF ClaimStale
<1>5. GroupOK'
  BY <1>1, <1>3, <1>4 DEF ArchiveInv, GroupOK, Stages, streamVars
<1>6. Grows
  BY <1>4 DEF Grows, ArchiveInv, GroupOK, streamVars, tableVars
<1>7. worker'[w].stage = "read"
  BY <1>3 DEF ArchiveInv, GroupOK
<1>8. StageOK(w)'
  BY <1>7 DEF StageOK, InHand
<1>9. \A v \in Workers \ {w} : worker'[v] = worker[v]
  BY <1>3 DEF ArchiveInv, GroupOK
<1> QED
  BY <1>4, <1>5, <1>6, <1>8, <1>9, WorkerStepKeeps

\* What Deliver adds are entries of the stream.
LEMMA NewInStream ==
  ASSUME NEW w
  PROVE  New(w) \subseteq 1..Len(stream)
BY FirstOfSubset DEF New

\* Reading new entries keeps the invariant (XREADGROUP in run).
LEMMA ReadKeeps ==
  ASSUME ArchiveInv, NEW w \in Workers, ReadGroup(w)
  PROVE  ArchiveInv'
<1> DEFINE batch == worker[w].batch \cup New(w)
           stage == IF batch = {} THEN "claim" ELSE "persist"
<1>1. worker' = [worker EXCEPT ![w].batch = @ \cup New(w), ![w].stage = stage]
  BY DEF ReadGroup
<1>2. /\ UNCHANGED <<streamVars, acked, retries, tableVars, dead>>
      /\ pending' = pending \cup New(w)
  BY DEF ReadGroup, Deliver
<1>3. batch \subseteq 1..Len(stream)
  BY NewInStream DEF ArchiveInv, GroupOK
<1>4. worker'[w].batch = batch /\ worker'[w].stage = stage
  BY <1>1 DEF ArchiveInv, GroupOK
<1>5. \A v \in Workers \ {w} : worker'[v] = worker[v]
  BY <1>1 DEF ArchiveInv, GroupOK
<1>6. GroupOK'
  <2>1. worker' \in [Workers -> [stage : Stages, batch : SUBSET (1..Len(stream)), cursor : Nat]]
    <3>1. stage \in Stages
      BY DEF Stages
    <3> HIDE DEF batch, stage
    <3>2. worker' = [worker EXCEPT ![w].batch = batch, ![w].stage = stage]
      BY <1>1 DEF batch, ArchiveInv, GroupOK
    <3>3. QED
      BY <1>3, <3>1, <3>2 DEF ArchiveInv, GroupOK
  <2>2. pending' \subseteq 1..Len(stream)
    BY <1>2, NewInStream DEF ArchiveInv, GroupOK
  <2>3. QED
    BY <1>2, <2>1, <2>2 DEF ArchiveInv, GroupOK, streamVars
<1>7. Grows
  BY <1>2 DEF Grows, ArchiveInv, GroupOK, streamVars, tableVars
<1>8. StageOK(w)'
  BY <1>4 DEF StageOK, InHand
<1> QED
  BY <1>2, <1>5, <1>6, <1>7, <1>8, WorkerStepKeeps

\* After the statement the event is recorded, and no event is forgotten.
LEMMA PersistRecords ==
  ASSUME NEW e, PersistEvent(e)
  PROVE  e \in recorded' /\ recorded \subseteq recorded'
BY DEF PersistEvent, tableVars

\* After its statement a quote may be acknowledged (_persist).
LEMMA PersistKeeps ==
  ASSUME ArchiveInv, NEW w \in Workers, Persist(w)
  PROVE  ArchiveInv'
<1>1. /\ worker[w].stage = "persist" /\ stream[Current(w)] # Malformed
      /\ worker' = [worker EXCEPT ![w].stage = "ack"]
      /\ UNCHANGED <<streamVars, groupVars, retries, dead>>
      /\ stream[Current(w)] \in recorded' /\ recorded \subseteq recorded'
  BY PersistRecords DEF Persist
<1>2. worker'[w].stage = "ack" /\ worker'[w].batch = worker[w].batch
  BY <1>1 DEF ArchiveInv, GroupOK
<1>3. \A v \in Workers \ {w} : worker'[v] = worker[v]
  BY <1>1 DEF ArchiveInv, GroupOK
<1>4. GroupOK'
  BY <1>1 DEF ArchiveInv, GroupOK, Stages, streamVars, groupVars
<1>5. Grows
  BY <1>1 DEF Grows, ArchiveInv, GroupOK, streamVars
<1>6. Current(w)' = Current(w)
  BY <1>2 DEF Current
<1>7. StageOK(w)'
  BY <1>1, <1>2, <1>6 DEF StageOK, Settled, ArchiveInv, InHand, streamVars
<1> QED
  BY <1>1, <1>3, <1>4, <1>5, <1>7, WorkerStepKeeps DEF groupVars

\* A malformed entry goes to the dead letters only when its attempts are used
\* up (_handle_invalid_message).
LEMMA CountKeeps ==
  ASSUME ArchiveInv, NEW w \in Workers, CountInvalid(w)
  PROVE  ArchiveInv'
<1> DEFINE i == Current(w)
           count == retries[i] + 1
<1>1. /\ worker[w].stage = "persist" /\ stream[i] = Malformed
      /\ retries' = [retries EXCEPT ![i] = count]
      /\ worker' = [worker EXCEPT ![w] = IF count < RetryLimit THEN Abandon(w)
                                           ELSE [@ EXCEPT !.stage = "dead"]]
      /\ UNCHANGED <<streamVars, groupVars, tableVars, dead>>
  BY DEF CountInvalid
<1>2. worker[w].batch # {} /\ i \in 1..MaxEntries
  BY <1>1, CurrentInBatch DEF ArchiveInv, StageOK, InHand
<1>3. retries \in [1..MaxEntries -> Nat] /\ count \in Nat
  BY <1>2 DEF ArchiveInv, GroupOK
<1>4. GroupOK'
  BY <1>1, <1>3, ZenonT(30) DEF ArchiveInv, GroupOK, Stages, Abandon, streamVars, groupVars
<1>5. Grows
  BY <1>1, <1>2, <1>3 DEF Grows, ArchiveInv, GroupOK, streamVars, tableVars
<1>6. \A v \in Workers \ {w} : worker'[v] = worker[v]
  BY <1>1 DEF ArchiveInv, GroupOK
<1>7. CASE count < RetryLimit
  <2>1. worker'[w].stage = "claim"
    BY <1>1, <1>7 DEF ArchiveInv, GroupOK, Abandon
  <2>2. StageOK(w)'
    BY <2>1 DEF StageOK, InHand
  <2> QED
    BY <1>1, <1>4, <1>5, <1>6, <2>2, WorkerStepKeeps DEF groupVars
<1>8. CASE ~(count < RetryLimit)
  <2>1. worker'[w].stage = "dead" /\ worker'[w].batch = worker[w].batch
    BY <1>1, <1>8 DEF ArchiveInv, GroupOK
  <2>2. Current(w)' = i
    BY <2>1 DEF Current
  <2>3. retries'[i] = count /\ count >= RetryLimit
    BY <1>1, <1>2, <1>3, <1>8, ArchiveAssumption
  <2>4. stream'[i] = Malformed
    BY <1>1 DEF streamVars
  <2>5. StageOK(w)'
    BY <1>2, <2>1, <2>2, <2>3, <2>4 DEF StageOK, InHand
  <2> QED
    BY <1>1, <1>4, <1>5, <1>6, <2>5, WorkerStepKeeps DEF groupVars
<1> QED
  BY <1>7, <1>8

\* A dead-lettered entry may be acknowledged (_handle_invalid_message).
LEMMA DeadLetterKeeps ==
  ASSUME ArchiveInv, NEW w \in Workers, MoveToDeadLetter(w)
  PROVE  ArchiveInv'
<1>1. /\ worker[w].stage = "dead" /\ dead' = dead \cup {Current(w)}
      /\ worker' = [worker EXCEPT ![w].stage = "ack"]
      /\ UNCHANGED <<streamVars, groupVars, retries, tableVars>>
  BY DEF MoveToDeadLetter
<1>2. worker'[w].stage = "ack" /\ worker'[w].batch = worker[w].batch
  BY <1>1 DEF ArchiveInv, GroupOK
<1>3. \A v \in Workers \ {w} : worker'[v] = worker[v]
  BY <1>1 DEF ArchiveInv, GroupOK
<1>4. GroupOK'
  BY <1>1 DEF ArchiveInv, GroupOK, Stages, streamVars, groupVars
<1>5. Grows
  BY <1>1 DEF Grows, ArchiveInv, GroupOK, streamVars, tableVars
<1>6. Current(w)' = Current(w)
  BY <1>2 DEF Current
<1>7. StageOK(w)'
  BY <1>1, <1>2, <1>6 DEF StageOK, Settled, ArchiveInv, InHand, streamVars
<1> QED
  BY <1>1, <1>3, <1>4, <1>5, <1>7, WorkerStepKeeps DEF groupVars

\* The entry that is acknowledged is settled.
LEMMA AcknowledgeSettled ==
  ASSUME ArchiveInv, NEW w \in Workers, worker[w].stage = "ack", Acknowledge(Current(w)),
         UNCHANGED <<streamVars, retries, tableVars, dead>>
  PROVE  /\ Current(w) \in 1..Len(stream)
         /\ \A i \in acked' \ acked : Settled(i)'
<1>1. worker[w].batch # {} /\ Settled(Current(w))
  BY DEF ArchiveInv, StageOK, InHand
<1>2. Current(w) \in 1..Len(stream)
  BY <1>1, CurrentInBatch DEF ArchiveInv
<1>3. ASSUME NEW i \in acked' \ acked PROVE Settled(i)'
  <2>1. i = Current(w)
    BY DEF Acknowledge
  <2>2. Settled(i)
    BY <1>1, <2>1
  <2> QED
    BY <2>2 DEF Settled, streamVars, tableVars
<1> QED
  BY <1>2, <1>3

\* An acknowledgement is of a settled entry (XACK in run).
LEMMA AckKeeps ==
  ASSUME ArchiveInv, NEW w \in Workers, Ack(w)
  PROVE  ArchiveInv'
<1> DEFINE stage == IF worker[w].batch = {Current(w)} THEN "claim" ELSE "persist"
<1>1. /\ worker[w].stage = "ack" /\ Acknowledge(Current(w))
      /\ worker' = [worker EXCEPT ![w].batch = @ \ {Current(w)}, ![w].stage = stage]
      /\ UNCHANGED <<streamVars, retries, tableVars, dead>>
  BY DEF Ack
<1>2. Current(w) \in 1..Len(stream) /\ \A i \in acked' \ acked : Settled(i)'
  BY <1>1, AcknowledgeSettled
<1>3. worker'[w].stage = stage /\ worker'[w].batch = worker[w].batch \ {Current(w)}
  BY <1>1 DEF ArchiveInv, GroupOK
<1>4. \A v \in Workers \ {w} : worker'[v] = worker[v]
  BY <1>1 DEF ArchiveInv, GroupOK
<1>5. GroupOK'
  BY <1>1, <1>2, ZenonT(30) DEF ArchiveInv, GroupOK, Stages, Acknowledge, streamVars
<1>6. Grows
  BY <1>1 DEF Grows, ArchiveInv, GroupOK, streamVars, tableVars
<1>7. worker[w].batch # {}
  BY <1>1 DEF ArchiveInv, StageOK, InHand
<1>8. StageOK(w)'
  BY <1>3, <1>7 DEF StageOK, InHand
<1> QED
  BY <1>2, <1>4, <1>5, <1>6, <1>8, WorkerStepKeeps

\* A call that raises, whether or not it took effect, and a killed worker keep
\* the invariant: the batch is abandoned and its entries stay pending.
LEMMA FailsKeeps ==
  ASSUME ArchiveInv, NEW w \in Workers, Fails(w)
  PROVE  ArchiveInv'
<1> DEFINE Worker == [stage : Stages, batch : SUBSET (1..Len(stream)), cursor : Nat]
<1>1. PICK r \in Worker : r.stage = "claim" /\ worker' = [worker EXCEPT ![w] = r]
  <2>1. Idle \in Worker /\ Idle.stage = "claim"
    BY DEF Idle, Stages
  <2>2. Abandon(w) \in Worker /\ Abandon(w).stage = "claim"
    BY DEF Abandon, Stages, ArchiveInv, GroupOK
  <2>3. worker' = [worker EXCEPT ![w] = Abandon(w)] \/ worker' = [worker EXCEPT ![w] = Idle]
    BY DEF Fails
  <2> HIDE DEF Worker
  <2> QED
    BY <2>1, <2>2, <2>3
<1>2. UNCHANGED <<streamVars, retries, dead>>
  BY DEF Fails
<1>3. \A v \in Workers \ {w} : worker'[v] = worker[v]
  BY <1>1 DEF ArchiveInv, GroupOK
<1>4. worker'[w].stage = "claim"
  BY <1>1 DEF ArchiveInv, GroupOK
<1>5. StageOK(w)'
  BY <1>4 DEF StageOK, InHand
<1>6. ASSUME recorded \subseteq recorded',
             pending' \subseteq 1..Len(stream), acked' \subseteq 1..Len(stream),
             \A i \in acked' \ acked : Settled(i)'
      PROVE  ArchiveInv'
  <2>1. GroupOK'
    BY <1>1, <1>2, <1>6 DEF ArchiveInv, GroupOK, Stages, streamVars
  <2>2. Grows
    <3>1. \A i \in 1..MaxEntries : retries'[i] >= retries[i]
      <4>1. retries' = retries /\ retries \in [1..MaxEntries -> Nat]
        BY <1>2 DEF ArchiveInv, GroupOK
      <4> QED
        BY <4>1
    <3>2. Len(stream') >= Len(stream)
      BY <1>2 DEF ArchiveInv, GroupOK, streamVars
    <3> QED
      BY <1>2, <1>6, <3>1, <3>2 DEF Grows, streamVars
  <2> QED
    BY <1>3, <1>5, <1>6, <2>1, <2>2, WorkerStepKeeps
<1>7. CASE UNCHANGED <<groupVars, tableVars>>
  BY <1>6, <1>7 DEF ArchiveInv, GroupOK, groupVars, tableVars
<1>8. CASE Deliver(New(w)) /\ UNCHANGED tableVars
  BY <1>6, <1>8, NewInStream DEF Deliver, ArchiveInv, GroupOK, tableVars
<1>9. CASE PersistEvent(stream[Current(w)]) /\ UNCHANGED groupVars
  BY <1>6, <1>9, PersistRecords DEF ArchiveInv, GroupOK, groupVars
<1>10. CASE worker[w].stage = "ack" /\ Acknowledge(Current(w)) /\ UNCHANGED tableVars
  <2>1. Current(w) \in 1..Len(stream) /\ \A i \in acked' \ acked : Settled(i)'
    BY <1>2, <1>10, AcknowledgeSettled
  <2> QED
    BY <1>6, <1>10, <2>1 DEF Acknowledge, ArchiveInv, GroupOK, tableVars
<1> QED
  BY <1>7, <1>8, <1>9, <1>10 DEF Fails

-----------------------------------------------------------------------------
\* Every step of the system keeps the invariant.
LEMMA StepKeeps == ArchiveInv /\ [Next]_vars => ArchiveInv'
<1> SUFFICES ASSUME ArchiveInv, [Next]_vars PROVE ArchiveInv'
  OBVIOUS
<1>1. ASSUME NEW entry \in Events \cup {Malformed}, Publish(entry) PROVE ArchiveInv'
  BY <1>1, PublishKeeps DEF Publish
<1>2. CASE \/ \E e \in Events : CacheQuote(e)
           \/ Tick \/ Request \/ ReadIndex \/ ReadHot \/ ReadArchive
           \/ LayerFails \/ UNCHANGED vars
  BY <1>2, UnchangedKeeps DEF CacheQuote, Tick, Request, ReadIndex, ReadHot, ReadArchive,
                              LayerFails, vars, archiveVars
<1>3. ASSUME NEW w \in Workers, NEW idle \in SUBSET pending, ClaimStale(w, idle)
      PROVE  ArchiveInv'
  BY <1>3, ClaimKeeps
<1>4. ASSUME NEW w \in Workers, Process(w) PROVE ArchiveInv'
  BY <1>4, ReadKeeps, PersistKeeps, CountKeeps, DeadLetterKeeps, AckKeeps DEF Process
<1>5. ASSUME NEW w \in Workers, Fails(w) PROVE ArchiveInv'
  BY <1>5, FailsKeeps
<1> QED
  BY <1>1, <1>2, <1>3, <1>4, <1>5 DEF Next, ArchiveStep, ArchiveNext

\* What is acknowledged is archived, or it is malformed and was dead-lettered
\* after RetryLimit attempts, for any number of workers, entries and faults
\* (RecoveringCandleArchiveSink.run, _persist, _handle_invalid_message).
THEOREM AckedIsArchivedTheorem == Spec => []AckedIsArchived
<1>1. ArchiveInv => AckedIsArchived
  BY DEF ArchiveInv
<1> QED
  BY InitEstablishes, StepKeeps, <1>1, PTL DEF Spec

-----------------------------------------------------------------------------
(* The rows implement the canonical candle *)

\* A row names the first and the last of its events by their timestamp and id.
Opens(r, e) == r.first_time = Time[e] /\ r.first_id = Id[e]
Closes(r, e) == r.last_time = Time[e] /\ r.last_id = Id[e]

\* Every row is of events.
RowsOK ==
  /\ recorded \subseteq Events
  /\ rows \in [Minutes -> Row \cup {NoRow}]
  /\ \A m \in Minutes : rows[m] # NoRow =>
       /\ \E e \in Events : Opens(rows[m], e)
       /\ \E e \in Events : Closes(rows[m], e)

Rank(e) == Time[e] * (Cardinality(Events) + 1) + Id[e]

\* The timestamp decides, whatever the ids.
LEMMA TimeDecides ==
  ASSUME NEW t \in Nat, NEW u \in Nat, NEW n \in Nat, NEW i \in 1..n, NEW j \in 1..n, t < u
  PROVE  t * (n + 1) + i < u * (n + 1) + j
<1> DEFINE d == u - (t + 1)
           k == n + 1
<1>1. d \in Nat /\ u = t + 1 + d /\ k \in Nat /\ i < k /\ j > 0
  OBVIOUS
<1>2. u * k = t * k + k + d * k
  BY <1>1
<1>3. d * k \in Nat /\ t * k \in Nat
  BY <1>1
<1> HIDE DEF d, k
<1>4. t * k + i < u * k + j
  BY <1>1, <1>2, <1>3
<1> QED
  BY <1>4 DEF k

\* The rank of an event orders events as the row comparison does.
LEMMA RankOrder ==
  ASSUME NEW e \in Events, NEW f \in Events
  PROVE  /\ Rank(e) \in Nat
         /\ Rank(e) < Rank(f) <=> Precedes(Time[e], Id[e], Time[f], Id[f])
<1> DEFINE n == Cardinality(Events)
<1>1. /\ Time[e] \in Nat /\ Time[f] \in Nat /\ n \in Nat
      /\ Id[e] \in 1..n /\ Id[f] \in 1..n
  BY ArchiveAssumption, FS_CardinalityType
<1> HIDE DEF n
<1>2. Time[e] * (n + 1) \in Nat /\ Time[f] * (n + 1) \in Nat
  BY <1>1
<1>3. /\ Rank(e) = Time[e] * (n + 1) + Id[e] /\ Rank(f) = Time[f] * (n + 1) + Id[f]
      /\ Rank(e) \in Nat /\ Rank(f) \in Nat
  BY <1>1, <1>2 DEF Rank, n
<1>4. CASE Time[e] < Time[f]
  <2>1. Rank(e) < Rank(f)
    BY <1>1, <1>3, <1>4, TimeDecides
  <2> QED
    BY <1>3, <1>4, <2>1 DEF Precedes
<1>5. CASE Time[f] < Time[e]
  <2>1. Rank(f) < Rank(e)
    BY <1>1, <1>3, <1>5, TimeDecides
  <2> QED
    BY <1>1, <1>3, <1>5, <2>1 DEF Precedes
<1>6. CASE Time[e] = Time[f]
  <2>1. Time[e] * (n + 1) = Time[f] * (n + 1)
    BY <1>6
  <2>2. Rank(e) < Rank(f) <=> Id[e] < Id[f]
    BY <1>1, <1>2, <1>3, <2>1
  <2> QED
    BY <1>1, <1>3, <1>6, <2>2 DEF Precedes
<1> QED
  BY <1>1, <1>4, <1>5, <1>6

\* A timestamp and an id name one event.
LEMMA EventWithUnique ==
  ASSUME NEW e \in Events
  PROVE  EventWith(Time[e], Id[e]) = e
<1>1. \E f \in Events : Time[f] = Time[e] /\ Id[f] = Id[e]
  OBVIOUS
<1>2. \A f \in Events : Time[f] = Time[e] /\ Id[f] = Id[e] => f = e
  BY ArchiveAssumption
<1> QED
  BY <1>1, <1>2 DEF EventWith

\* What the row of one event is, and what candle it stands for.
LEMMA ExcludedIsFromQuote ==
  ASSUME NEW e \in Events
  PROVE  /\ Excluded(e) \in Row /\ Opens(Excluded(e), e) /\ Closes(Excluded(e), e)
         /\ CandleOf(Excluded(e)) = Canonical!FromQuote(e)
<1>1. Time[e] \in Nat /\ Price[e] \in Nat /\ Id[e] \in Nat
  BY ArchiveAssumption
<1>2. Excluded(e) \in Row /\ Opens(Excluded(e), e) /\ Closes(Excluded(e), e)
  BY <1>1 DEF Excluded, Row, Opens, Closes
<1>3. Excluded(e) # NoRow
  BY <1>2, NoRowAssumption
<1>4. CandleOf(Excluded(e)) = Canonical!FromQuote(e)
  BY <1>3, EventWithUnique DEF CandleOf, Excluded, Canonical!FromQuote
<1> QED
  BY <1>2, <1>4

\* DO UPDATE does to a row what with_quote does to its candle.
LEMMA UpdatedIsWithQuote ==
  ASSUME NEW r \in Row, NEW f \in Events, NEW l \in Events, NEW e \in Events,
         Opens(r, f), Closes(r, l), NEW u, u = Updated(r, Excluded(e))
  PROVE  /\ u \in Row
         /\ \E x \in Events : Opens(u, x)
         /\ \E x \in Events : Closes(u, x)
         /\ CandleOf(r) \in Canonical!Candles
         /\ CandleOf(u) = Canonical!WithQuote(CandleOf(r), e)
<1> DEFINE opens == Precedes(Time[e], Id[e], Time[f], Id[f])
           closes == Precedes(Time[l], Id[l], Time[e], Id[e])
           first == IF opens THEN e ELSE f
           last == IF closes THEN e ELSE l
<1>1. \A y \in Events : Time[y] \in Nat /\ Price[y] \in Nat /\ Id[y] \in Nat
  BY ArchiveAssumption
<1>2. /\ r.open \in Nat /\ r.high \in Nat /\ r.low \in Nat /\ r.close \in Nat
      /\ r.activity_count \in Nat
      /\ r.first_time = Time[f] /\ r.first_id = Id[f]
      /\ r.last_time = Time[l] /\ r.last_id = Id[l]
  BY DEF Row, Opens, Closes
<1>3. u = [open |-> IF opens THEN Price[e] ELSE r.open,
           high |-> Greatest(r.high, Price[e]),
           low |-> Least(r.low, Price[e]),
           close |-> IF closes THEN Price[e] ELSE r.close,
           activity_count |-> r.activity_count + 1,
           first_time |-> Least(Time[f], Time[e]),
           last_time |-> Greatest(Time[l], Time[e]),
           first_id |-> IF opens THEN Id[e] ELSE Id[f],
           last_id |-> IF closes THEN Id[e] ELSE Id[l]]
  BY <1>2 DEF Updated, Excluded
<1>4. /\ Least(Time[f], Time[e]) = Time[first]
      /\ Greatest(Time[l], Time[e]) = Time[last]
      /\ first \in Events /\ last \in Events
  BY <1>1 DEF Least, Greatest, Precedes
<1>5. Opens(u, first) /\ Closes(u, last)
  BY <1>3, <1>4 DEF Opens, Closes
<1>6. u \in Row
  BY <1>1, <1>2, <1>3, <1>4 DEF Row, Greatest, Least
<1>7. u # NoRow /\ r # NoRow
  BY <1>6, NoRowAssumption
<1>8. CandleOf(r) = [open |-> r.open, high |-> r.high, low |-> r.low, close |-> r.close,
                     activity |-> r.activity_count, first |-> f, last |-> l]
  BY <1>2, <1>7, EventWithUnique DEF CandleOf
<1>9. CandleOf(r) \in Canonical!Candles
  BY <1>2, <1>8 DEF Canonical!Candles
<1>10. EventWith(u.first_time, u.first_id) = first /\ EventWith(u.last_time, u.last_id) = last
  BY <1>4, <1>5, EventWithUnique DEF Opens, Closes
<1>11. CandleOf(u) =
         [open |-> IF opens THEN Price[e] ELSE r.open,
          high |-> Greatest(r.high, Price[e]), low |-> Least(r.low, Price[e]),
          close |-> IF closes THEN Price[e] ELSE r.close,
          activity |-> r.activity_count + 1, first |-> first, last |-> last]
  BY <1>3, <1>7, <1>10 DEF CandleOf
<1> DEFINE key == [y \in Events |-> Time[y] * (Cardinality(Events) + 1) + Id[y]]
<1>12. /\ key[e] < key[f] <=> opens
       /\ key[e] > key[l] <=> closes
  <2>1. key[e] = Rank(e) /\ key[f] = Rank(f) /\ key[l] = Rank(l)
    BY DEF Rank
  <2> HIDE DEF key, opens, closes
  <2>2. Rank(e) < Rank(f) <=> opens
    BY RankOrder DEF opens
  <2>3. Rank(l) < Rank(e) <=> closes
    BY RankOrder DEF closes
  <2>4. Rank(l) \in Nat /\ Rank(e) \in Nat
    BY RankOrder
  <2> QED
    BY <2>1, <2>2, <2>3, <2>4
<1>13. CandleOf(u) = Canonical!WithQuote(CandleOf(r), e)
  <2>1. CandleOf(r).first = f /\ CandleOf(r).last = l
    BY <1>8
  <2> HIDE DEF opens, closes, first, last, key
  <2>2. Canonical!WithQuote(CandleOf(r), e) =
         [open |-> IF opens THEN Price[e] ELSE r.open,
          high |-> Greatest(r.high, Price[e]), low |-> Least(r.low, Price[e]),
          close |-> IF closes THEN Price[e] ELSE r.close,
          activity |-> r.activity_count + 1,
          first |-> IF opens THEN e ELSE f, last |-> IF closes THEN e ELSE l]
    BY <1>8, <1>12, <2>1 DEF Canonical!WithQuote, Canonical!Highest, Canonical!Lowest,
                             Greatest, Least, key
  <2> QED
    BY <1>11, <2>2 DEF first, last
<1> QED
  BY <1>4, <1>5, <1>6, <1>9, <1>13

\* The tables as the canonical store sees them.
CanonicalVars == <<[m \in Minutes |-> CandleOf(rows[m])], recorded>>

\* A statement is one merge, or nothing when the event was recorded before
\* (_UPSERT_EVENT).
LEMMA PersistMerges ==
  ASSUME RowsOK, NEW e \in Events, PersistEvent(e)
  PROVE  RowsOK' /\ (Canonical!Next \/ UNCHANGED CanonicalVars)
<1>1. CASE UNCHANGED tableVars
  BY <1>1 DEF RowsOK, tableVars, CanonicalVars
<1>2. CASE /\ e \notin recorded
           /\ recorded' = recorded \cup {e}
           /\ rows' = [rows EXCEPT ![Minute(e)] =
                         IF @ = NoRow THEN Excluded(e) ELSE Updated(@, Excluded(e))]
  <2> DEFINE m == Minute(e)
             r == rows[m]
             u == IF r = NoRow THEN Excluded(e) ELSE Updated(r, Excluded(e))
  <2>1. m \in Minutes
    BY DEF Minutes
  <2>2. /\ u \in Row
        /\ \E x \in Events : Opens(u, x)
        /\ \E x \in Events : Closes(u, x)
        /\ CandleOf(u) = Canonical!Merge(CandleOf(r), e)
    <3>1. CASE r = NoRow
      <4>1. u = Excluded(e) /\ CandleOf(r) = NoCandle
        BY <3>1 DEF CandleOf
      <4> QED
        BY <4>1, ExcludedIsFromQuote DEF Canonical!Merge
    <3>2. CASE r # NoRow
      <4>1. /\ r \in Row /\ u = Updated(r, Excluded(e))
            /\ \E x \in Events : Opens(r, x)
            /\ \E x \in Events : Closes(r, x)
        BY <2>1, <3>2 DEF RowsOK
      <4>2. PICK f \in Events, l \in Events : Opens(r, f) /\ Closes(r, l)
        BY <4>1
      <4>3. /\ u \in Row
            /\ \E x \in Events : Opens(u, x)
            /\ \E x \in Events : Closes(u, x)
            /\ CandleOf(r) \in Canonical!Candles
            /\ CandleOf(u) = Canonical!WithQuote(CandleOf(r), e)
        <5> HIDE DEF u, r, m
        <5> QED
          BY <4>1, <4>2, UpdatedIsWithQuote
      <4>4. CandleOf(r) # NoCandle
        BY <4>3, NoRowAssumption DEF NoCandle
      <4> QED
        BY <4>3, <4>4 DEF Canonical!Merge
    <3> QED
      BY <3>1, <3>2
  <2>3. rows' = [rows EXCEPT ![m] = u] /\ rows \in [Minutes -> Row \cup {NoRow}]
    BY <1>2 DEF RowsOK
  <2> HIDE DEF u
  <2>4. RowsOK'
    BY <1>2, <2>1, <2>2, <2>3 DEF RowsOK
  <2>5. Canonical!MergeQuote(e)
    <3> DEFINE candles == [k \in Minutes |-> CandleOf(rows[k])]
               bucket == [x \in Events |-> Minute(x)]
    <3>1. [k \in Minutes |-> CandleOf(rows'[k])] =
            [candles EXCEPT ![m] = Canonical!Merge(candles[m], e)]
      BY <2>1, <2>2, <2>3
    <3>2. bucket[e] = m
      OBVIOUS
    <3> QED
      BY <1>2, <3>1, <3>2 DEF Canonical!MergeQuote, CandleOf
  <2> QED
    BY <2>4, <2>5 DEF Canonical!Next
<1> QED
  BY <1>1, <1>2 DEF PersistEvent

\* A step that leaves the tables alone is a stutter of the canonical store.
LEMMA TablesUnchanged ==
  ASSUME RowsOK, UNCHANGED tableVars
  PROVE  RowsOK' /\ UNCHANGED CanonicalVars
BY DEF RowsOK, tableVars, CanonicalVars

\* The archive starts as the empty store does.
LEMMA InitMerges == Init => RowsOK /\ Canonical!Init
<1> SUFFICES ASSUME Init PROVE RowsOK /\ Canonical!Init
  OBVIOUS
<1>1. recorded = {} /\ rows = [m \in Minutes |-> NoRow]
  BY DEF Init, ArchiveInit
<1>2. RowsOK
  BY <1>1 DEF RowsOK
<1>3. Minutes = Canonical!Buckets
  BY DEF Minutes, Canonical!Buckets
<1>4. [m \in Minutes |-> CandleOf(rows[m])] = [m \in Minutes |-> NoCandle]
  BY <1>1 DEF CandleOf
<1> QED
  BY <1>1, <1>2, <1>3, <1>4 DEF Canonical!Init

\* The entry a worker persists is an event.
LEMMA PersistedIsEvent ==
  ASSUME ArchiveInv, NEW w \in Workers, worker[w].stage = "persist",
         stream[Current(w)] # Malformed
  PROVE  stream[Current(w)] \in Events
<1>1. Current(w) \in 1..Len(stream)
  BY CurrentInBatch DEF ArchiveInv, StageOK, InHand
<1> QED
  BY <1>1 DEF ArchiveInv, GroupOK

\* The tables change by the statement only.
LEMMA StepPersists ==
  ASSUME ArchiveInv, [Next]_vars
  PROVE  UNCHANGED tableVars \/ \E e \in Events : PersistEvent(e)
<1>1. ASSUME NEW w \in Workers, Persist(w)
      PROVE  \E e \in Events : PersistEvent(e)
  BY <1>1, PersistedIsEvent DEF Persist
<1>2. ASSUME NEW w \in Workers, Fails(w)
      PROVE  UNCHANGED tableVars \/ \E e \in Events : PersistEvent(e)
  <2>1. \/ UNCHANGED tableVars
        \/ /\ worker[w].stage = "persist" /\ stream[Current(w)] # Malformed
           /\ PersistEvent(stream[Current(w)])
    BY <1>2 DEF Fails
  <2> QED
    BY <2>1, PersistedIsEvent
<1>3. \/ UNCHANGED tableVars
      \/ \E w \in Workers : Persist(w) \/ Fails(w)
  BY DEF Next, ArchiveStep, ArchiveNext, Process, Publish, PublishQuote, CacheQuote, Tick, Request,
         ReadIndex, ReadHot, ReadArchive, LayerFails, vars, archiveVars,
         ClaimStale, ReadGroup, CountInvalid, MoveToDeadLetter, Ack
<1> QED
  BY <1>1, <1>2, <1>3

\* Every step of the system is a merge or a stutter of the canonical store.
LEMMA StepMerges ==
  ASSUME ArchiveInv, RowsOK, [Next]_vars
  PROVE  RowsOK' /\ (Canonical!Next \/ UNCHANGED CanonicalVars)
BY StepPersists, PersistMerges, TablesUnchanged

\* The archive implements the canonical candle for any number of workers,
\* entries and faults: its rows change exactly as by atomic merges of every
\* event once, whatever is delivered again, claimed by several workers or
\* committed without an acknowledgement (_UPSERT_EVENT, persist_event).
THEOREM ArchiveIsCanonical == Spec => ArchiveMerges
<1>1. Spec => []ArchiveInv
  BY InitEstablishes, StepKeeps, PTL DEF Spec
<1>2. Init => RowsOK /\ Canonical!Init
  BY InitMerges
<1>3. ArchiveInv /\ RowsOK /\ [Next]_vars
        => RowsOK' /\ [Canonical!Next]_<<[m \in Minutes |-> CandleOf(rows[m])], recorded>>
  BY StepMerges DEF CanonicalVars
<1> QED
  BY <1>1, <1>2, <1>3, PTL DEF Spec, ArchiveMerges, Canonical!Spec

-----------------------------------------------------------------------------
(* The rows are exact *)

RecordedIn(m) == {e \in recorded : Minute(e) = m}

\* r is the row of the events in S.
IsRowOf(r, S) ==
  /\ \E e \in S : Opens(r, e) /\ r.open = Price[e] /\ \A f \in S \ {e} : Before(e, f)
  /\ \E e \in S : Closes(r, e) /\ r.close = Price[e] /\ \A f \in S \ {e} : Before(f, e)
  /\ \A e \in S : r.low <= Price[e] /\ Price[e] <= r.high
  /\ \E e \in S : r.low = Price[e]
  /\ \E e \in S : r.high = Price[e]
  /\ r.activity_count = Cardinality(S)

\* Strengthens RowsOK: every row is the one of the recorded events of its minute.
RowsAggregate ==
  \A m \in Minutes : IF RecordedIn(m) = {} THEN rows[m] = NoRow
                                          ELSE rows[m] \in Row /\ IsRowOf(rows[m], RecordedIn(m))

\* What a reader makes of a row.
OHLC(r) == [open |-> r.open, close |-> r.close, high |-> r.high, low |-> r.low,
            activity_count |-> r.activity_count]

\* Every archived minute candle is the candle of the recorded events of its
\* minute as Observed defines it, and a minute without events has no row,
\* whatever the order in which the events were archived (_UPSERT_EVENT).
RowsExact ==
  \A m \in Minutes : IF RecordedIn(m) = {} THEN rows[m] = NoRow
                                          ELSE OHLC(rows[m]) = Observed(RecordedIn(m))

\* The row comparison orders events totally.
LEMMA BeforeTotal ==
  ASSUME NEW e \in Events, NEW f \in Events
  PROVE  /\ e # f => Before(e, f) \/ Before(f, e)
         /\ ~(Before(e, f) /\ Before(f, e))
<1>1. Id[e] \in Nat /\ Id[f] \in Nat /\ Time[e] \in Nat /\ Time[f] \in Nat
  BY ArchiveAssumption
<1>2. e # f => Id[e] # Id[f]
  BY ArchiveAssumption
<1> QED
  BY <1>1, <1>2 DEF Before, Precedes

\* Before is transitive.
LEMMA BeforeTransitive ==
  ASSUME NEW e \in Events, NEW f \in Events, NEW g \in Events, Before(e, f), Before(f, g)
  PROVE  Before(e, g)
<1>1. /\ Id[e] \in Nat /\ Id[f] \in Nat /\ Id[g] \in Nat
      /\ Time[e] \in Nat /\ Time[f] \in Nat /\ Time[g] \in Nat
  BY ArchiveAssumption
<1> QED
  BY <1>1 DEF Before, Precedes

\* The row to insert is the one of its event.
LEMMA ExcludedIsRow ==
  ASSUME NEW e \in Events
  PROVE  Excluded(e) \in Row /\ IsRowOf(Excluded(e), {e})
<1>1. Cardinality({e}) = 1 /\ Price[e] \in Nat
  BY FS_Singleton, ArchiveAssumption
<1>2. Excluded(e) \in Row /\ Opens(Excluded(e), e) /\ Closes(Excluded(e), e)
  BY ExcludedIsFromQuote
<1> QED
  BY <1>1, <1>2 DEF IsRowOf, Excluded

\* DO UPDATE extends the row of S to the one of S and the new event.
LEMMA UpdatedIsRow ==
  ASSUME NEW S \in SUBSET Events, NEW r \in Row, IsRowOf(r, S), NEW e \in Events \ S,
         NEW u, u = Updated(r, Excluded(e))
  PROVE  u \in Row /\ IsRowOf(u, S \cup {e})
<1>1. PICK f \in S : Opens(r, f) /\ r.open = Price[f] /\ \A g \in S \ {f} : Before(f, g)
  BY DEF IsRowOf
<1>2. PICK l \in S : Closes(r, l) /\ r.close = Price[l] /\ \A g \in S \ {l} : Before(g, l)
  BY DEF IsRowOf
<1>3. /\ r.high \in Nat /\ r.low \in Nat /\ r.activity_count \in Nat
      /\ r.first_time = Time[f] /\ r.first_id = Id[f]
      /\ r.last_time = Time[l] /\ r.last_id = Id[l]
  BY <1>1, <1>2 DEF Row, Opens, Closes
<1>4. \A y \in Events : Time[y] \in Nat /\ Price[y] \in Nat /\ Id[y] \in Nat
  BY ArchiveAssumption
<1>5. /\ u.open = IF Before(e, f) THEN Price[e] ELSE Price[f]
      /\ u.high = Greatest(r.high, Price[e]) /\ u.low = Least(r.low, Price[e])
      /\ u.close = IF Before(l, e) THEN Price[e] ELSE Price[l]
      /\ u.activity_count = r.activity_count + 1
      /\ u.first_time = Least(Time[f], Time[e])
      /\ u.last_time = Greatest(Time[l], Time[e])
      /\ u.first_id = IF Before(e, f) THEN Id[e] ELSE Id[f]
      /\ u.last_id = IF Before(l, e) THEN Id[e] ELSE Id[l]
  BY <1>1, <1>2, <1>3 DEF Updated, Excluded, Before
<1>6. u \in Row
  BY <1>1, <1>2, UpdatedIsWithQuote
<1>7. \E x \in S \cup {e} :
        Opens(u, x) /\ u.open = Price[x] /\ \A g \in (S \cup {e}) \ {x} : Before(x, g)
  <2>1. CASE Before(e, f)
    <3>1. Opens(u, e) /\ u.open = Price[e]
      BY <1>4, <1>5, <2>1 DEF Opens, Before, Precedes, Least
    <3>2. \A g \in (S \cup {e}) \ {e} : Before(e, g)
      BY <1>1, <2>1, BeforeTransitive
    <3> QED
      BY <3>1, <3>2
  <2>2. CASE ~Before(e, f)
    <3>1. Before(f, e)
      BY <2>2, BeforeTotal
    <3>2. Opens(u, f) /\ u.open = Price[f]
      BY <1>4, <1>5, <2>2, <3>1 DEF Opens, Before, Precedes, Least
    <3> QED
      BY <1>1, <3>1, <3>2
  <2> QED
    BY <2>1, <2>2
<1>8. \E x \in S \cup {e} :
        Closes(u, x) /\ u.close = Price[x] /\ \A g \in (S \cup {e}) \ {x} : Before(g, x)
  <2>1. CASE Before(l, e)
    <3>1. Closes(u, e) /\ u.close = Price[e]
      BY <1>4, <1>5, <2>1 DEF Closes, Before, Precedes, Greatest
    <3>2. \A g \in (S \cup {e}) \ {e} : Before(g, e)
      BY <1>2, <2>1, BeforeTransitive
    <3> QED
      BY <3>1, <3>2
  <2>2. CASE ~Before(l, e)
    <3>1. Before(e, l)
      BY <2>2, BeforeTotal
    <3>2. Closes(u, l) /\ u.close = Price[l]
      BY <1>4, <1>5, <2>2, <3>1 DEF Closes, Before, Precedes, Greatest
    <3> QED
      BY <1>2, <3>1, <3>2
  <2> QED
    BY <2>1, <2>2
<1>9. \A x \in S \cup {e} : u.low <= Price[x] /\ Price[x] <= u.high
  BY <1>3, <1>4, <1>5 DEF IsRowOf, Greatest, Least
<1>10. /\ \E x \in S \cup {e} : u.low = Price[x]
       /\ \E x \in S \cup {e} : u.high = Price[x]
  BY <1>3, <1>4, <1>5 DEF IsRowOf, Greatest, Least
<1>11. u.activity_count = Cardinality(S \cup {e})
  <2>1. IsFiniteSet(S)
    BY ArchiveAssumption, FS_Subset
  <2> QED
    BY <1>5, <2>1, FS_AddElement DEF IsRowOf
<1> QED
  BY <1>6, <1>7, <1>8, <1>9, <1>10, <1>11 DEF IsRowOf

\* The statement keeps the rows aggregated.
LEMMA PersistAggregates ==
  ASSUME RowsOK, RowsAggregate, NEW e \in Events, PersistEvent(e)
  PROVE  RowsAggregate'
<1>1. CASE UNCHANGED tableVars
  BY <1>1 DEF RowsAggregate, RecordedIn, IsRowOf, tableVars
<1>2. CASE /\ e \notin recorded
           /\ recorded' = recorded \cup {e}
           /\ rows' = [rows EXCEPT ![Minute(e)] =
                         IF @ = NoRow THEN Excluded(e) ELSE Updated(@, Excluded(e))]
  <2> DEFINE m == Minute(e)
             u == IF rows[m] = NoRow THEN Excluded(e) ELSE Updated(rows[m], Excluded(e))
  <2>1. m \in Minutes /\ RecordedIn(m) \in SUBSET Events /\ e \in Events \ RecordedIn(m)
    BY <1>2 DEF Minutes, RecordedIn, RowsOK
  <2>2. u \in Row /\ IsRowOf(u, RecordedIn(m) \cup {e})
    <3>1. CASE RecordedIn(m) = {}
      <4>1. u = Excluded(e) /\ RecordedIn(m) \cup {e} = {e}
        BY <2>1, <3>1 DEF RowsAggregate
      <4> QED
        BY <4>1, ExcludedIsRow
    <3>2. CASE RecordedIn(m) # {}
      <4>1. rows[m] \in Row /\ IsRowOf(rows[m], RecordedIn(m))
        BY <2>1, <3>2 DEF RowsAggregate
      <4>2. u = Updated(rows[m], Excluded(e))
        BY <4>1, NoRowAssumption
      <4> HIDE DEF u
      <4> QED
        BY <2>1, <4>1, <4>2, UpdatedIsRow
    <3> QED
      BY <3>1, <3>2
  <2>3. rows' = [rows EXCEPT ![m] = u] /\ rows \in [Minutes -> Row \cup {NoRow}]
    BY <1>2 DEF RowsOK
  <2> HIDE DEF u
  <2>4. ASSUME NEW k \in Minutes
        PROVE  /\ rows'[k] = IF k = m THEN u ELSE rows[k]
               /\ RecordedIn(k)' = IF k = m THEN RecordedIn(m) \cup {e} ELSE RecordedIn(k)
    BY <1>2, <2>1, <2>3 DEF RecordedIn
  <2>5. ASSUME NEW k \in Minutes
        PROVE  IF RecordedIn(k)' = {} THEN rows'[k] = NoRow
               ELSE rows'[k] \in Row /\ IsRowOf(rows'[k], RecordedIn(k)')
    <3>1. CASE k = m
      <4>1. rows'[k] = u /\ RecordedIn(k)' = RecordedIn(m) \cup {e}
        BY <2>4, <3>1
      <4> QED
        BY <2>2, <4>1
    <3>2. CASE k # m
      <4>1. rows'[k] = rows[k] /\ RecordedIn(k)' = RecordedIn(k)
        BY <2>4, <3>2
      <4> QED
        BY <4>1 DEF RowsAggregate
    <3> QED
      BY <3>1, <3>2
  <2> QED
    BY <2>5 DEF RowsAggregate, IsRowOf
<1> QED
  BY <1>1, <1>2 DEF PersistEvent

\* The element above all others is the maximum ...
LEMMA MaxIsUpperBound ==
  ASSUME NEW S, S \subseteq Nat, NEW x \in S, \A y \in S : y <= x
  PROVE  Max(S) = x
<1>1. ASSUME NEW z \in S, \A y \in S : z >= y PROVE z = x
  <2>1. z \in Nat /\ x \in Nat /\ z >= x /\ z <= x
    BY <1>1
  <2> QED
    BY <2>1
<1>2. \A y \in S : x >= y
  OBVIOUS
<1> QED
  BY <1>1, <1>2 DEF Max

\* ... and the one below all others the minimum.
LEMMA MinIsLowerBound ==
  ASSUME NEW S, S \subseteq Nat, NEW x \in S, \A y \in S : x <= y
  PROVE  Min(S) = x
<1>1. ASSUME NEW z \in S, \A y \in S : z <= y PROVE z = x
  <2>1. z \in Nat /\ x \in Nat /\ z >= x /\ z <= x
    BY <1>1
  <2> QED
    BY <2>1
<1> QED
  BY <1>1 DEF Min

\* c is the candle of the events in S.
IsCandleOf(c, S) ==
  /\ \E e \in S : c.open = Price[e] /\ \A f \in S \ {e} : Before(e, f)
  /\ \E e \in S : c.close = Price[e] /\ \A f \in S \ {e} : Before(f, e)
  /\ \A e \in S : c.low <= Price[e] /\ Price[e] <= c.high
  /\ \E e \in S : c.low = Price[e]
  /\ \E e \in S : c.high = Price[e]
  /\ c.activity_count = Cardinality(S)

\* The candle of a set of events is the one Observed defines.
LEMMA CandleIsObserved ==
  ASSUME NEW S \in SUBSET Events, NEW c, IsCandleOf(c, S)
  PROVE  OHLC(c) = Observed(S)
<1> DEFINE first == CHOOSE e \in S : \A f \in S \ {e} : Before(e, f)
           last == CHOOSE e \in S : \A f \in S \ {e} : Before(f, e)
           prices == {Price[e] : e \in S}
<1>1. PICK x \in S : c.open = Price[x] /\ \A g \in S \ {x} : Before(x, g)
  BY DEF IsCandleOf
<1>2. PICK y \in S : c.close = Price[y] /\ \A g \in S \ {y} : Before(g, y)
  BY DEF IsCandleOf
<1>3. first = x
  <2>1. first \in S /\ \A f \in S \ {first} : Before(first, f)
    BY <1>1
  <2> HIDE DEF first
  <2> QED
    BY <1>1, <2>1, BeforeTotal
<1>4. last = y
  <2>1. last \in S /\ \A f \in S \ {last} : Before(f, last)
    BY <1>2
  <2> HIDE DEF last
  <2> QED
    BY <1>2, <2>1, BeforeTotal
<1>5. /\ c.high \in prices /\ \A p \in prices : p <= c.high
      /\ c.low \in prices /\ \A p \in prices : c.low <= p
  BY DEF IsCandleOf
<1>6. prices \subseteq Nat
  BY ArchiveAssumption
<1> HIDE DEF prices
<1>7. Max(prices) = c.high
  BY <1>5, <1>6, MaxIsUpperBound
<1>8. Min(prices) = c.low
  BY <1>5, <1>6, MinIsLowerBound
<1>9. Observed(S) = [open |-> Price[first], close |-> Price[last], high |-> Max(prices),
                     low |-> Min(prices), activity_count |-> Cardinality(S)]
  BY DEF Observed, prices
<1> HIDE DEF first, last
<1> QED
  BY <1>1, <1>2, <1>3, <1>4, <1>7, <1>8, <1>9 DEF OHLC, IsCandleOf

\* A row is a candle with the times of its quotes.
LEMMA RowIsCandle ==
  ASSUME NEW S, NEW r, IsRowOf(r, S)
  PROVE  IsCandleOf(r, S)
BY DEF IsRowOf, IsCandleOf

\* Every step keeps the rows aggregated.
LEMMA StepAggregates ==
  ASSUME ArchiveInv, RowsOK, RowsAggregate, [Next]_vars
  PROVE  RowsAggregate'
<1>1. CASE UNCHANGED tableVars
  BY <1>1 DEF RowsAggregate, RecordedIn, IsRowOf, tableVars
<1>2. CASE \E e \in Events : PersistEvent(e)
  BY <1>2, PersistAggregates
<1> QED
  BY <1>1, <1>2, StepPersists

\* The archived minute candles are exact at any time, for any number of
\* workers, entries and faults (_UPSERT_EVENT).
THEOREM ArchivedCandlesExact == Spec => []RowsExact
<1>1. Spec => []ArchiveInv
  BY InitEstablishes, StepKeeps, PTL DEF Spec
<1>2. Init => RowsOK /\ RowsAggregate
  BY InitMerges DEF Init, ArchiveInit, RowsAggregate, RecordedIn
<1>3. ArchiveInv /\ RowsOK /\ RowsAggregate /\ [Next]_vars => RowsOK' /\ RowsAggregate'
  BY StepMerges, StepAggregates
<1>4. RowsOK /\ RowsAggregate => RowsExact
  <2> SUFFICES ASSUME RowsOK, RowsAggregate, NEW m \in Minutes, RecordedIn(m) # {}
               PROVE  OHLC(rows[m]) = Observed(RecordedIn(m))
    BY DEF RowsExact, RowsAggregate
  <2>1. RecordedIn(m) \in SUBSET Events
    BY DEF RecordedIn, RowsOK
  <2> QED
    BY <2>1, RowIsCandle, CandleIsObserved DEF RowsAggregate
<1> QED
  BY <1>1, <1>2, <1>3, <1>4, PTL DEF Spec

-----------------------------------------------------------------------------
(* Rounding down *)

\* floor_time splits a time into a multiple of the interval and the rest.
LEMMA FloorSplits ==
  ASSUME NEW x \in Nat, NEW n \in Nat \ {0}
  PROVE  /\ x % n \in 0..n-1 /\ x \div n \in Nat
         /\ FloorTime(x, n) = n * (x \div n)
         /\ FloorTime(x, n) \in Nat
         /\ x = FloorTime(x, n) + (x % n)
         /\ FloorTime(x, n) % n = 0
<1>1. x % n \in 0..n-1 /\ x \div n \in Int /\ x = n * (x \div n) + (x % n)
  OBVIOUS
<1>2. x \div n \in Nat
  OBVIOUS
<1>3. FloorTime(x, n) = n * (x \div n)
  BY <1>1 DEF FloorTime
<1>4. n * (x \div n) \in Nat
  BY <1>2
<1>5. (n * (x \div n)) % n = 0
  BY <1>2
<1> QED
  BY <1>1, <1>2, <1>3, <1>4, <1>5

\* The multiples of n are n apart.
LEMMA MultiplesApart ==
  ASSUME NEW n \in Nat \ {0}, NEW p \in Int, NEW q \in Int, p < q
  PROVE  n * p + n <= n * q
<1>1. q - p >= 1
  OBVIOUS
<1>2. n * (q - p) >= n * 1
  BY <1>1
<1> QED
  BY <1>2

\* The bucket of x is the one whose ticks x is among.
LEMMA FloorIs ==
  ASSUME NEW n \in Nat \ {0}, NEW x \in Nat, NEW q \in Int, n * q <= x, x < n * q + n
  PROVE  FloorTime(x, n) = n * q
<1> DEFINE p == x \div n
<1>1. p \in Int /\ FloorTime(x, n) = n * p /\ n * p <= x /\ x < n * p + n
  <2>1. /\ p \in Nat /\ FloorTime(x, n) = n * p /\ FloorTime(x, n) \in Nat
        /\ x = FloorTime(x, n) + (x % n) /\ x % n \in 0..n-1
    BY FloorSplits
  <2> HIDE DEF p
  <2> QED
    BY <2>1
<1> HIDE DEF p
<1>2. n * p \in Int /\ n * q \in Int
  BY <1>1
<1>3. ~(p < q)
  BY <1>1, <1>2, MultiplesApart
<1>4. ~(q < p)
  BY <1>1, <1>2, MultiplesApart
<1>5. p = q
  BY <1>1, <1>3, <1>4
<1> QED
  BY <1>1, <1>5

\* Buckets do not overlap: they are in the order of the times.
LEMMA FloorMonotone ==
  ASSUME NEW n \in Nat \ {0}, NEW x \in Nat, NEW y \in Nat, x <= y
  PROVE  FloorTime(x, n) <= FloorTime(y, n)
<1> DEFINE p == x \div n
           q == y \div n
<1>1. /\ p \in Nat /\ FloorTime(x, n) = n * p /\ FloorTime(x, n) \in Nat
      /\ x = FloorTime(x, n) + (x % n) /\ x % n \in 0..n-1
  BY FloorSplits
<1>2. /\ q \in Nat /\ FloorTime(y, n) = n * q /\ FloorTime(y, n) \in Nat
      /\ y = FloorTime(y, n) + (y % n) /\ y % n \in 0..n-1
  BY FloorSplits
<1> HIDE DEF p, q
<1>3. ASSUME q < p PROVE FALSE
  <2>1. n * q + n <= n * p
    BY <1>1, <1>2, <1>3, MultiplesApart
  <2> QED
    BY <1>1, <1>2, <2>1
<1>4. CASE p = q
  BY <1>1, <1>2, <1>4
<1>5. CASE p < q
  <2>1. n * p + n <= n * q
    BY <1>1, <1>2, <1>5, MultiplesApart
  <2> QED
    BY <1>1, <1>2, <2>1
<1> QED
  BY <1>1, <1>2, <1>3, <1>4, <1>5

\* The bucket of a time is the one of its minute.
LEMMA FloorOfMinute ==
  ASSUME NEW t \in Timeframes, NEW x \in Nat
  PROVE  FloorTime(FloorTime(x, MinuteTicks), t) = FloorTime(x, t)
<1>1. t \in Nat \ {0} /\ MinuteTicks \in Nat \ {0} /\ t % MinuteTicks = 0
  BY ArchiveAssumption, HistoryAssumption
<1> DEFINE m == FloorTime(x, MinuteTicks)
           b == FloorTime(x, t)
           k == t \div MinuteTicks
           q == x \div t
<1>2. b \in Nat /\ b = t * q /\ q \in Nat /\ b <= x /\ x < b + t
  <2>1. /\ b = t * q /\ b \in Nat /\ q \in Nat /\ x = b + (x % t) /\ x % t \in 0..t-1
    BY <1>1, FloorSplits
  <2> HIDE DEF b
  <2> QED
    BY <1>1, <2>1
<1>3. m \in Nat /\ m <= x
  <2>1. /\ m \in Nat /\ x = m + (x % MinuteTicks) /\ x % MinuteTicks \in 0..MinuteTicks-1
    BY <1>1, FloorSplits
  <2> HIDE DEF m
  <2> QED
    BY <1>1, <2>1
<1>4. FloorTime(b, MinuteTicks) = b
  <2>1. k \in Nat /\ t = MinuteTicks * k
    BY <1>1
  <2> HIDE DEF k, b, q
  <2>2. k * q \in Int /\ (MinuteTicks * k) * q = MinuteTicks * (k * q)
    BY <1>1, <1>2, <2>1
  <2>3. b = MinuteTicks * (k * q)
    BY <1>2, <2>1, <2>2
  <2>4. b <= b /\ b < b + MinuteTicks
    BY <1>1, <1>2
  <2> QED
    BY <1>1, <1>2, <2>2, <2>3, <2>4, FloorIs
<1>5. b <= m
  BY <1>1, <1>2, <1>4, FloorMonotone
<1> HIDE DEF m, b, q
<1>6. m < b + t
  BY <1>1, <1>2, <1>3
<1>7. t \in Nat \ {0} /\ m \in Nat /\ q \in Int /\ t * q <= m /\ m < t * q + t
  BY <1>1, <1>2, <1>3, <1>5, <1>6
<1>8. FloorTime(m, t) = t * q
  BY <1>7, FloorIs, Zenon
<1> QED
  BY <1>2, <1>8 DEF m, b

\* _ceil_timeframe rounds up.
LEMMA CeilRoundsUp ==
  ASSUME NEW t \in Timeframes, NEW x \in Int
  PROVE  CeilTimeframe(x, t) \in Int /\ CeilTimeframe(x, t) >= x
BY HistoryAssumption DEF CeilTimeframe, FloorTime

-----------------------------------------------------------------------------
(* Sums over finite sets *)

\* Among the subsets of a finite set, the ones in a collection have a minimal one.
LEMMA MinimalSubset ==
  ASSUME NEW K, IsFiniteSet(K), NEW C, C \subseteq SUBSET K, C # {}
  PROVE  \E s \in C : \A r \in SUBSET s : r # s => r \notin C
<1>1. IsWellFoundedOn(StrictSubsetOrdering(K), SUBSET K)
  BY FS_StrictSubsetOrderingWellFounded, FS_FiniteSubsetsOfFinite
<1>2. PICK s \in C : \A r \in C : ~(<<r, s>> \in StrictSubsetOrdering(K))
  BY <1>1, WFMin
<1>3. ASSUME NEW r \in SUBSET s, r # s PROVE r \notin C
  <2>1. r \in SUBSET K /\ s \in SUBSET K
    OBVIOUS
  <2>2. <<r, s>> \in (SUBSET K) \X (SUBSET K) /\ <<r, s>>[1] = r /\ <<r, s>>[2] = s
    BY <2>1
  <2>3. <<r, s>> \in StrictSubsetOrdering(K)
    BY <1>3, <2>2 DEF StrictSubsetOrdering
  <2> QED
    BY <1>2, <2>3
<1> QED
  BY <1>3

\* The recursion MapThenSumSet stands for: a member of the set is chosen, and
\* the others are summed.
Chosen(s) == CHOOSE m \in s : TRUE
SumStep(K, base, g) ==
  g = [s \in SUBSET K |-> IF s = {} THEN 0
                          ELSE base[Chosen(s)].activity_count + g[s \ {Chosen(s)}]]

\* activity_count of an aggregate: the sum over the minutes in K.
Total(base, K) == MapThenSumSet(LAMBDA m : base[m].activity_count, K)

\* The sum is the solution of the recursion at the whole set.
LEMMA SumUnfolds ==
  ASSUME NEW K, NEW base
  PROVE  Total(base, K) = (CHOOSE g : SumStep(K, base, g))[K]
BY Zenon DEF Total, MapThenSumSet, MapThenFoldSet, SumStep, Chosen

\* What is chosen from a set belongs to it.
LEMMA ChosenInSet ==
  ASSUME NEW s, s # {}
  PROVE  Chosen(s) \in s
BY DEF Chosen

\* The recursion has one solution.
LEMMA SumUnique ==
  ASSUME NEW K, IsFiniteSet(K), NEW base, NEW g, SumStep(K, base, g), NEW h, SumStep(K, base, h)
  PROVE  g = h
<1> DEFINE differ == {s \in SUBSET K : g[s] # h[s]}
<1>1. ASSUME NEW s \in differ, \A r \in SUBSET s : r # s => r \notin differ
      PROVE  FALSE
  <2>1. s \in SUBSET K /\ g[s] # h[s]
    OBVIOUS
  <2>2. /\ g[s] = IF s = {} THEN 0 ELSE base[Chosen(s)].activity_count + g[s \ {Chosen(s)}]
        /\ h[s] = IF s = {} THEN 0 ELSE base[Chosen(s)].activity_count + h[s \ {Chosen(s)}]
    BY <2>1 DEF SumStep
  <2>3. s # {}
    BY <2>1, <2>2
  <2>4. Chosen(s) \in s
    BY <2>3, ChosenInSet
  <2>5. g[s \ {Chosen(s)}] = h[s \ {Chosen(s)}]
    BY <1>1, <2>4
  <2> QED
    BY <2>1, <2>2, <2>3, <2>5
<1>2. differ = {}
  <2>1. differ \subseteq SUBSET K
    OBVIOUS
  <2> HIDE DEF differ
  <2> QED
    BY <1>1, <2>1, MinimalSubset
<1>3. \A s \in SUBSET K : g[s] = h[s]
  BY <1>2
<1>4. g = [s \in SUBSET K |-> g[s]] /\ h = [s \in SUBSET K |-> h[s]]
  BY DEF SumStep
<1> QED
  BY <1>3, <1>4

\* The events of a minute among G.
OfMinute(G, m) == {e \in G : Minute(e) = m}

\* The counts of disjoint minutes add up to the count of all their events.
LEMMA SumOfCounts ==
  ASSUME NEW G \in SUBSET Events, NEW K, IsFiniteSet(K), NEW base,
         \A m \in K : base[m].activity_count = Cardinality(OfMinute(G, m))
  PROVE  Total(base, K) = Cardinality({e \in G : Minute(e) \in K})
<1> DEFINE of(s) == {e \in G : Minute(e) \in s}
           h == [s \in SUBSET K |-> Cardinality(of(s))]
<1>1. IsFiniteSet(G)
  BY ArchiveAssumption, FS_Subset
<1>2. ASSUME NEW s \in SUBSET K, s # {}
      PROVE  h[s] = base[Chosen(s)].activity_count + h[s \ {Chosen(s)}]
  <2> DEFINE m == Chosen(s)
  <2>1. m \in s
    BY <1>2, ChosenInSet
  <2> HIDE DEF m
  <2>2. of(s) = OfMinute(G, m) \cup of(s \ {m}) /\ OfMinute(G, m) \cap of(s \ {m}) = {}
    BY <2>1 DEF OfMinute
  <2>3. IsFiniteSet(OfMinute(G, m)) /\ IsFiniteSet(of(s \ {m}))
    BY <1>1, FS_Subset DEF OfMinute
  <2>4. Cardinality(of(s)) = Cardinality(OfMinute(G, m)) + Cardinality(of(s \ {m}))
    <3>1. /\ Cardinality(OfMinute(G, m)) \in Nat /\ Cardinality(of(s \ {m})) \in Nat
          /\ Cardinality(OfMinute(G, m) \cap of(s \ {m})) = 0
      BY <2>2, <2>3, FS_CardinalityType, FS_EmptySet
    <3>2. Cardinality(OfMinute(G, m) \cup of(s \ {m})) =
            Cardinality(OfMinute(G, m)) + Cardinality(of(s \ {m}))
              - Cardinality(OfMinute(G, m) \cap of(s \ {m}))
      BY <2>3, FS_Union
    <3> HIDE DEF of
    <3> QED
      BY <2>2, <3>1, <3>2
  <2>5. s \ {m} \in SUBSET K /\ m \in K
    BY <2>1
  <2> HIDE DEF of
  <2>6. h[s] = Cardinality(of(s)) /\ h[s \ {m}] = Cardinality(of(s \ {m}))
    BY <2>5
  <2> QED
    BY <2>4, <2>5, <2>6 DEF m
<1>3. h[{}] = 0
  <2>1. of({}) = {}
    OBVIOUS
  <2> QED
    BY <2>1, FS_EmptySet
<1>4. h = [s \in SUBSET K |-> h[s]]
  OBVIOUS
<1>5. h[K] = Cardinality(of(K))
  OBVIOUS
<1> HIDE DEF h
<1>6. SumStep(K, base, h)
  <2>1. [s \in SUBSET K |-> h[s]] =
          [s \in SUBSET K |-> IF s = {} THEN 0
                              ELSE base[Chosen(s)].activity_count + h[s \ {Chosen(s)}]]
    BY <1>2, <1>3
  <2> QED
    BY <1>4, <2>1 DEF SumStep
<1>7. SumStep(K, base, CHOOSE g : SumStep(K, base, g))
  BY <1>6, Zenon
<1>8. (CHOOSE g : SumStep(K, base, g)) = h
  <2> DEFINE c == CHOOSE g : SumStep(K, base, g)
  <2>1. SumStep(K, base, c)
    BY <1>7
  <2> HIDE DEF c
  <2>2. c = h
    BY <1>6, <2>1, SumUnique
  <2> QED
    BY <2>2 DEF c
<1> QED
  BY <1>5, <1>8, SumUnfolds

-----------------------------------------------------------------------------
(* Aggregation *)

\* A total transitive relation has a first element in every set of events.
LEMMA FirstExists ==
  ASSUME NEW S \in SUBSET Events, S # {}, NEW R,
         \A e, f \in Events : e # f => <<e, f>> \in R \/ <<f, e>> \in R,
         \A e, f, g \in Events : <<e, f>> \in R /\ <<f, g>> \in R => <<e, g>> \in R
  PROVE  \E e \in S : \A f \in S \ {e} : <<e, f>> \in R
<1> DEFINE HasFirst(s) == \E e \in s : \A f \in s \ {e} : <<e, f>> \in R
           bad == {s \in SUBSET Events : s # {} /\ ~HasFirst(s)}
<1>1. ASSUME NEW s \in bad, \A r \in SUBSET s : r # s => r \notin bad
      PROVE  FALSE
  <2>1. PICK x \in s : TRUE
    OBVIOUS
  <2>2. s \in SUBSET Events /\ ~HasFirst(s)
    OBVIOUS
  <2>3. s \ {x} \in SUBSET s /\ s \ {x} # s
    BY <2>1
  <2>4. s \ {x} \notin bad
    BY <1>1, <2>3, Zenon
  <2>5. CASE s \ {x} = {}
    BY <2>1, <2>2, <2>5
  <2>6. CASE s \ {x} # {}
    <3>1. PICK e \in s \ {x} : \A f \in (s \ {x}) \ {e} : <<e, f>> \in R
      BY <2>2, <2>6, <2>4
    <3>2. ~(\A f \in s \ {e} : <<e, f>> \in R)
      BY <2>2
    <3>3. <<e, x>> \notin R
      BY <3>1, <3>2
    <3>4. <<x, e>> \in R
      BY <2>1, <2>2, <3>3
    <3>5. \A f \in s \ {x} : <<x, f>> \in R
      BY <2>1, <2>2, <3>1, <3>4
    <3> QED
      BY <2>1, <2>2, <3>5
  <2> QED
    BY <2>5, <2>6
<1>2. bad = {}
  <2>1. bad \subseteq SUBSET Events /\ IsFiniteSet(Events)
    BY ArchiveAssumption
  <2> HIDE DEF bad
  <2> QED
    BY <1>1, <2>1, MinimalSubset
<1> QED
  BY <1>2

\* A set of events has a first one, ...
LEMMA FirstEventExists ==
  ASSUME NEW S \in SUBSET Events, S # {}
  PROVE  \E e \in S : \A f \in S \ {e} : Before(e, f)
<1> DEFINE R == {p \in Events \X Events : Before(p[1], p[2])}
<1>1. \A e, f \in Events : <<e, f>> \in R <=> Before(e, f)
  OBVIOUS
<1> HIDE DEF R
<1>2. /\ \A e, f \in Events : e # f => <<e, f>> \in R \/ <<f, e>> \in R
      /\ \A e, f, g \in Events : <<e, f>> \in R /\ <<f, g>> \in R => <<e, g>> \in R
  BY <1>1, BeforeTotal, BeforeTransitive
<1>3. \E e \in S : \A f \in S \ {e} : <<e, f>> \in R
  BY <1>2, FirstExists
<1> QED
  BY <1>1, <1>3

\* ... a last one, ...
LEMMA LastEventExists ==
  ASSUME NEW S \in SUBSET Events, S # {}
  PROVE  \E e \in S : \A f \in S \ {e} : Before(f, e)
<1> DEFINE R == {p \in Events \X Events : Before(p[2], p[1])}
<1>1. \A e, f \in Events : <<e, f>> \in R <=> Before(f, e)
  OBVIOUS
<1> HIDE DEF R
<1>2. /\ \A e, f \in Events : e # f => <<e, f>> \in R \/ <<f, e>> \in R
      /\ \A e, f, g \in Events : <<e, f>> \in R /\ <<f, g>> \in R => <<e, g>> \in R
  BY <1>1, BeforeTotal, BeforeTransitive
<1>3. \E e \in S : \A f \in S \ {e} : <<e, f>> \in R
  BY <1>2, FirstExists
<1> QED
  BY <1>1, <1>3

\* ... a cheapest ...
LEMMA CheapestExists ==
  ASSUME NEW S \in SUBSET Events, S # {}
  PROVE  \E e \in S : \A f \in S \ {e} : Price[e] <= Price[f]
<1> DEFINE R == {p \in Events \X Events : Price[p[1]] <= Price[p[2]]}
<1>1. \A e, f \in Events : <<e, f>> \in R <=> Price[e] <= Price[f]
  OBVIOUS
<1> HIDE DEF R
<1>2. /\ \A e, f \in Events : e # f => <<e, f>> \in R \/ <<f, e>> \in R
      /\ \A e, f, g \in Events : <<e, f>> \in R /\ <<f, g>> \in R => <<e, g>> \in R
  BY <1>1, ArchiveAssumption
<1>3. \E e \in S : \A f \in S \ {e} : <<e, f>> \in R
  BY <1>2, FirstExists
<1> QED
  BY <1>1, <1>3

\* ... and a dearest one.
LEMMA DearestExists ==
  ASSUME NEW S \in SUBSET Events, S # {}
  PROVE  \E e \in S : \A f \in S \ {e} : Price[f] <= Price[e]
<1> DEFINE R == {p \in Events \X Events : Price[p[2]] <= Price[p[1]]}
<1>1. \A e, f \in Events : <<e, f>> \in R <=> Price[f] <= Price[e]
  OBVIOUS
<1> HIDE DEF R
<1>2. /\ \A e, f \in Events : e # f => <<e, f>> \in R \/ <<f, e>> \in R
      /\ \A e, f, g \in Events : <<e, f>> \in R /\ <<f, g>> \in R => <<e, g>> \in R
  BY <1>1, ArchiveAssumption
<1>3. \E e \in S : \A f \in S \ {e} : <<e, f>> \in R
  BY <1>2, FirstExists
<1> QED
  BY <1>1, <1>3

\* Observed is the candle of a set of events.
LEMMA ObservedIsCandle ==
  ASSUME NEW S \in SUBSET Events, S # {}
  PROVE  IsCandleOf(Observed(S), S)
<1> DEFINE first == CHOOSE e \in S : \A f \in S \ {e} : Before(e, f)
           last == CHOOSE e \in S : \A f \in S \ {e} : Before(f, e)
           prices == {Price[e] : e \in S}
<1>1. \A e \in Events : Price[e] \in Nat
  BY ArchiveAssumption
<1>2. \E e \in S : \A f \in S \ {e} : Before(e, f)
  BY FirstEventExists
<1>3. \E e \in S : \A f \in S \ {e} : Before(f, e)
  BY LastEventExists
<1>4. prices \subseteq Nat
  BY <1>1
<1>5. PICK l \in S : \A f \in S \ {l} : Price[l] <= Price[f]
  BY CheapestExists
<1>6. PICK h \in S : \A f \in S \ {h} : Price[f] <= Price[h]
  BY DearestExists
<1>7. Price[l] \in prices /\ Price[h] \in prices
  OBVIOUS
<1>8. ASSUME NEW f \in S PROVE Price[l] <= Price[f] /\ Price[f] <= Price[h]
  <2>1. Price[l] <= Price[l] /\ Price[h] <= Price[h]
    BY <1>1
  <2> QED
    BY <1>5, <1>6, <2>1
<1>9. \A p \in prices : Price[l] <= p /\ p <= Price[h]
  BY <1>8
<1>10. first \in S /\ \A f \in S \ {first} : Before(first, f)
  BY <1>2
<1>11. last \in S /\ \A f \in S \ {last} : Before(f, last)
  BY <1>3
<1>12. Observed(S) = [open |-> Price[first], close |-> Price[last], high |-> Max(prices),
                      low |-> Min(prices), activity_count |-> Cardinality(S)]
  BY DEF Observed
<1> HIDE DEF first, last, prices
<1>13. Min(prices) = Price[l] /\ Max(prices) = Price[h]
  BY <1>4, <1>7, <1>9, MinIsLowerBound, MaxIsUpperBound
<1> QED
  BY <1>8, <1>10, <1>11, <1>12, <1>13 DEF IsCandleOf

\* The minutes of the events are finitely many naturals.
LEMMA MinutesFinite == IsFiniteSet(Minutes) /\ Minutes \subseteq Nat
<1>1. Minutes \subseteq Nat
  <2>1. ASSUME NEW e \in Events PROVE Minute(e) \in Nat
    <3>1. Time[e] \in Nat /\ MinuteTicks \in Nat \ {0}
      BY ArchiveAssumption
    <3> QED
      BY <3>1, FloorSplits DEF Minute
  <2> QED
    BY <2>1 DEF Minutes
<1>2. [e \in Events |-> Minute(e)] \in Surjection(Events, Minutes)
  BY DEF Surjection, Minutes
<1>3. IsFiniteSet(Minutes)
  BY <1>2, FS_Surjection, ArchiveAssumption
<1> QED
  BY <1>1, <1>3

\* base holds the minute candles of the events in G.
IsBase(base, G) ==
  /\ DOMAIN base = {Minute(e) : e \in G}
  /\ \A m \in DOMAIN base : IsCandleOf(base[m], OfMinute(G, m))

\* The minutes of a bucket are the minutes of its events.
LEMMA MinutesOfBucket ==
  ASSUME NEW G \in SUBSET Events, NEW base, DOMAIN base = {Minute(e) : e \in G},
         NEW t \in Timeframes, NEW b
  PROVE  /\ {m \in DOMAIN base : FloorTime(m, t) = b} = {Minute(e) : e \in In(G, b, t)}
         /\ \A e \in In(G, b, t) : OfMinute(G, Minute(e)) \subseteq In(G, b, t)
         /\ {e \in G : Minute(e) \in {Minute(f) : f \in In(G, b, t)}} = In(G, b, t)
<1>1. \A e \in Events : FloorTime(Minute(e), t) = FloorTime(Time[e], t)
  BY ArchiveAssumption, FloorOfMinute DEF Minute
<1> QED
  BY <1>1 DEF In, OfMinute

\* A candle of a minute opens with the first event of the bucket, if that is
\* an event of the minute.
LEMMA OpensWithFirst ==
  ASSUME NEW S \in SUBSET Events, NEW T \in SUBSET S, NEW c, IsCandleOf(c, T),
         NEW e \in T, \A f \in S \ {e} : Before(e, f)
  PROVE  c.open = Price[e]
<1>1. PICK x \in T : c.open = Price[x] /\ \A f \in T \ {x} : Before(x, f)
  BY DEF IsCandleOf
<1>2. x = e
  BY <1>1, BeforeTotal
<1> QED
  BY <1>1, <1>2

\* ... and closes with the last one.
LEMMA ClosesWithLast ==
  ASSUME NEW S \in SUBSET Events, NEW T \in SUBSET S, NEW c, IsCandleOf(c, T),
         NEW e \in T, \A f \in S \ {e} : Before(f, e)
  PROVE  c.close = Price[e]
<1>1. PICK x \in T : c.close = Price[x] /\ \A f \in T \ {x} : Before(f, x)
  BY DEF IsCandleOf
<1>2. x = e
  BY <1>1, BeforeTotal
<1> QED
  BY <1>1, <1>2

\* The first event of a set is one of its first minute.
LEMMA FirstMinute ==
  ASSUME NEW S \in SUBSET Events, NEW e \in S, \A f \in S \ {e} : Before(e, f)
  PROVE  Min({Minute(f) : f \in S}) = Minute(e)
<1>1. ASSUME NEW f \in S PROVE Minute(e) <= Minute(f)
  <2>1. Time[e] \in Nat /\ Time[f] \in Nat /\ Time[e] <= Time[f]
    BY ArchiveAssumption DEF Before, Precedes
  <2> QED
    BY <2>1, FloorMonotone, ArchiveAssumption DEF Minute
<1>2. {Minute(f) : f \in S} \subseteq Nat
  BY MinutesFinite DEF Minutes
<1> QED
  BY <1>1, <1>2, MinIsLowerBound

\* The last event of a set is one of its last minute.
LEMMA LastMinute ==
  ASSUME NEW S \in SUBSET Events, NEW e \in S, \A f \in S \ {e} : Before(f, e)
  PROVE  Max({Minute(f) : f \in S}) = Minute(e)
<1>1. ASSUME NEW f \in S PROVE Minute(f) <= Minute(e)
  <2>1. Time[e] \in Nat /\ Time[f] \in Nat /\ Time[f] <= Time[e]
    BY ArchiveAssumption DEF Before, Precedes
  <2> QED
    BY <2>1, FloorMonotone, ArchiveAssumption DEF Minute
<1>2. {Minute(f) : f \in S} \subseteq Nat
  BY MinutesFinite DEF Minutes
<1> QED
  BY <1>1, <1>2, MaxIsUpperBound

\* The aggregate of the minute candles of a bucket is the candle of its events.
LEMMA BucketExact ==
  ASSUME NEW G \in SUBSET Events, NEW base, IsBase(base, G), NEW t \in Timeframes, NEW end,
         NEW b, In(G, b, t) # {}, b >= WindowStart(t, end) /\ b + t <= end
  PROVE  /\ b \in DOMAIN Aggregate(base, t, end)
         /\ Aggregate(base, t, end)[b] = Observed(In(G, b, t))
<1> DEFINE S == In(G, b, t)
           of(x) == {m \in DOMAIN base : FloorTime(m, t) = x}
           buckets == {x \in {FloorTime(m, t) : m \in DOMAIN base} :
                         x >= WindowStart(t, end) /\ x + t <= end}
           candle(x) == [open |-> base[Min(of(x))].open, close |-> base[Max(of(x))].close,
                         high |-> Max({base[m].high : m \in of(x)}),
                         low |-> Min({base[m].low : m \in of(x)}),
                         activity_count |-> Total(base, of(x))]
<1>1. Aggregate(base, t, end) = [x \in buckets |-> candle(x)]
  BY Zenon DEF Aggregate, Total
<1>2. S \in SUBSET Events /\ S # {}
  BY DEF In
<1>3. DOMAIN base = {Minute(e) : e \in G}
  BY DEF IsBase
<1>4. /\ of(b) = {Minute(e) : e \in S}
      /\ \A e \in S : OfMinute(G, Minute(e)) \subseteq S
      /\ {e \in G : Minute(e) \in {Minute(f) : f \in S}} = S
  BY <1>3, MinutesOfBucket
<1>5. b \in buckets
  BY <1>2, <1>4
<1>6. Aggregate(base, t, end)[b] = candle(b)
  BY <1>1, <1>5
<1> DEFINE c == candle(b)
           K == of(b)
<1>7. ASSUME NEW e \in S
      PROVE  /\ Minute(e) \in K /\ e \in OfMinute(G, Minute(e))
             /\ IsCandleOf(base[Minute(e)], OfMinute(G, Minute(e)))
  <2>1. e \in G /\ Minute(e) \in K
    BY <1>4 DEF In
  <2> QED
    BY <2>1 DEF IsBase, OfMinute
<1>8. /\ c.open = base[Min(K)].open /\ c.close = base[Max(K)].close
      /\ c.high = Max({base[m].high : m \in K}) /\ c.low = Min({base[m].low : m \in K})
      /\ c.activity_count = Total(base, K)
      /\ OHLC(c) = c
  BY DEF OHLC
<1>9. IsFiniteSet(K)
  <2>1. K \subseteq Minutes
    BY <1>2, <1>4 DEF Minutes
  <2> QED
    BY <2>1, MinutesFinite, FS_Subset
<1>10. K \subseteq DOMAIN base
  OBVIOUS
<1> HIDE DEF c, K, S
<1>11. \E e \in S : c.open = Price[e] /\ \A f \in S \ {e} : Before(e, f)
  <2>1. PICK e \in S : \A f \in S \ {e} : Before(e, f)
    BY <1>2, FirstEventExists
  <2>2. Min(K) = Minute(e)
    BY <1>2, <1>4, <2>1, FirstMinute DEF K
  <2>3. /\ OfMinute(G, Minute(e)) \in SUBSET S /\ e \in OfMinute(G, Minute(e))
        /\ IsCandleOf(base[Minute(e)], OfMinute(G, Minute(e)))
    BY <1>4, <1>7
  <2>4. base[Minute(e)].open = Price[e]
    BY <1>2, <2>1, <2>3, OpensWithFirst
  <2> QED
    BY <1>8, <2>1, <2>2, <2>4
<1>12. \E e \in S : c.close = Price[e] /\ \A f \in S \ {e} : Before(f, e)
  <2>1. PICK e \in S : \A f \in S \ {e} : Before(f, e)
    BY <1>2, LastEventExists
  <2>2. Max(K) = Minute(e)
    BY <1>2, <1>4, <2>1, LastMinute DEF K
  <2>3. /\ OfMinute(G, Minute(e)) \in SUBSET S /\ e \in OfMinute(G, Minute(e))
        /\ IsCandleOf(base[Minute(e)], OfMinute(G, Minute(e)))
    BY <1>4, <1>7
  <2>4. base[Minute(e)].close = Price[e]
    BY <1>2, <2>1, <2>3, ClosesWithLast
  <2> QED
    BY <1>8, <2>1, <2>2, <2>4
<1>13. \A e \in Events : Price[e] \in Nat
  BY ArchiveAssumption
<1>14. ASSUME NEW m \in K
       PROVE  /\ \E e \in S : base[m].high = Price[e]
              /\ \E e \in S : base[m].low = Price[e]
  <2>1. PICK e \in S : m = Minute(e)
    BY <1>4 DEF K
  <2> QED
    BY <1>4, <1>7, <2>1 DEF IsCandleOf
<1>15. ASSUME NEW e \in S
       PROVE  base[Minute(e)].low <= Price[e] /\ Price[e] <= base[Minute(e)].high
  BY <1>7 DEF IsCandleOf
<1>16. PICK h \in S : c.high = Price[h] /\ \A e \in S : Price[e] <= Price[h]
  <2> DEFINE highs == {base[m].high : m \in K}
  <2>1. PICK h \in S : \A e \in S \ {h} : Price[e] <= Price[h]
    BY <1>2, DearestExists
  <2>2. \A e \in S : Price[e] <= Price[h]
    <3>1. Price[h] <= Price[h]
      BY <1>2, <1>13
    <3> QED
      BY <2>1, <3>1
  <2>3. highs \subseteq Nat /\ \A p \in highs : p <= Price[h]
    BY <1>2, <1>13, <1>14, <2>2
  <2>4. Price[h] \in highs
    <3>1. PICK e \in S : base[Minute(h)].high = Price[e]
      BY <1>7, <1>14
    <3>2. Price[e] <= Price[h] /\ Price[h] <= Price[e] /\ Price[e] \in Nat /\ Price[h] \in Nat
      BY <1>2, <1>13, <1>15, <2>2, <3>1
    <3>3. Price[e] = Price[h]
      BY <3>2
    <3> QED
      BY <1>7, <3>1, <3>3
  <2> HIDE DEF highs
  <2>5. Max(highs) = Price[h]
    BY <2>3, <2>4, MaxIsUpperBound
  <2> QED
    BY <1>8, <2>2, <2>5 DEF highs
<1>17. PICK l \in S : c.low = Price[l] /\ \A e \in S : Price[l] <= Price[e]
  <2> DEFINE lows == {base[m].low : m \in K}
  <2>1. PICK l \in S : \A e \in S \ {l} : Price[l] <= Price[e]
    BY <1>2, CheapestExists
  <2>2. \A e \in S : Price[l] <= Price[e]
    <3>1. Price[l] <= Price[l]
      BY <1>2, <1>13
    <3> QED
      BY <2>1, <3>1
  <2>3. lows \subseteq Nat /\ \A p \in lows : Price[l] <= p
    BY <1>2, <1>13, <1>14, <2>2
  <2>4. Price[l] \in lows
    <3>1. PICK e \in S : base[Minute(l)].low = Price[e]
      BY <1>7, <1>14
    <3>2. Price[l] <= Price[e] /\ Price[e] <= Price[l] /\ Price[e] \in Nat /\ Price[l] \in Nat
      BY <1>2, <1>13, <1>15, <2>2, <3>1
    <3>3. Price[e] = Price[l]
      BY <3>2
    <3> QED
      BY <1>7, <3>1, <3>3
  <2> HIDE DEF lows
  <2>5. Min(lows) = Price[l]
    BY <2>3, <2>4, MinIsLowerBound
  <2> QED
    BY <1>8, <2>2, <2>5 DEF lows
<1>18. c.activity_count = Cardinality(S)
  <2>1. \A m \in K : base[m].activity_count = Cardinality(OfMinute(G, m))
    BY <1>10 DEF IsBase, IsCandleOf
  <2>2. Total(base, K) = Cardinality({e \in G : Minute(e) \in K})
    BY <1>9, <2>1, SumOfCounts
  <2>3. {e \in G : Minute(e) \in K} = S
    BY <1>4 DEF K
  <2> QED
    BY <1>8, <2>2, <2>3
<1>19. IsCandleOf(c, S)
  BY <1>11, <1>12, <1>16, <1>17, <1>18 DEF IsCandleOf
<1>20. c = Observed(S)
  BY <1>2, <1>8, <1>19, CandleIsObserved
<1> QED
  BY <1>1, <1>5, <1>6, <1>20 DEF c, S

\* Aggregation is exact: from the minute candles of any set of quotes, it makes
\* for each of their closed buckets in the window, and for no other, the candle
\* of the quotes of the bucket (aggregate_base_candles, _SELECT_CANDLES).
THEOREM AggregateExact ==
  ASSUME NEW G \in SUBSET Events, NEW base, IsBase(base, G), NEW t \in Timeframes, NEW end
  PROVE  Aggregate(base, t, end) =
           [b \in {x \in {FloorTime(Time[e], t) : e \in G} :
                     x >= WindowStart(t, end) /\ x + t <= end} |-> Observed(In(G, b, t))]
<1> DEFINE Y == {x \in {FloorTime(m, t) : m \in DOMAIN base} :
                   x >= WindowStart(t, end) /\ x + t <= end}
           Z == {x \in {FloorTime(Time[e], t) : e \in G} :
                   x >= WindowStart(t, end) /\ x + t <= end}
           f == Aggregate(base, t, end)
<1>1. DOMAIN f = Y /\ f = [b \in Y |-> f[b]]
  BY DEF Aggregate
<1>2. Y = Z
  <2>1. \A e \in Events : FloorTime(Minute(e), t) = FloorTime(Time[e], t)
    BY ArchiveAssumption, FloorOfMinute DEF Minute
  <2>2. DOMAIN base = {Minute(e) : e \in G}
    BY DEF IsBase
  <2> QED
    BY <2>1, <2>2
<1>3. ASSUME NEW b \in Z PROVE f[b] = Observed(In(G, b, t))
  <2>1. In(G, b, t) # {} /\ b >= WindowStart(t, end) /\ b + t <= end
    BY DEF In
  <2> QED
    BY <2>1, BucketExact
<1> HIDE DEF Y, Z, f
<1>4. f = [b \in Z |-> Observed(In(G, b, t))]
  BY <1>1, <1>2, <1>3
<1> QED
  BY <1>4 DEF f, Z

-----------------------------------------------------------------------------
(* The history *)

\* The events of G whose hot minute candles have not expired.
Kept(G) == {e \in G : Alive(Minute(e))}

\* What the reader holds: the quotes that were cached when the request began
\* and are still kept are in the minutes of the index and in the candles read
\* from Redis, which are candles of quotes, and the candles of the archive are
\* those of the events that were recorded when it was read.
ReaderOK ==
  /\ reader = [end |-> reader.end, known |-> reader.known, index |-> reader.index,
               hot |-> reader.hot, archive |-> reader.archive, recorded |-> reader.recorded]
  /\ reader.known \subseteq hot
  /\ reader.index # Unread => {Minute(e) : e \in Kept(reader.known)} \subseteq reader.index
  /\ reader.hot \notin {Unread, Unavailable} =>
       \E G \in SUBSET Events : IsBase(reader.hot, G) /\ Kept(reader.known) \subseteq G
  /\ reader.archive \notin {Unread, Unavailable} =>
       reader.recorded \in SUBSET Events /\ IsBase(reader.archive, reader.recorded)

HistoryInv ==
  /\ hot \subseteq Events /\ now \in Nat
  /\ reader # NoReader => ReaderOK

\* Candles only expire.
LEMMA KeptShrinks ==
  ASSUME now \in Nat, now' \in {now, now + 1}, NEW G \in SUBSET Events
  PROVE  Kept(G)' \subseteq Kept(G)
<1>1. ASSUME NEW e \in G, Alive(Minute(e))' PROVE Alive(Minute(e))
  <2>1. Minute(e) \in Nat
    BY MinutesFinite DEF Minutes
  <2> QED
    BY <1>1, <2>1, ArchiveAssumption, HistoryAssumption DEF Alive
<1> QED
  BY <1>1 DEF Kept

\* The answers that a reader has stay true while time passes and quotes are
\* cached.
LEMMA ReaderKeeps ==
  ASSUME HistoryInv, reader # NoReader, reader' = reader,
         now' \in {now, now + 1}, hot \subseteq hot'
  PROVE  ReaderOK'
<1>1. reader.known \in SUBSET Events
  BY DEF HistoryInv, ReaderOK
<1>2. Kept(reader.known)' \subseteq Kept(reader.known)
  <2> DEFINE G == reader.known
  <2>1. Kept(G)' \subseteq Kept(G)
    BY <1>1, KeptShrinks DEF HistoryInv
  <2> QED
    BY <2>1
<1> QED
  BY <1>1, <1>2 DEF HistoryInv, ReaderOK

\* The hot candles of the minutes read are those of their quotes.
LEMMA HotIsBase ==
  ASSUME hot \subseteq Events, NEW keys \in SUBSET HotKeys
  PROVE  IsBase(HotMinutes(keys), {e \in hot : Minute(e) \in keys})
<1> DEFINE G == {e \in hot : Minute(e) \in keys}
<1>1. DOMAIN HotMinutes(keys) = keys
  BY DEF HotMinutes
<1>2. keys = {Minute(e) : e \in G}
  BY DEF HotKeys
<1>3. ASSUME NEW m \in keys
      PROVE  IsCandleOf(HotMinutes(keys)[m], OfMinute(G, m))
  <2>1. OfMinute(G, m) = {e \in hot : Minute(e) = m}
    BY DEF OfMinute
  <2>2. HotMinutes(keys)[m] = Observed(OfMinute(G, m))
    BY <2>1 DEF HotMinutes
  <2>3. OfMinute(G, m) \in SUBSET Events /\ OfMinute(G, m) # {}
    BY <2>1 DEF HotKeys
  <2> QED
    BY <2>2, <2>3, ObservedIsCandle
<1> QED
  BY <1>1, <1>2, <1>3 DEF IsBase

\* The rows are the minute candles of the recorded events.
LEMMA RowsAreBase ==
  ASSUME RowsOK, RowsAggregate
  PROVE  recorded \in SUBSET Events /\ IsBase(ArchivedMinutes, recorded)
<1>1. recorded \in SUBSET Events
  BY DEF RowsOK
<1>2. \A m \in Minutes : rows[m] # NoRow <=> RecordedIn(m) # {}
  BY NoRowAssumption DEF RowsAggregate
<1>3. DOMAIN ArchivedMinutes = {k \in Minutes : rows[k] # NoRow}
  BY DEF ArchivedMinutes
<1>4. DOMAIN ArchivedMinutes = {Minute(e) : e \in recorded}
  BY <1>1, <1>2, <1>3 DEF RecordedIn, Minutes
<1>5. ASSUME NEW m \in DOMAIN ArchivedMinutes
      PROVE  IsCandleOf(ArchivedMinutes[m], OfMinute(recorded, m))
  <2>1. m \in Minutes /\ ArchivedMinutes[m] = rows[m] /\ RecordedIn(m) # {}
    BY <1>2, <1>3 DEF ArchivedMinutes
  <2>2. IsRowOf(rows[m], RecordedIn(m))
    BY <2>1 DEF RowsAggregate
  <2>3. RecordedIn(m) = OfMinute(recorded, m)
    BY DEF RecordedIn, OfMinute
  <2> QED
    BY <2>1, <2>2, <2>3, RowIsCandle
<1> QED
  BY <1>1, <1>4, <1>5 DEF IsBase

\* The steps of the reader.
LEMMA ReadsKeep ==
  ASSUME HistoryInv, RowsOK, RowsAggregate,
         Request \/ ReadIndex \/ ReadHot \/ ReadArchive \/ LayerFails
  PROVE  HistoryInv'
<1> USE DEF HistoryInv
<1>1. CASE Request
  <2>1. /\ reader' = [end |-> now, known |-> hot, index |-> Unread, hot |-> Unread,
                      archive |-> Unread, recorded |-> {}]
        /\ now' = now /\ hot' = hot
    BY <1>1 DEF Request
  <2> QED
    BY <2>1 DEF ReaderOK
<1>2. CASE ReadIndex
  <2>1. reader # NoReader /\ ReaderOK
    BY <1>2 DEF ReadIndex
  <2>2. /\ reader' = [reader EXCEPT !.index = HotKeys] /\ now' = now /\ hot' = hot
    BY <1>2 DEF ReadIndex
  <2>3. /\ reader'.index = HotKeys
        /\ reader' = [end |-> reader.end, known |-> reader.known, index |-> HotKeys,
                      hot |-> reader.hot, archive |-> reader.archive,
                      recorded |-> reader.recorded]
    BY <2>1, <2>2 DEF ReaderOK
  <2>4. {Minute(e) : e \in Kept(reader.known)} \subseteq HotKeys
    BY <2>1 DEF Kept, HotKeys, ReaderOK, Minutes
  <2>5. Kept(reader.known)' = Kept(reader.known)
    BY <2>2, <2>3 DEF Kept, Alive
  <2> QED
    BY <2>1, <2>2, <2>3, <2>4, <2>5 DEF ReaderOK
<1>3. CASE ReadHot
  <2> DEFINE keys == reader.index \cap HotKeys
             G == {e \in hot : Minute(e) \in keys}
  <2>1. reader # NoReader /\ ReaderOK /\ reader.index # Unread
    BY <1>3 DEF ReadHot
  <2>2. /\ reader' = [reader EXCEPT !.hot = HotMinutes(keys)] /\ now' = now /\ hot' = hot
    BY <1>3 DEF ReadHot
  <2>3. /\ reader' = [end |-> reader.end, known |-> reader.known, index |-> reader.index,
                      hot |-> HotMinutes(keys), archive |-> reader.archive,
                      recorded |-> reader.recorded]
    BY <2>1, <2>2 DEF ReaderOK
  <2>4. IsBase(HotMinutes(keys), G) /\ G \in SUBSET Events
    BY HotIsBase
  <2>5. Kept(reader.known) \subseteq G
    BY <2>1 DEF Kept, HotKeys, ReaderOK, Minutes
  <2>6. Kept(reader.known)' = Kept(reader.known)
    BY <2>2, <2>3 DEF Kept, Alive
  <2> HIDE DEF G, keys
  <2> QED
    BY <2>1, <2>2, <2>3, <2>4, <2>5, <2>6 DEF ReaderOK
<1>4. CASE ReadArchive
  <2>1. reader # NoReader /\ ReaderOK
    BY <1>4 DEF ReadArchive
  <2>2. /\ reader' = [reader EXCEPT !.archive = ArchivedMinutes, !.recorded = recorded]
        /\ now' = now /\ hot' = hot
    BY <1>4 DEF ReadArchive
  <2>3. reader' = [end |-> reader.end, known |-> reader.known, index |-> reader.index,
                   hot |-> reader.hot, archive |-> ArchivedMinutes, recorded |-> recorded]
    BY <2>1, <2>2 DEF ReaderOK
  <2>4. recorded \in SUBSET Events /\ IsBase(ArchivedMinutes, recorded)
    BY RowsAreBase
  <2>5. Kept(reader.known)' = Kept(reader.known)
    BY <2>2, <2>3 DEF Kept, Alive
  <2> QED
    BY <2>1, <2>2, <2>3, <2>4, <2>5 DEF ReaderOK
<1>5. CASE LayerFails
  <2>1. reader # NoReader /\ ReaderOK
    BY <1>5 DEF LayerFails
  <2>2. now' = now /\ hot' = hot
    BY <1>5 DEF LayerFails
  <2>3. \/ reader' = [end |-> reader.end, known |-> reader.known, index |-> reader.index,
                      hot |-> Unavailable, archive |-> reader.archive,
                      recorded |-> reader.recorded]
        \/ reader' = [end |-> reader.end, known |-> reader.known, index |-> reader.index,
                      hot |-> reader.hot, archive |-> Unavailable,
                      recorded |-> reader.recorded]
    BY <1>5, <2>1 DEF LayerFails, ReaderOK
  <2>4. Kept(reader.known)' = Kept(reader.known)
    BY <2>2, <2>3 DEF Kept, Alive
  <2> QED
    BY <2>1, <2>2, <2>3, <2>4 DEF ReaderOK
<1> QED
  BY <1>1, <1>2, <1>3, <1>4, <1>5

\* Every step keeps the invariant.
LEMMA HistoryStepKeeps ==
  ASSUME HistoryInv, RowsOK, RowsAggregate, [Next]_vars
  PROVE  HistoryInv'
<1>1. CASE Request \/ ReadIndex \/ ReadHot \/ ReadArchive \/ LayerFails
  BY <1>1, ReadsKeep
<1>2. CASE /\ reader' = reader /\ now' \in {now, now + 1}
           /\ hot \subseteq hot' /\ hot' \subseteq Events
  BY <1>2, ReaderKeeps DEF HistoryInv
<1>3. \/ Request \/ ReadIndex \/ ReadHot \/ ReadArchive \/ LayerFails
      \/ /\ reader' = reader /\ now' \in {now, now + 1}
         /\ hot \subseteq hot' /\ hot' \subseteq Events
  BY DEF HistoryInv, Next, Publish, CacheQuote, Tick, ArchiveStep, vars
<1> QED
  BY <1>1, <1>2, <1>3

\* The series serves the bucket with the quotes in S, and nothing but quotes.
Serves(series, b, t, S) ==
  b \in DOMAIN series /\ \E more \in SUBSET In(Events, b, t) : series[b] = Observed(S \cup more)

\* A layer that knows the quotes of a bucket serves its candle.
LEMMA LayerServes ==
  ASSUME NEW G \in SUBSET Events, NEW base, IsBase(base, G), NEW t \in Timeframes, NEW end,
         NEW b, NEW S, S # {}, S \subseteq In(G, b, t),
         b >= WindowStart(t, end) /\ b + t <= end
  PROVE  Serves(Aggregate(base, t, end), b, t, S)
<1>1. In(G, b, t) # {} /\ In(G, b, t) \in SUBSET In(Events, b, t)
  BY DEF In
<1>2. S \cup In(G, b, t) = In(G, b, t)
  OBVIOUS
<1>3. /\ b \in DOMAIN Aggregate(base, t, end)
      /\ Aggregate(base, t, end)[b] = Observed(In(G, b, t))
  BY <1>1, BucketExact
<1> QED
  BY <1>1, <1>2, <1>3 DEF Serves

\* A bucket inside the hot retention has all its candles.
LEMMA RetainedIsKept ==
  ASSUME HistoryInv, NEW S \in SUBSET Events, NEW t \in Timeframes, NEW b,
         b >= CeilTimeframe(now - Retention, t)
  PROVE  In(S, b, t) \subseteq Kept(S)
<1> SUFFICES ASSUME NEW e \in In(S, b, t) PROVE Alive(Minute(e))
  BY DEF Kept, In
<1>1. /\ Time[e] \in Nat /\ Minute(e) \in Nat /\ b = FloorTime(Time[e], t)
      /\ t \in Nat \ {0} /\ MinuteTicks \in Nat \ {0} /\ Retention \in Nat /\ now \in Nat
  BY MinutesFinite, ArchiveAssumption, HistoryAssumption DEF In, Minutes, HistoryInv
<1>2. b = FloorTime(Minute(e), t)
  BY <1>1, FloorOfMinute DEF Minute
<1>3. b \in Nat /\ b <= Minute(e)
  <2> DEFINE m == Minute(e)
  <2> HIDE DEF m
  <2>1. m \in Nat /\ b = FloorTime(m, t)
    BY <1>1, <1>2 DEF m
  <2>2. b \in Nat /\ m = b + (m % t) /\ m % t \in 0..t-1
    BY <1>1, <2>1, FloorSplits
  <2>3. b <= m
    BY <1>1, <2>1, <2>2
  <2> QED
    BY <2>2, <2>3 DEF m
<1>4. /\ CeilTimeframe(now - Retention, t) \in Int
      /\ CeilTimeframe(now - Retention, t) >= now - Retention
  BY <1>1, CeilRoundsUp
<1>5. Minute(e) >= now - Retention
  BY <1>1, <1>3, <1>4
<1> QED
  BY <1>1, <1>5 DEF Alive

\* The overlay takes a bucket from a layer that serves it.
LEMMA InvImpliesExact ==
  ASSUME HistoryInv
  PROVE  HistoryExact
<1> SUFFICES ASSUME reader # NoReader, Unread \notin {reader.hot, reader.archive},
                    NEW t \in Timeframes, NEW b \in {FloorTime(Time[e], t) : e \in reader.known},
                    b >= WindowStart(t, reader.end), b + t <= reader.end,
                    \/ reader.hot # Unavailable /\ b >= CeilTimeframe(now - Retention, t)
                    \/ /\ reader.archive # Unavailable
                       /\ In(reader.known, b, t) \subseteq reader.recorded
             PROVE  Serves(Response(t), b, t, In(reader.known, b, t))
  BY DEF HistoryExact, Serves
<1> DEFINE S == In(reader.known, b, t)
           H == Aggregate(reader.hot, t, reader.end)
           A == Aggregate(reader.archive, t, reader.end)
           retained == b >= CeilTimeframe(now - Retention, t)
           archived == S \subseteq reader.recorded
<1>1. ReaderOK /\ reader.known \in SUBSET Events
  BY DEF HistoryInv, ReaderOK
<1>2. S # {}
  BY DEF In
<1>3. ASSUME reader.hot # Unavailable, retained PROVE Serves(H, b, t, S)
  <2>1. PICK G \in SUBSET Events : IsBase(reader.hot, G) /\ Kept(reader.known) \subseteq G
    BY <1>1, <1>3 DEF ReaderOK
  <2>2. S \subseteq In(G, b, t)
    <3>1. S \subseteq G
      BY <1>1, <1>3, <2>1, RetainedIsKept
    <3> QED
      BY <3>1 DEF In
  <2> HIDE DEF S
  <2> QED
    BY <1>2, <2>1, <2>2, LayerServes
<1>4. ASSUME reader.archive # Unavailable, archived PROVE Serves(A, b, t, S)
  <2>1. reader.recorded \in SUBSET Events /\ IsBase(reader.archive, reader.recorded)
    BY <1>1, <1>4 DEF ReaderOK
  <2>2. S \subseteq In(reader.recorded, b, t)
    BY <1>4 DEF In
  <2> HIDE DEF S
  <2> QED
    BY <1>2, <2>1, <2>2, LayerServes
<1>5. \/ reader.hot # Unavailable /\ retained
      \/ reader.archive # Unavailable /\ archived
  OBVIOUS
<1>6. Response(t) = CASE reader.archive = Unavailable -> H
                      [] reader.hot = Unavailable -> A
                      [] OTHER -> Overlay(H, A, t)
  BY DEF Response
<1> HIDE DEF H, A, S, retained, archived
<1>7. CASE reader.archive = Unavailable
  <2>1. reader.hot # Unavailable /\ retained
    BY <1>5, <1>7
  <2>2. Response(t) = H
    BY <1>6, <1>7, <2>1
  <2> QED
    BY <1>3, <2>1, <2>2 DEF S
<1>8. CASE reader.archive # Unavailable /\ reader.hot = Unavailable
  <2>1. Response(t) = A
    BY <1>6, <1>8
  <2> QED
    BY <1>4, <1>5, <1>8, <2>1 DEF S
<1>9. CASE reader.archive # Unavailable /\ reader.hot # Unavailable
  <2>1. Response(t) = Overlay(H, A, t)
    BY <1>6, <1>9
  <2> DEFINE wins(x) == /\ x \in DOMAIN H
                        /\ x >= CeilTimeframe(now - Retention, t) \/ x \notin DOMAIN A
  <2>2. Overlay(H, A, t) = [x \in DOMAIN H \cup DOMAIN A |-> IF wins(x) THEN H[x] ELSE A[x]]
    BY DEF Overlay
  <2>3. CASE retained
    <3>1. Serves(H, b, t, S)
      BY <1>3, <1>9, <2>3
    <3>2. wins(b)
      BY <2>3, <3>1 DEF retained, Serves
    <3>3. b \in DOMAIN Response(t) /\ Response(t)[b] = H[b]
      BY <2>1, <2>2, <3>2
    <3> QED
      BY <3>1, <3>3 DEF S, Serves
  <2>4. CASE ~retained
    <3>1. Serves(A, b, t, S)
      BY <1>4, <1>5, <1>9, <2>4
    <3>2. ~wins(b)
      BY <2>4, <3>1 DEF retained, Serves
    <3>3. b \in DOMAIN Response(t) /\ Response(t)[b] = A[b]
      BY <2>1, <2>2, <3>1, <3>2 DEF Serves
    <3> QED
      BY <3>1, <3>3 DEF S, Serves
  <2> QED
    BY <2>3, <2>4
<1> QED
  BY <1>7, <1>8, <1>9

\* The history served is exact, for any prices, retention, timeframes and number
\* of quotes, workers and faults: a closed bucket inside the hot retention, or
\* one that the archive has caught up with, is answered with the candle of all
\* its quotes that were cached when the request began, whatever expires, is
\* cached or is archived between the reads (HybridCandleHistoryStore.get_candles).
THEOREM HistoryIsExact == Spec => []HistoryExact
<1>1. Spec => []ArchiveInv
  BY InitEstablishes, StepKeeps, PTL DEF Spec
<1>2. Init => RowsOK /\ RowsAggregate /\ HistoryInv
  BY InitMerges, HistoryAssumption DEF Init, ArchiveInit, RowsAggregate, RecordedIn, HistoryInv
<1>3. ArchiveInv /\ RowsOK /\ RowsAggregate /\ HistoryInv /\ [Next]_vars
        => RowsOK' /\ RowsAggregate' /\ HistoryInv'
  BY StepMerges, StepAggregates, HistoryStepKeeps
<1>4. HistoryInv => HistoryExact
  BY InvImpliesExact
<1> QED
  BY <1>1, <1>2, <1>3, <1>4, PTL DEF Spec
=============================================================================
