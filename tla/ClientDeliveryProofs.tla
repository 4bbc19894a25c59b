------------------------ MODULE ClientDeliveryProofs ------------------------
(***************************************************************************)
(* Proofs of the safety of the client delivery, for any number of          *)
(* processors, connections, symbols, quotes, commands and faults and any   *)
(* buffer size.                                                            *)
(***************************************************************************)
EXTENDS ClientDelivery, SequenceTheorems, WellFoundedInduction, TLAPS

-----------------------------------------------------------------------------
(* The inductive invariant *)

\* The listener does not run ahead of the channel, and a processor that has
\* cached a quote still holds it.
FeedOK ==
  /\ heard <= Len(published)
  /\ \A p \in cached : hand[p] # <<>>

\* What the stage of a handler says about its session and its command.
HandlerOK ==
  \A c \in Connections :
    /\ pc[c] \in {"new", "admitted"} => subs[c] = {} /\ registered[c] = {}
    /\ pc[c] = "new" => c \notin sessions \cup slots
    /\ pc[c] \in Receiving \cup {"admitted", "disconnect"} => c \in sessions
    /\ pc[c] = "snapshot" => todo[c] # {}
    /\ pc[c] = "snapsend" => snapshot[c] # NoQuote
    /\ pc[c] = "unregister" => subs[c] \cap todo[c] = {}
    /\ pc[c] = "release" => c \notin sessions
    /\ pc[c] = "refused" => c \notin sessions \cup slots
    /\ pc[c] \in {"release", "gone"} /\ faults = 0 => registered[c] = {}

HubInv == HandlerOK /\ HubIndexExact /\ DeliveredIsRegistered /\ EndedLeavesNothing

\* c was sent the live quote of s at n.
Sent(c, s, n) ==
  \E i \in DOMAIN log[c] :
    log[c][i].type = "quote" /\ log[c][i].symbol = s /\ log[c][i].turn = n

\* What a client was sent of a symbol precedes what the send loop holds of it,
\* which precedes what is in the buffer; the listener has taken all of it.
QueueOK ==
  \A c \in Connections, s \in Symbols :
    /\ buffer[c][s] <= heard
    /\ sending[c].symbol = s =>
         /\ sending[c].turn \in 1..heard
         /\ buffer[c][s] # 0 => sending[c].turn < buffer[c][s]
    /\ \A n \in Nat : Sent(c, s, n) =>
         /\ n <= heard
         /\ buffer[c][s] # 0 => n < buffer[c][s]
         /\ sending[c].symbol = s => n < sending[c].turn

OrderInv == FeedOK /\ QueueOK /\ LiveInOrder

\* The quote at n is on its way to c, or c was sent it.
Underway(c, s, n) ==
  \/ heard < n
  \/ buffer[c][s] = n
  \/ sending[c].symbol = s /\ sending[c].turn = n
  \/ Sent(c, s, n)

\* A processor is about to publish a quote of s.
Publishing(s) == \E p \in cached : Head(hand[p]).symbol = s

\* The quote of s that was published last is on its way to c or c has it.
LastUnderway(c, s) ==
  \E n \in DOMAIN published :
    published[n].symbol = s /\ LastPublished(s, n) /\ Underway(c, s, n)

\* The cached quote is the snapshot of s that c is sent or was sent.
SnapshotTaken(c, s) ==
  \/ pc[c] = "snapsend" /\ snapshot[c].symbol = s /\ snapshot[c].number = latest[s]
  \/ \E i \in DOMAIN log[c] : log[c][i].symbol = s /\ log[c][i].number = latest[s]

\* c has or gets the cached quote of s or the one published last.
Carried(c, s) ==
  latest[s] = 0 \/ Publishing(s) \/ LastUnderway(c, s) \/ SnapshotTaken(c, s)

\* The snapshot of s has still to be read for c.
Unread(c, s) ==
  s \in todo[c] /\ (pc[c] = "snapshot" \/ (pc[c] = "snapsend" /\ snapshot[c].symbol # s))

\* As long as nothing was dropped and no call has failed, every subscribed
\* symbol whose snapshot was read is carried.
CarriedOK ==
  faults = 0 => \A c \in Connections : \A s \in subs[c] :
    pc[c] \in Receiving /\ dropped[c] = 0 => Carried(c, s) \/ Unread(c, s)

DeliveryInv == TypeOK /\ HubInv /\ OrderInv /\ CarriedOK

\* The steps of the processors and of the listener.
ProcessorStep(p) ==
  \/ \E n \in 1..MaxQuotes : \E symbols \in [1..n -> Symbols] : ReadBatch(p, symbols)
  \/ CacheQuote(p) \/ PublishFanout(p)

FeedStep == (\E p \in Processors : ProcessorStep(p)) \/ Fanout \/ ListenerFails

\* The steps of the tasks of one connection, and of its lease.
ConnectionStep(c) ==
  \/ Acquire(c) \/ AcceptFails(c)
  \/ \E symbols \in SUBSET Symbols : Subscribe(c, symbols) \/ Unsubscribe(c, symbols)
  \/ HandlerStep(c) \/ SenderStep(c)
  \/ LeaseLapses(c) \/ Leave(c) \/ CommandFails(c) \/ FinallyFails(c)

-----------------------------------------------------------------------------
(* Lemmas about the operators *)

\* The first symbol of a non-empty set, which get_due and the snapshot loop
\* take, belongs to it.
LEMMA FirstInSet ==
  ASSUME NEW ss, ss \subseteq Symbols, ss # {}
  PROVE  First(ss) \in ss
<1> DEFINE ranks == {Rank[s] : s \in ss}
<1>0. ranks \subseteq Nat /\ ranks # {}
  BY DeliveryAssumption
<1> HIDE DEF ranks
<1>1. PICK x \in ranks : \A y \in ranks : ~(<<y, x>> \in OpToRel(<, Nat))
  BY <1>0, NatLessThanWellFounded, WFMin
<1>2. ASSUME NEW y \in ranks PROVE x <= y
  <2>1. x \in Nat /\ y \in Nat
    BY <1>0
  <2>2. ~(<<y, x>> \in OpToRel(<, Nat))
    BY <1>1
  <2>3. ~(y < x)
    BY <2>1, <2>2, Zenon DEF OpToRel
  <2> HIDE <1>1
  <2>4. QED
    BY <2>1, <2>3
<1>3. PICK s \in ss : Rank[s] = x
  BY DEF ranks
<1>4. \A t \in ss : Rank[s] <= Rank[t]
  BY <1>2, <1>3 DEF ranks
<1>5. QED
  BY <1>4 DEF First

\* put stores the new quote and changes no other symbol, unless it drops the
\* quote of one.
LEMMA PutStores ==
  ASSUME NEW events \in [Symbols -> Nat], NEW n \in Nat, NEW s \in Symbols,
         s = published[n].symbol
  PROVE  /\ Put(events, n) \in [Symbols -> Nat]
         /\ Put(events, n)[s] = n
         /\ \A t \in Symbols \ {s} :
              /\ Put(events, n)[t] \in {0, events[t]}
              /\ ~Overflows(events, s) => Put(events, n)[t] = events[t]
<1>1. CASE Overflows(events, s)
  <2>1. PICK o : Put(events, n) = [events EXCEPT ![o] = 0, ![s] = n]
    BY <1>1 DEF Put
  <2>2. QED
    BY <1>1, <2>1
<1>2. CASE ~Overflows(events, s)
  <2>1. Put(events, n) = [events EXCEPT ![s] = n]
    BY <1>2 DEF Put
  <2>2. QED
    BY <2>1
<1>3. QED
  BY <1>1, <1>2

\* The messages of the protocol are well typed.
LEMMA MessageType ==
  /\ Ack \in Message
  /\ \A q \in QuoteRecord \cup {NoQuote} : Snapshot(q) \in Message
  /\ \A q \in TurnRecord : TypeOK /\ q.turn \in DOMAIN published => Live(q) \in Message
<1>1. Ack \in Message
  BY DeliveryAssumption DEF Ack, Message
<1>2. ASSUME NEW q \in QuoteRecord \cup {NoQuote}
      PROVE  Snapshot(q) \in Message
  <2>1. q.symbol \in Symbols \cup {NoSymbol} /\ q.number \in 0..MaxQuotes
    BY DeliveryAssumption DEF QuoteRecord, NoQuote
  <2>2. QED
    BY <2>1 DEF Snapshot, Message
<1>3. ASSUME NEW q \in TurnRecord, TypeOK, q.turn \in DOMAIN published
      PROVE  Live(q) \in Message
  <2>1. q.symbol \in Symbols /\ q.turn \in Nat
    BY DEF TurnRecord
  <2>2. published[q.turn] \in QuoteRecord
    BY <1>3 DEF TypeOK
  <2>3. published[q.turn].number \in 0..MaxQuotes
    BY <2>2, DeliveryAssumption DEF QuoteRecord
  <2>4. QED
    BY <2>1, <2>3 DEF Live, Message
<1>4. QED
  BY <1>1, <1>2, <1>3

\* The listener takes the next message of the channel.
LEMMA FanoutTakes ==
  ASSUME TypeOK, Fanout
  PROVE  /\ heard \in Nat /\ Len(published) \in Nat /\ heard + 1 <= Len(published)
         /\ heard' = heard + 1 /\ heard + 1 \in DOMAIN published
         /\ published[heard + 1] \in QuoteRecord /\ published[heard + 1].symbol \in Symbols
<1>1. heard \in Nat /\ published \in Seq(QuoteRecord) /\ Len(published) \in Nat
  BY DEF TypeOK
<1>2. heard < Len(published) /\ heard' = heard + 1
  BY DEF Fanout
<1>3. heard + 1 \in DOMAIN published /\ heard + 1 <= Len(published)
  BY <1>1, <1>2
<1>4. published[heard + 1] \in QuoteRecord
  BY <1>1, <1>3
<1>5. published[heard + 1].symbol \in Symbols
  BY <1>4 DEF QuoteRecord
<1>6. QED
  BY <1>1, <1>2, <1>3, <1>4, <1>5

\* It hands the message to the sessions that the hub lists.
LEMMA FanoutHands ==
  ASSUME TypeOK, Fanout, NEW c \in Connections
  PROVE  /\ c \notin Targets(published[heard + 1].symbol) =>
              buffer'[c] = buffer[c] /\ dropped'[c] = dropped[c]
         /\ c \in Targets(published[heard + 1].symbol) =>
              /\ buffer'[c] = Put(buffer[c], heard + 1)
              /\ dropped'[c] \in {dropped[c], dropped[c] + 1}
              /\ Overflows(buffer[c], published[heard + 1].symbol) =>
                   dropped'[c] = dropped[c] + 1
BY DEF Fanout

\* Publishing appends the quote that the processor has cached.
LEMMA PublishAppends ==
  ASSUME TypeOK, FeedOK, NEW p \in Processors, PublishFanout(p)
  PROVE  /\ Head(hand[p]) \in QuoteRecord
         /\ Len(published) \in Nat /\ DOMAIN published = 1..Len(published)
         /\ published' \in Seq(QuoteRecord) /\ Len(published') = Len(published) + 1
         /\ DOMAIN published' = 1..Len(published) + 1
         /\ \A k \in DOMAIN published : published'[k] = published[k]
         /\ published'[Len(published) + 1] = Head(hand[p])
         /\ hand' = [hand EXCEPT ![p] = Tail(hand[p])] /\ Tail(hand[p]) \in Seq(QuoteRecord)
         /\ cached' = cached \ {p} /\ p \in cached
<1>1. /\ p \in cached /\ published' = Append(published, Head(hand[p]))
      /\ hand' = [hand EXCEPT ![p] = Tail(hand[p])] /\ cached' = cached \ {p}
  BY DEF PublishFanout
<1>2. published \in Seq(QuoteRecord) /\ hand[p] \in Seq(QuoteRecord)
  BY DEF TypeOK
<1>3. hand[p] # <<>>
  BY <1>1 DEF FeedOK
<1>4. Head(hand[p]) \in QuoteRecord /\ Tail(hand[p]) \in Seq(QuoteRecord)
  BY <1>2, <1>3
<1>5. QED
  BY <1>1, <1>2, <1>4

-----------------------------------------------------------------------------
(* Every step preserves the type invariant *)

\* The processors and the fanout are well typed.
LEMMA FeedType ==
  ASSUME TypeOK, FeedOK, FeedStep
  PROVE  TypeOK'
<1> USE DeliveryAssumption
<1>1. ASSUME NEW p \in Processors, NEW n \in 1..MaxQuotes, NEW symbols \in [1..n -> Symbols],
             ReadBatch(p, symbols)
      PROVE  TypeOK'
  <2>1. symbols \in Seq(Symbols) /\ Len(symbols) = n
    OBVIOUS
  <2>2. quotes \in 0..MaxQuotes /\ quotes + n <= MaxQuotes /\ quotes' = quotes + n
    BY <1>1, <2>1 DEF ReadBatch, TypeOK
  <2>3. quotes' \in 0..MaxQuotes
    BY <2>2
  <2> DEFINE batch == [i \in 1..Len(symbols) |-> [symbol |-> symbols[i], number |-> quotes + i]]
  <2>4. \A i \in 1..n : [symbol |-> symbols[i], number |-> quotes + i] \in QuoteRecord
    BY <2>1, <2>2 DEF QuoteRecord
  <2>5. batch \in Seq(QuoteRecord)
    BY <2>1, <2>4
  <2> HIDE DEF batch
  <2>6. hand' = [hand EXCEPT ![p] = batch]
    BY <1>1 DEF ReadBatch, batch
  <2>7. hand' \in [Processors -> Seq(QuoteRecord)]
    BY <2>5, <2>6 DEF TypeOK
  <2>8. QED
    BY <1>1, <2>3, <2>7 DEF ReadBatch, TypeOK, hubVars, sendVars, leaseVars
<1>2. ASSUME NEW p \in Processors, CacheQuote(p) PROVE TypeOK'
  <2>1. hand[p] # <<>> /\ hand[p] \in Seq(QuoteRecord)
    BY <1>2 DEF CacheQuote, TypeOK
  <2>2. Head(hand[p]) \in QuoteRecord
    BY <2>1
  <2>3. latest' \in [Symbols -> 0..MaxQuotes]
    BY <1>2, <2>2 DEF CacheQuote, TypeOK, QuoteRecord
  <2>4. QED
    BY <1>2, <2>3 DEF CacheQuote, TypeOK, hubVars, sendVars, leaseVars
<1>3. ASSUME NEW p \in Processors, PublishFanout(p) PROVE TypeOK'
  <2>1. published' \in Seq(QuoteRecord) /\ hand' \in [Processors -> Seq(QuoteRecord)]
    <3>1. /\ published' \in Seq(QuoteRecord) /\ Tail(hand[p]) \in Seq(QuoteRecord)
          /\ hand' = [hand EXCEPT ![p] = Tail(hand[p])]
      BY <1>3, PublishAppends
    <3>2. QED
      BY <3>1 DEF TypeOK
  <2>2. QED
    BY <1>3, <2>1 DEF PublishFanout, TypeOK, hubVars, sendVars, leaseVars
<1>4. CASE Fanout
  <2>1. heard \in Nat /\ published[heard + 1].symbol \in Symbols /\ heard' = heard + 1
    BY <1>4, FanoutTakes
  <2>2. ASSUME NEW c \in Connections
        PROVE  buffer'[c] \in [Symbols -> Nat] /\ dropped'[c] \in Nat
    <3>1. buffer[c] \in [Symbols -> Nat] /\ dropped[c] \in Nat
      BY DEF TypeOK
    <3>2. heard + 1 \in Nat
      BY <2>1
    <3>3. Put(buffer[c], heard + 1) \in [Symbols -> Nat]
      BY <2>1, <3>1, <3>2, PutStores
    <3>4. /\ buffer'[c] \in {buffer[c], Put(buffer[c], heard + 1)}
          /\ dropped'[c] \in {dropped[c], dropped[c] + 1}
      BY <1>4, FanoutHands
    <3>5. QED
      BY <3>1, <3>3, <3>4
  <2>3. buffer' \in [Connections -> [Symbols -> Nat]] /\ dropped' \in [Connections -> Nat]
    <3>1. buffer' = [c \in Connections |-> buffer'[c]]
      BY <1>4 DEF Fanout
    <3>2. dropped' = [c \in Connections |-> dropped'[c]]
      BY <1>4 DEF Fanout
    <3>3. QED
      BY <2>2, <3>1, <3>2
  <2>4. QED
    BY <1>4, <2>1, <2>3 DEF Fanout, TypeOK, hubVars, sendVars, leaseVars
<1>5. CASE ListenerFails
  <2>1. heard' \in Nat /\ faults' \in Nat
    BY <1>5 DEF ListenerFails, TypeOK
  <2>2. QED
    BY <1>5, <2>1 DEF ListenerFails, TypeOK, hubVars, sendVars, leaseVars
<1>6. QED
  BY <1>1, <1>2, <1>3, <1>4, <1>5 DEF FeedStep, ProcessorStep

\* The handlers and the send loops are well typed.
LEMMA ConnectionType ==
  ASSUME TypeOK, HandlerOK, OrderInv, NEW c \in Connections, ConnectionStep(c)
  PROVE  TypeOK'
<1> USE DeliveryAssumption DEF Stages, Receiving, leaseVars
<1>0. CASE Acquire(c)
  <2>1. pc' \in [Connections -> Stages]
    BY <1>0 DEF Acquire, TypeOK
  <2>2. slots' \subseteq Connections \cup Elsewhere /\ sessions' \subseteq Connections
    BY <1>0 DEF Acquire, TypeOK
  <2>3. QED
    BY <1>0, <2>1, <2>2 DEF Acquire, TypeOK, feedVars, sendVars
<1>1. CASE Accept(c)
  BY <1>1 DEF Accept, TypeOK, feedVars, hubVars
<1>2. CASE AcceptFails(c)
  <2>1. faults' \in Nat
    BY <1>2 DEF AcceptFails, TypeOK
  <2>2. QED
    BY <1>2, <2>1 DEF AcceptFails, TypeOK, feedVars, hubVars, sendVars
<1>3. ASSUME NEW symbols \in SUBSET Symbols, Subscribe(c, symbols) PROVE TypeOK'
  <2>1. commands' \in [Connections -> 0..MaxCommands]
    BY <1>3 DEF Subscribe, TypeOK
  <2>2. QED
    BY <1>3, <2>1 DEF Subscribe, TypeOK, feedVars, hubVars, sendVars
<1>4. ASSUME NEW symbols \in SUBSET Symbols, Unsubscribe(c, symbols) PROVE TypeOK'
  <2>1. commands' \in [Connections -> 0..MaxCommands]
    BY <1>4 DEF Unsubscribe, TypeOK
  <2>2. /\ subs' \in [Connections -> SUBSET Symbols]
        /\ index' \in [Symbols -> SUBSET Connections]
        /\ todo' \in [Connections -> SUBSET Symbols]
    BY <1>4 DEF Unsubscribe, TypeOK
  <2>3. QED
    BY <1>4, <2>1, <2>2 DEF Unsubscribe, TypeOK, feedVars, hubVars, sendVars
<1>5. CASE HubSubscribe(c)
  <2>1. /\ subs' \in [Connections -> SUBSET Symbols]
        /\ index' \in [Symbols -> SUBSET Connections]
        /\ todo' \in [Connections -> SUBSET Symbols]
        /\ registered' \in [Connections -> SUBSET Symbols]
    BY <1>5 DEF HubSubscribe, TypeOK
  <2>2. QED
    BY <1>5, <2>1 DEF HubSubscribe, TypeOK, feedVars, hubVars, sendVars
<1>6. CASE GetLatest(c)
  <2>1. First(todo[c]) \in todo[c] /\ First(todo[c]) \in Symbols
    BY <1>6, FirstInSet DEF GetLatest, HandlerOK, TypeOK
  <2>2. snapshot' \in [Connections -> QuoteRecord \cup {NoQuote}]
    <3>1. CASE latest[First(todo[c])] = 0
      BY <1>6, <3>1 DEF GetLatest, TypeOK
    <3>2. CASE latest[First(todo[c])] # 0
      <4>1. [symbol |-> First(todo[c]), number |-> latest[First(todo[c])]] \in QuoteRecord
        BY <2>1, <3>2 DEF QuoteRecord, TypeOK
      <4>2. snapshot' = [snapshot EXCEPT ![c] = [symbol |-> First(todo[c]),
                                                 number |-> latest[First(todo[c])]]]
        BY <1>6, <3>2 DEF GetLatest
      <4>3. QED
        BY <4>1, <4>2 DEF TypeOK
    <3>3. QED
      BY <3>1, <3>2
  <2>3. todo' \in [Connections -> SUBSET Symbols] /\ pc' \in [Connections -> Stages]
    <3>1. todo' = todo \/ \E s : todo' = [todo EXCEPT ![c] = @ \ {s}]
      BY <1>6 DEF GetLatest
    <3>2. \E x \in {"snapsend", "ack", "snapshot"} : pc' = [pc EXCEPT ![c] = x]
      BY <1>6 DEF GetLatest, AfterSnapshot
    <3>3. todo' \in [Connections -> SUBSET Symbols]
      <4>1. CASE todo' = todo
        BY <4>1 DEF TypeOK
      <4>2. ASSUME NEW s, todo' = [todo EXCEPT ![c] = @ \ {s}]
            PROVE  todo' \in [Connections -> SUBSET Symbols]
        BY <4>2 DEF TypeOK
      <4>3. QED
        BY <3>1, <4>1, <4>2
    <3>4. pc' \in [Connections -> Stages]
      BY <3>2 DEF TypeOK
    <3>5. QED
      BY <3>3, <3>4
  <2>4. QED
    BY <1>6, <2>2, <2>3 DEF GetLatest, TypeOK, feedVars, hubVars, sendVars
<1>7. CASE SendSnapshot(c)
  <2>1. log' \in [Connections -> Seq(Message)]
    <3>1. Snapshot(snapshot[c]) \in Message
      BY MessageType DEF TypeOK
    <3>2. QED
      BY <1>7, <3>1 DEF SendSnapshot, TypeOK
  <2>2. QED
    BY <1>7, <2>1 DEF SendSnapshot, AfterSnapshot, TypeOK, feedVars, hubVars, sendVars
<1>8. CASE RegistryUnsubscribe(c)
  BY <1>8 DEF RegistryUnsubscribe, TypeOK, feedVars, hubVars, sendVars
<1>9. CASE SendAck(c)
  <2>1. log' \in [Connections -> Seq(Message)]
    BY <1>9, MessageType DEF SendAck, TypeOK
  <2>2. QED
    BY <1>9, <2>1 DEF SendAck, TypeOK, feedVars, hubVars, sendVars
<1>10. CASE Disconnect(c)
  BY <1>10 DEF Disconnect, TypeOK, feedVars, sendVars
<1>11. CASE Release(c)
  BY <1>11 DEF Release, TypeOK, feedVars, hubVars, sendVars
<1>12. CASE TakeDue(c)
  <2> DEFINE ready == {s \in due[c] : buffer[c][s] # 0}
             s == First(ready)
  <2>1. s \in ready
    BY <1>12, FirstInSet, ZenonT(30) DEF TakeDue, TypeOK
  <2>2. s \in Symbols /\ buffer[c][s] \in Nat
    BY <2>1 DEF TypeOK
  <2> HIDE DEF s
  <2>3. [symbol |-> s, turn |-> buffer[c][s]] \in TurnRecord
    BY <2>2 DEF TurnRecord
  <2>4. /\ sending' = [sending EXCEPT ![c] = [symbol |-> s, turn |-> buffer[c][s]]]
        /\ buffer' = [buffer EXCEPT ![c][s] = 0]
        /\ due' = [due EXCEPT ![c] = @ \ {s}]
    BY <1>12 DEF TakeDue, s
  <2>5. sending' \in [Connections -> TurnRecord \cup {NoTurn}]
    BY <2>3, <2>4 DEF TypeOK
  <2>6. buffer' \in [Connections -> [Symbols -> Nat]]
    BY <2>2, <2>4 DEF TypeOK
  <2>7. due' \in [Connections -> SUBSET Symbols]
    BY <2>4 DEF TypeOK
  <2>8. QED
    BY <1>12, <2>5, <2>6, <2>7 DEF TakeDue, TypeOK, feedVars, hubVars
<1>13. CASE SendQuote(c)
  <2>1. log' \in [Connections -> Seq(Message)]
    <3>1. Live(sending[c]) \in Message
      <4>1. sending[c] \in TurnRecord
        BY <1>13 DEF SendQuote, TypeOK
      <4>2. sending[c].symbol \in Symbols
        BY <4>1 DEF TurnRecord
      <4>3. sending[c].turn \in DOMAIN published
        BY <4>2 DEF OrderInv, QueueOK, FeedOK, TypeOK
      <4>4. QED
        BY <4>1, <4>3, MessageType
    <3>2. QED
      BY <1>13, <3>1 DEF SendQuote, TypeOK
  <2>2. QED
    BY <1>13, <2>1 DEF SendQuote, TypeOK, feedVars, hubVars
<1>14. ASSUME NEW s \in Symbols, IntervalPasses(c, s) PROVE TypeOK'
  BY <1>14 DEF IntervalPasses, TypeOK, feedVars, hubVars
<1>15. CASE Leave(c)
  BY <1>15 DEF Leave, EndReceiving, TypeOK, feedVars, hubVars
<1>16. CASE CommandFails(c)
  <2>1. faults' \in Nat
    BY <1>16 DEF CommandFails, TypeOK
  <2>2. registered' \in [Connections -> SUBSET Symbols]
    <3>1. PICK part \in SUBSET todo[c] :
            registered' = [registered EXCEPT ![c] =
                             CASE pc[c] = "registry"   -> @ \cup part
                               [] pc[c] = "snapshot"   -> @
                               [] pc[c] = "unregister" -> @ \ part]
      BY <1>16 DEF CommandFails
    <3>2. \E ss \in SUBSET Symbols : registered' = [registered EXCEPT ![c] = ss]
      <4>1. CASE pc[c] = "registry"
        BY <3>1, <4>1 DEF TypeOK
      <4>2. CASE pc[c] = "snapshot"
        BY <3>1, <4>2 DEF TypeOK
      <4>3. CASE pc[c] = "unregister"
        BY <3>1, <4>3 DEF TypeOK
      <4>4. QED
        BY <1>16, <4>1, <4>2, <4>3 DEF CommandFails
    <3>3. QED
      BY <3>2 DEF TypeOK
  <2>3. QED
    BY <1>16, <2>1, <2>2 DEF CommandFails, EndReceiving, TypeOK, feedVars, hubVars
<1>17. CASE FinallyFails(c)
  <2>1. faults' \in Nat
    BY <1>17 DEF FinallyFails, TypeOK
  <2>2. registered' \in [Connections -> SUBSET Symbols]
    BY <1>17 DEF FinallyFails, TypeOK
  <2>3. QED
    BY <1>17, <2>1, <2>2 DEF FinallyFails, TypeOK, feedVars, hubVars, sendVars
<1>18. CASE LeaseLapses(c)
  BY <1>18 DEF LeaseLapses, TypeOK, feedVars, hubVars, sendVars
<1>19. QED
  BY <1>0, <1>1, <1>2, <1>3, <1>4, <1>5, <1>6, <1>7, <1>8, <1>9, <1>10, <1>11, <1>12, <1>13, <1>14,
     <1>15, <1>16, <1>17, <1>18 DEF ConnectionStep, HandlerStep, SenderStep

-----------------------------------------------------------------------------
(* The hub and the registry *)

\* The processor, the fanout and the send loop leave the hub alone.
LEMMA HubKept ==
  ASSUME TypeOK, HubInv, UNCHANGED <<slots, hubVars, leaseVars, pc, todo, snapshot>>,
         faults' = faults \/ faults' # 0
  PROVE  HubInv'
BY DEF HubInv, HandlerOK, HubIndexExact, DeliveredIsRegistered, EndedLeavesNothing, hubVars, leaseVars

\* Every step of a handler keeps the hub's indexes exact, the registry ahead
\* of the hub, and an ended connection without a trace.
LEMMA HubStep ==
  ASSUME TypeOK, TypeOK', HubInv, NEW c \in Connections, ConnectionStep(c)
  PROVE  HubInv'
<1> USE DEF HubInv, Receiving, leaseVars
<1>1. CASE Acquire(c)
  <2>1. CASE HasSlot
    <3>1. /\ pc[c] = "new" /\ pc' = [pc EXCEPT ![c] = "admitted"]
          /\ slots' = slots \cup {c} /\ sessions' = sessions \cup {c}
          /\ UNCHANGED <<subs, index, leaseVars, todo, snapshot, faults>>
      BY <1>1, <2>1 DEF Acquire
    <3>2. HandlerOK'
      BY <3>1 DEF TypeOK, HandlerOK
    <3>3. HubIndexExact'
      BY <3>1 DEF TypeOK, HandlerOK, HubIndexExact
    <3>4. DeliveredIsRegistered'
      <4>1. \A d \in Connections : pc'[d] \in Receiving => pc[d] \in Receiving
        BY <3>1 DEF TypeOK
      <4>2. QED
        BY <3>1, <4>1 DEF DeliveredIsRegistered
    <3>5. EndedLeavesNothing'
      BY <3>1 DEF TypeOK, EndedLeavesNothing
    <3>6. QED
      BY <3>2, <3>3, <3>4, <3>5
  <2>2. CASE ~HasSlot
    <3>1. /\ pc[c] = "new" /\ pc' = [pc EXCEPT ![c] = "refused"]
          /\ slots' = slots /\ sessions' = sessions
          /\ UNCHANGED <<subs, index, leaseVars, todo, snapshot, faults>>
      BY <1>1, <2>2 DEF Acquire
    <3>2. HandlerOK'
      BY <3>1 DEF TypeOK, HandlerOK
    <3>3. HubIndexExact'
      BY <3>1 DEF TypeOK, HandlerOK, HubIndexExact
    <3>4. DeliveredIsRegistered'
      <4>1. \A d \in Connections : pc'[d] \in Receiving => pc[d] \in Receiving
        BY <3>1 DEF TypeOK
      <4>2. QED
        BY <3>1, <4>1 DEF DeliveredIsRegistered
    <3>5. EndedLeavesNothing'
      BY <3>1 DEF TypeOK, EndedLeavesNothing
    <3>6. QED
      BY <3>2, <3>3, <3>4, <3>5
  <2>3. QED
    BY <2>1, <2>2
<1>2. CASE Accept(c)
  <2>1. HandlerOK'
    BY <1>2 DEF TypeOK, HandlerOK, Accept, feedVars, hubVars
  <2>2. HubIndexExact'
    BY <1>2 DEF TypeOK, HandlerOK, HubIndexExact, Accept, feedVars, hubVars
  <2>3. DeliveredIsRegistered'
    BY <1>2 DEF TypeOK, HandlerOK, DeliveredIsRegistered, Accept, feedVars, hubVars
  <2>4. EndedLeavesNothing'
    BY <1>2, <2>1, <2>2 DEF TypeOK, HandlerOK, HubIndexExact, EndedLeavesNothing, Accept, feedVars, hubVars
  <2>5. QED
    BY <2>1, <2>2, <2>3, <2>4
<1>3. CASE AcceptFails(c)
  <2>1. HandlerOK'
    BY <1>3 DEF TypeOK, HandlerOK, AcceptFails, feedVars, hubVars, sendVars
  <2>2. HubIndexExact'
    BY <1>3 DEF TypeOK, HandlerOK, HubIndexExact, AcceptFails, feedVars, hubVars, sendVars
  <2>3. DeliveredIsRegistered'
    BY <1>3 DEF TypeOK, HandlerOK, DeliveredIsRegistered, AcceptFails, feedVars, hubVars, sendVars
  <2>4. EndedLeavesNothing'
    BY <1>3, <2>1, <2>2 DEF TypeOK, HandlerOK, HubIndexExact, EndedLeavesNothing, AcceptFails, feedVars, hubVars, sendVars
  <2>5. QED
    BY <2>1, <2>2, <2>3, <2>4
<1>4. ASSUME NEW symbols \in SUBSET Symbols, Subscribe(c, symbols) PROVE HubInv'
  <2>1. HandlerOK'
    BY <1>4 DEF TypeOK, HandlerOK, Subscribe, feedVars, hubVars, sendVars
  <2>2. HubIndexExact'
    BY <1>4 DEF TypeOK, HandlerOK, HubIndexExact, Subscribe, feedVars, hubVars, sendVars
  <2>3. DeliveredIsRegistered'
    BY <1>4, SMTT(30) DEF TypeOK, HandlerOK, DeliveredIsRegistered, Subscribe, feedVars, hubVars, sendVars
  <2>4. EndedLeavesNothing'
    BY <1>4, <2>1, <2>2 DEF TypeOK, HandlerOK, HubIndexExact, EndedLeavesNothing, Subscribe, feedVars, hubVars, sendVars
  <2>5. QED
    BY <2>1, <2>2, <2>3, <2>4
<1>5. ASSUME NEW symbols \in SUBSET Symbols, Unsubscribe(c, symbols) PROVE HubInv'
  <2>1. HandlerOK'
    BY <1>5, SMTT(30) DEF TypeOK, HandlerOK, Unsubscribe, feedVars, sendVars
  <2>2. HubIndexExact'
    BY <1>5, SMTT(30) DEF TypeOK, HandlerOK, HubIndexExact, Unsubscribe, feedVars, sendVars
  <2>3. DeliveredIsRegistered'
    BY <1>5, SMTT(30) DEF TypeOK, HandlerOK, DeliveredIsRegistered, Unsubscribe, feedVars, sendVars
  <2>4. EndedLeavesNothing'
    BY <1>5, <2>1, <2>2 DEF TypeOK, HandlerOK, HubIndexExact, EndedLeavesNothing, Unsubscribe, feedVars, sendVars
  <2>5. QED
    BY <2>1, <2>2, <2>3, <2>4
<1>6. CASE HubSubscribe(c)
  <2>1. HandlerOK'
    BY <1>6 DEF TypeOK, HandlerOK, HubSubscribe, feedVars, sendVars
  <2>2. HubIndexExact'
    BY <1>6 DEF TypeOK, HandlerOK, HubIndexExact, HubSubscribe, feedVars, sendVars
  <2>3. DeliveredIsRegistered'
    BY <1>6 DEF TypeOK, HandlerOK, DeliveredIsRegistered, HubSubscribe, feedVars, sendVars
  <2>4. EndedLeavesNothing'
    BY <1>6, <2>1, <2>2 DEF TypeOK, HandlerOK, HubIndexExact, EndedLeavesNothing, HubSubscribe, feedVars, sendVars
  <2>5. QED
    BY <2>1, <2>2, <2>3, <2>4
<1>7. CASE GetLatest(c)
  <2>0. UNCHANGED <<slots, sessions, subs, index, leaseVars, faults>> /\ pc[c] = "snapshot"
    BY <1>7 DEF GetLatest, hubVars
  <2>1. CASE latest[First(todo[c])] = 0
    <3>1. PICK left : /\ todo' = [todo EXCEPT ![c] = left]
                      /\ pc' = [pc EXCEPT ![c] = IF left = {} THEN "ack" ELSE "snapshot"]
                      /\ snapshot' = snapshot
      BY <1>7, <2>1 DEF GetLatest, AfterSnapshot
    <3>2. HandlerOK'
      BY <2>0, <3>1 DEF TypeOK, HandlerOK
    <3>3. \A d \in Connections : pc'[d] \in Receiving => pc[d] \in Receiving
      BY <2>0, <3>1 DEF TypeOK
    <3>4. DeliveredIsRegistered'
      BY <2>0, <3>3 DEF DeliveredIsRegistered
    <3>5. EndedLeavesNothing'
      BY <2>0, <3>1 DEF TypeOK, EndedLeavesNothing
    <3>6. HubIndexExact'
      BY <2>0 DEF HubIndexExact
    <3>7. QED
      BY <3>2, <3>4, <3>5, <3>6
  <2>2. CASE latest[First(todo[c])] # 0
    <3>1. /\ todo' = todo /\ pc' = [pc EXCEPT ![c] = "snapsend"]
          /\ snapshot' = [snapshot EXCEPT ![c] = [symbol |-> First(todo[c]),
                                                  number |-> latest[First(todo[c])]]]
      BY <1>7, <2>2 DEF GetLatest
    <3>2. snapshot'[c] # NoQuote /\ \A d \in Connections \ {c} : snapshot'[d] = snapshot[d]
      BY <2>2, <3>1 DEF NoQuote, TypeOK
    <3>3. HandlerOK'
      BY <2>0, <3>1, <3>2, ZenonT(30) DEF TypeOK, HandlerOK
    <3>4. \A d \in Connections : pc'[d] \in Receiving => pc[d] \in Receiving
      BY <2>0, <3>1 DEF TypeOK
    <3>5. DeliveredIsRegistered'
      BY <2>0, <3>4 DEF DeliveredIsRegistered
    <3>6. EndedLeavesNothing'
      BY <2>0, <3>1 DEF TypeOK, EndedLeavesNothing
    <3>7. HubIndexExact'
      BY <2>0 DEF HubIndexExact
    <3>8. QED
      BY <3>3, <3>5, <3>6, <3>7
  <2>3. QED
    BY <2>1, <2>2
<1>8. CASE SendSnapshot(c)
  <2>1. HandlerOK'
    BY <1>8, SMTT(30) DEF TypeOK, HandlerOK, SendSnapshot, AfterSnapshot, feedVars, hubVars, sendVars
  <2>2. HubIndexExact'
    BY <1>8 DEF TypeOK, HandlerOK, HubIndexExact, SendSnapshot, AfterSnapshot, feedVars, hubVars, sendVars
  <2>3. DeliveredIsRegistered'
    BY <1>8 DEF TypeOK, HandlerOK, DeliveredIsRegistered, SendSnapshot, AfterSnapshot, feedVars, hubVars, sendVars
  <2>4. EndedLeavesNothing'
    BY <1>8, <2>1, <2>2 DEF TypeOK, HandlerOK, HubIndexExact, EndedLeavesNothing, SendSnapshot, AfterSnapshot, feedVars, hubVars, sendVars
  <2>5. QED
    BY <2>1, <2>2, <2>3, <2>4
<1>9. CASE RegistryUnsubscribe(c)
  <2>1. HandlerOK'
    BY <1>9 DEF TypeOK, HandlerOK, RegistryUnsubscribe, feedVars, hubVars, sendVars
  <2>2. HubIndexExact'
    BY <1>9 DEF TypeOK, HandlerOK, HubIndexExact, RegistryUnsubscribe, feedVars, hubVars, sendVars
  <2>3. DeliveredIsRegistered'
    BY <1>9 DEF TypeOK, HandlerOK, DeliveredIsRegistered, RegistryUnsubscribe, feedVars, hubVars, sendVars
  <2>4. EndedLeavesNothing'
    BY <1>9, <2>1, <2>2 DEF TypeOK, HandlerOK, HubIndexExact, EndedLeavesNothing, RegistryUnsubscribe, feedVars, hubVars, sendVars
  <2>5. QED
    BY <2>1, <2>2, <2>3, <2>4
<1>10. CASE SendAck(c)
  <2>1. HandlerOK'
    BY <1>10 DEF TypeOK, HandlerOK, SendAck, feedVars, hubVars, sendVars
  <2>2. HubIndexExact'
    BY <1>10 DEF TypeOK, HandlerOK, HubIndexExact, SendAck, feedVars, hubVars, sendVars
  <2>3. DeliveredIsRegistered'
    BY <1>10 DEF TypeOK, HandlerOK, DeliveredIsRegistered, SendAck, feedVars, hubVars, sendVars
  <2>4. EndedLeavesNothing'
    BY <1>10, <2>1, <2>2 DEF TypeOK, HandlerOK, HubIndexExact, EndedLeavesNothing, SendAck, feedVars, hubVars, sendVars
  <2>5. QED
    BY <2>1, <2>2, <2>3, <2>4
<1>11. CASE Leave(c)
  <2>1. HandlerOK'
    BY <1>11 DEF TypeOK, HandlerOK, Leave, EndReceiving, feedVars, hubVars
  <2>2. HubIndexExact'
    BY <1>11 DEF TypeOK, HandlerOK, HubIndexExact, Leave, EndReceiving, feedVars, hubVars
  <2>3. DeliveredIsRegistered'
    BY <1>11 DEF TypeOK, HandlerOK, DeliveredIsRegistered, Leave, EndReceiving, feedVars, hubVars
  <2>4. EndedLeavesNothing'
    BY <1>11, <2>1, <2>2 DEF TypeOK, HandlerOK, HubIndexExact, EndedLeavesNothing, Leave, EndReceiving, feedVars, hubVars
  <2>5. QED
    BY <2>1, <2>2, <2>3, <2>4
<1>12. CASE CommandFails(c)
  <2>1. HandlerOK'
    BY <1>12 DEF TypeOK, HandlerOK, CommandFails, EndReceiving, feedVars, hubVars
  <2>2. HubIndexExact'
    BY <1>12 DEF TypeOK, HandlerOK, HubIndexExact, CommandFails, EndReceiving, feedVars, hubVars
  <2>3. DeliveredIsRegistered'
    BY <1>12 DEF TypeOK, HandlerOK, DeliveredIsRegistered, CommandFails, EndReceiving, feedVars, hubVars
  <2>4. EndedLeavesNothing'
    BY <1>12, <2>1, <2>2 DEF TypeOK, HandlerOK, HubIndexExact, EndedLeavesNothing, CommandFails, EndReceiving, feedVars, hubVars
  <2>5. QED
    BY <2>1, <2>2, <2>3, <2>4
<1>13. CASE Disconnect(c)
  <2>1. HandlerOK'
    BY <1>13 DEF TypeOK, HandlerOK, Disconnect, feedVars, sendVars
  <2>2. HubIndexExact'
    BY <1>13 DEF TypeOK, HandlerOK, HubIndexExact, Disconnect, feedVars, sendVars
  <2>3. DeliveredIsRegistered'
    BY <1>13 DEF TypeOK, HandlerOK, DeliveredIsRegistered, Disconnect, feedVars, sendVars
  <2>4. EndedLeavesNothing'
    BY <1>13, <2>1, <2>2 DEF TypeOK, HandlerOK, HubIndexExact, EndedLeavesNothing, Disconnect, feedVars, sendVars
  <2>5. QED
    BY <2>1, <2>2, <2>3, <2>4
<1>14. CASE Release(c)
  <2>1. HandlerOK'
    BY <1>14 DEF TypeOK, HandlerOK, Release, feedVars, hubVars, sendVars
  <2>2. HubIndexExact'
    BY <1>14 DEF TypeOK, HandlerOK, HubIndexExact, Release, feedVars, hubVars, sendVars
  <2>3. DeliveredIsRegistered'
    BY <1>14 DEF TypeOK, HandlerOK, DeliveredIsRegistered, Release, feedVars, hubVars, sendVars
  <2>4. EndedLeavesNothing'
    BY <1>14, <2>1, <2>2 DEF TypeOK, HandlerOK, HubIndexExact, EndedLeavesNothing, Release, feedVars, hubVars, sendVars
  <2>5. QED
    BY <2>1, <2>2, <2>3, <2>4
<1>15. CASE FinallyFails(c)
  <2>1. HandlerOK'
    BY <1>15 DEF TypeOK, HandlerOK, FinallyFails, feedVars, hubVars, sendVars
  <2>2. HubIndexExact'
    BY <1>15 DEF TypeOK, HandlerOK, HubIndexExact, FinallyFails, feedVars, hubVars, sendVars
  <2>3. DeliveredIsRegistered'
    BY <1>15 DEF TypeOK, HandlerOK, DeliveredIsRegistered, FinallyFails, feedVars, hubVars, sendVars
  <2>4. EndedLeavesNothing'
    BY <1>15, <2>1, <2>2 DEF TypeOK, HandlerOK, HubIndexExact, EndedLeavesNothing, FinallyFails, feedVars, hubVars, sendVars
  <2>5. QED
    BY <2>1, <2>2, <2>3, <2>4
<1>16. CASE SenderStep(c)
  BY <1>16, HubKept DEF SenderStep, TakeDue, SendQuote, IntervalPasses
<1>17. CASE LeaseLapses(c)
  <2>1. HandlerOK'
    BY <1>17 DEF TypeOK, HandlerOK, LeaseLapses, feedVars, hubVars, sendVars
  <2>2. HubIndexExact'
    BY <1>17 DEF HubIndexExact, LeaseLapses, hubVars
  <2>3. DeliveredIsRegistered'
    BY <1>17 DEF TypeOK, DeliveredIsRegistered, LeaseLapses, hubVars
  <2>4. EndedLeavesNothing'
    BY <1>17 DEF TypeOK, EndedLeavesNothing, LeaseLapses, hubVars
  <2>5. QED
    BY <2>1, <2>2, <2>3, <2>4
<1>18. QED
  BY <1>1, <1>2, <1>3, <1>4, <1>5, <1>6, <1>7, <1>8, <1>9, <1>10, <1>11, <1>12, <1>13, <1>14, <1>15,
     <1>16, <1>17 DEF ConnectionStep, HandlerStep

-----------------------------------------------------------------------------
(* The order of the live quotes *)

\* The listener follows the channel, and no processor loses the quote that it
\* has cached before it has published it.
LEMMA FeedKept ==
  ASSUME TypeOK, TypeOK', FeedOK, FeedStep
  PROVE  FeedOK' /\ heard \in Nat /\ heard' \in Nat /\ heard <= heard'
<1>0. /\ heard \in Nat /\ heard' \in Nat
      /\ Len(published) \in Nat /\ DOMAIN hand = Processors /\ cached \subseteq Processors
  BY DEF TypeOK
<1>1. ASSUME NEW p \in Processors, NEW n \in 1..MaxQuotes, NEW symbols \in [1..n -> Symbols],
             ReadBatch(p, symbols)
      PROVE  FeedOK' /\ heard <= heard'
  <2>1. PICK batch : hand' = [hand EXCEPT ![p] = batch]
    BY <1>1 DEF ReadBatch
  <2>2. hand[p] = <<>> /\ UNCHANGED <<cached, published, heard>>
    BY <1>1 DEF ReadBatch
  <2>3. QED
    BY <1>0, <2>1, <2>2 DEF FeedOK
<1>2. ASSUME NEW p \in Processors, CacheQuote(p) PROVE FeedOK' /\ heard <= heard'
  BY <1>0, <1>2 DEF CacheQuote, FeedOK
<1>3. ASSUME NEW p \in Processors, PublishFanout(p) PROVE FeedOK' /\ heard <= heard'
  <2>1. /\ hand' = [hand EXCEPT ![p] = Tail(hand[p])] /\ cached' = cached \ {p}
        /\ Len(published') = Len(published) + 1
    BY <1>3, PublishAppends
  <2>2. heard' = heard
    BY <1>3 DEF PublishFanout
  <2>3. QED
    BY <1>0, <2>1, <2>2 DEF FeedOK
<1>4. CASE Fanout
  <2>1. UNCHANGED <<hand, cached, published>>
    BY <1>4 DEF Fanout
  <2>2. heard' = heard + 1 /\ heard + 1 <= Len(published)
    BY <1>4, FanoutTakes
  <2>3. QED
    BY <1>0, <2>1, <2>2 DEF FeedOK
<1>5. CASE ListenerFails
  BY <1>0, <1>5 DEF ListenerFails, FeedOK
<1>6. QED
  BY <1>0, <1>1, <1>2, <1>3, <1>4, <1>5 DEF FeedStep, ProcessorStep

\* Only the fanout changes a buffer: it stores the message it has taken.
LEMMA FeedBuffers ==
  ASSUME TypeOK, FeedStep, NEW c \in Connections, NEW s \in Symbols
  PROVE  \/ buffer'[c][s] \in {0, buffer[c][s]}
         \/ Fanout /\ buffer'[c][s] = heard + 1 /\ heard' = heard + 1
<1>1. CASE Fanout
  <2>1. /\ heard \in Nat /\ heard' = heard + 1 /\ heard + 1 \in Nat
        /\ published[heard + 1].symbol \in Symbols
    <3>1. heard \in Nat /\ heard' = heard + 1 /\ published[heard + 1].symbol \in Symbols
      BY <1>1, FanoutTakes
    <3>2. QED
      BY <3>1
  <2>2. buffer[c] \in [Symbols -> Nat]
    BY DEF TypeOK
  <2>3. buffer'[c] \in {buffer[c], Put(buffer[c], heard + 1)}
    BY <1>1, FanoutHands
  <2>4. /\ Put(buffer[c], heard + 1)[published[heard + 1].symbol] = heard + 1
        /\ \A t \in Symbols \ {published[heard + 1].symbol} :
             Put(buffer[c], heard + 1)[t] \in {0, buffer[c][t]}
    BY <2>1, <2>2, PutStores
  <2>5. QED
    BY <1>1, <2>1, <2>3, <2>4
<1>2. CASE ~Fanout
  BY <1>2 DEF FeedStep, ProcessorStep, ReadBatch, CacheQuote, PublishFanout, ListenerFails
<1>3. QED
  BY <1>1, <1>2

\* put replaces what the client has not been sent by something newer.
LEMMA FeedOrder ==
  ASSUME TypeOK, TypeOK', OrderInv, FeedStep
  PROVE  OrderInv'
<1> USE DEF OrderInv
<1>0. UNCHANGED <<sending, log>>
  BY DEF FeedStep, ProcessorStep, ReadBatch, CacheQuote, PublishFanout, Fanout, ListenerFails, sendVars
<1>1. LiveInOrder'
  BY <1>0 DEF LiveInOrder
<1>2. \A c \in Connections, s \in Symbols, n \in Nat : Sent(c, s, n)' <=> Sent(c, s, n)
  BY <1>0 DEF Sent
<1>3. FeedOK' /\ heard \in Nat /\ heard' \in Nat /\ heard <= heard'
  BY FeedKept
<1>4. ASSUME NEW c \in Connections, NEW s \in Symbols
      PROVE  /\ buffer'[c][s] <= heard'
             /\ sending[c].symbol = s =>
                  /\ sending[c].turn \in 1..heard'
                  /\ buffer'[c][s] # 0 => sending[c].turn < buffer'[c][s]
             /\ \A n \in Nat : Sent(c, s, n) =>
                  /\ n <= heard'
                  /\ buffer'[c][s] # 0 => n < buffer'[c][s]
                  /\ sending[c].symbol = s => n < sending[c].turn
  <2>1. /\ buffer[c][s] \in Nat /\ buffer[c][s] <= heard
        /\ sending[c].symbol = s =>
             /\ sending[c].turn \in 1..heard
             /\ buffer[c][s] # 0 => sending[c].turn < buffer[c][s]
        /\ \A n \in Nat : Sent(c, s, n) =>
             /\ n <= heard
             /\ buffer[c][s] # 0 => n < buffer[c][s]
             /\ sending[c].symbol = s => n < sending[c].turn
    <3>1. buffer[c][s] \in Nat
      BY DEF TypeOK
    <3>2. QED
      BY <3>1 DEF QueueOK
  <2>2. buffer'[c][s] \in {0, buffer[c][s]} \/ (buffer'[c][s] = heard + 1 /\ heard' = heard + 1)
    BY FeedBuffers
  <2>3. QED
    BY <1>3, <2>1, <2>2
<1>5. QueueOK'
  BY <1>0, <1>2, <1>4 DEF QueueOK
<1>6. QED
  BY <1>1, <1>3, <1>5

\* A message is appended to the log of its client and to no other.
LEMMA LogGrows ==
  ASSUME TypeOK, NEW c \in Connections, NEW m \in Message,
         log' = [log EXCEPT ![c] = Append(@, m)]
  PROVE  /\ Len(log[c]) \in Nat /\ DOMAIN log[c] = 1..Len(log[c])
         /\ DOMAIN log'[c] = 1..Len(log[c]) + 1
         /\ \A i \in DOMAIN log[c] : log'[c][i] = log[c][i]
         /\ log'[c][Len(log[c]) + 1] = m
         /\ \A d \in Connections \ {c} : log'[d] = log[d]
<1>1. log[c] \in Seq(Message)
  BY DEF TypeOK
<1>2. log'[c] = Append(log[c], m)
  BY DEF TypeOK
<1>3. \A d \in Connections \ {c} : log'[d] = log[d]
  BY DEF TypeOK
<1>4. QED
  BY <1>1, <1>2, <1>3

\* A live quote that was published after those of its symbol in the log keeps
\* the log in order; other messages do not matter.
LEMMA AppendInOrder ==
  ASSUME TypeOK, LiveInOrder, NEW c \in Connections, NEW m \in Message,
         log' = [log EXCEPT ![c] = Append(@, m)],
         m.type = "quote" => \A n \in Nat : Sent(c, m.symbol, n) => n < m.turn
  PROVE  /\ LiveInOrder'
         /\ \A d \in Connections, s \in Symbols, n \in Nat :
              Sent(d, s, n)' =>
                Sent(d, s, n) \/ (d = c /\ m.type = "quote" /\ m.symbol = s /\ m.turn = n)
<1>1. ASSUME NEW i \in DOMAIN log'[c], NEW j \in DOMAIN log'[c], i < j,
             log'[c][i].type = "quote", log'[c][j].type = "quote",
             log'[c][i].symbol = log'[c][j].symbol
      PROVE  log'[c][i].turn < log'[c][j].turn
  <2>1. i \in DOMAIN log[c] /\ log'[c][i] = log[c][i]
    BY <1>1, LogGrows
  <2>2. CASE j \in DOMAIN log[c]
    BY <1>1, <2>1, <2>2, LogGrows DEF LiveInOrder
  <2>3. CASE j \notin DOMAIN log[c]
    <3>1. log'[c][j] = m
      BY <1>1, <2>3, LogGrows
    <3>2. log[c][i] \in Message
      BY <2>1 DEF TypeOK
    <3>3. log[c][i].turn \in Nat
      BY <3>2 DEF Message
    <3>4. Sent(c, m.symbol, log[c][i].turn)
      BY <1>1, <2>1, <3>1 DEF Sent
    <3>5. QED
      BY <1>1, <2>1, <3>1, <3>3, <3>4
  <2>4. QED
    BY <2>2, <2>3
<1>2. LiveInOrder'
  <2>1. ASSUME NEW d \in Connections, d # c, NEW i \in DOMAIN log'[d], NEW j \in DOMAIN log'[d], i < j,
               log'[d][i].type = "quote", log'[d][j].type = "quote",
               log'[d][i].symbol = log'[d][j].symbol
        PROVE  log'[d][i].turn < log'[d][j].turn
    BY <2>1, LogGrows DEF LiveInOrder
  <2>2. QED
    BY <1>1, <2>1 DEF LiveInOrder
<1>3. ASSUME NEW d \in Connections, NEW s \in Symbols, NEW n \in Nat, Sent(d, s, n)'
      PROVE  Sent(d, s, n) \/ (d = c /\ m.type = "quote" /\ m.symbol = s /\ m.turn = n)
  <2>1. CASE d = c
    BY <1>3, <2>1, LogGrows DEF Sent
  <2>2. CASE d # c
    BY <1>3, <2>2, LogGrows DEF Sent
  <2>3. QED
    BY <2>1, <2>2
<1>4. QED
  BY <1>2, <1>3

\* The order survives a step that adds nothing to the buffer, to the send loop
\* and to the live quotes in the log.
LEMMA OrderKept ==
  ASSUME TypeOK, OrderInv, LiveInOrder', UNCHANGED feedVars,
         \A d \in Connections, s \in Symbols :
            /\ buffer'[d][s] \in {0, buffer[d][s]}
            /\ sending'[d].symbol = s => sending'[d] = sending[d]
            /\ \A n \in Nat : Sent(d, s, n)' => Sent(d, s, n)
  PROVE  OrderInv'
<1>1. FeedOK' /\ heard' = heard /\ heard \in Nat
  BY DEF OrderInv, FeedOK, feedVars, TypeOK
<1>2. ASSUME NEW d \in Connections, NEW s \in Symbols
      PROVE  /\ buffer'[d][s] <= heard
             /\ sending'[d].symbol = s =>
                  /\ sending'[d].turn \in 1..heard
                  /\ buffer'[d][s] # 0 => sending'[d].turn < buffer'[d][s]
             /\ \A n \in Nat : Sent(d, s, n)' =>
                  /\ n <= heard
                  /\ buffer'[d][s] # 0 => n < buffer'[d][s]
                  /\ sending'[d].symbol = s => n < sending'[d].turn
  BY <1>1 DEF OrderInv, QueueOK
<1>3. QueueOK'
  BY <1>1, <1>2 DEF QueueOK
<1>4. QED
  BY <1>1, <1>3 DEF OrderInv

\* get_due hands the send loop the newest quote of a symbol, and the client
\* gets it before the next one; the receive loop sends no live quote.
LEMMA ConnectionOrder ==
  ASSUME TypeOK, TypeOK', OrderInv, NEW c \in Connections, ConnectionStep(c)
  PROVE  OrderInv'
<1>0. UNCHANGED feedVars
  BY DEF ConnectionStep, Acquire, AcceptFails, Subscribe, Unsubscribe, HandlerStep, Accept, HubSubscribe, GetLatest,
     SendSnapshot, RegistryUnsubscribe, SendAck, Disconnect, Release, SenderStep, TakeDue, SendQuote,
     IntervalPasses, LeaseLapses, Leave, CommandFails, EndReceiving, FinallyFails
<1>1. FeedOK' /\ heard' = heard /\ heard \in Nat
  BY <1>0 DEF OrderInv, FeedOK, feedVars, TypeOK
<1>2. CASE /\ log' = log \/ (\E m \in Message : m.type # "quote" /\ log' = [log EXCEPT ![c] = Append(@, m)])
           /\ buffer' = buffer \/ buffer' = [buffer EXCEPT ![c] = [s \in Symbols |-> 0]]
           /\ sending' = sending \/ sending' = [sending EXCEPT ![c] = NoTurn]
  <2>1. /\ LiveInOrder'
        /\ \A d \in Connections, s \in Symbols, n \in Nat : Sent(d, s, n)' => Sent(d, s, n)
    <3>1. CASE log' = log
      BY <3>1 DEF OrderInv, LiveInOrder, Sent
    <3>2. CASE log' # log
      BY <1>2, <3>2, AppendInOrder DEF OrderInv
    <3>3. QED
      BY <3>1, <3>2
  <2>2. ASSUME NEW d \in Connections, NEW s \in Symbols
        PROVE  /\ buffer'[d][s] \in {0, buffer[d][s]}
               /\ sending'[d].symbol = s => sending'[d] = sending[d]
    <3>1. buffer'[d][s] \in {0, buffer[d][s]}
      <4>1. CASE buffer' = buffer
        BY <4>1
      <4>2. CASE buffer' = [buffer EXCEPT ![c] = [x \in Symbols |-> 0]]
        BY <4>2 DEF TypeOK
      <4>3. QED
        BY <1>2, <4>1, <4>2
    <3>2. sending'[d].symbol = s => sending'[d] = sending[d]
      <4>1. CASE sending' = sending
        BY <4>1
      <4>2. CASE sending' = [sending EXCEPT ![c] = NoTurn]
        BY <4>2, DeliveryAssumption DEF TypeOK, NoTurn
      <4>3. QED
        BY <1>2, <4>1, <4>2
    <3>3. QED
      BY <3>1, <3>2
  <2>3. QED
    BY <1>0, <2>1, <2>2, OrderKept
<1>3. CASE TakeDue(c)
  <2> DEFINE ready == {s \in due[c] : buffer[c][s] # 0}
             t == First(ready)
  <2>1. t \in ready
    <3>1. ready \subseteq Symbols
      BY DEF TypeOK
    <3>2. ready # {}
      BY <1>3 DEF TakeDue
    <3>3. QED
      BY <3>1, <3>2, FirstInSet
  <2>2. t \in Symbols /\ buffer[c][t] # 0 /\ buffer[c][t] \in Nat
    BY <2>1 DEF TypeOK
  <2> HIDE DEF t
  <2>3. /\ sending' = [sending EXCEPT ![c] = [symbol |-> t, turn |-> buffer[c][t]]]
        /\ buffer' = [buffer EXCEPT ![c][t] = 0]
        /\ log' = log
    BY <1>3 DEF TakeDue, t
  <2>4. /\ \A d \in Connections, s \in Symbols : buffer'[d][s] = IF d = c /\ s = t THEN 0 ELSE buffer[d][s]
        /\ \A d \in Connections : sending'[d] = IF d = c THEN [symbol |-> t, turn |-> buffer[c][t]]
                                                        ELSE sending[d]
    <3>0. /\ buffer \in [Connections -> [Symbols -> Nat]]
          /\ buffer' = [buffer EXCEPT ![c] = [buffer[c] EXCEPT ![t] = 0]]
      BY <2>3 DEF TypeOK
    <3>1. \A d \in Connections, s \in Symbols : buffer'[d][s] = IF d = c /\ s = t THEN 0 ELSE buffer[d][s]
      BY <2>2, <3>0
    <3>2. \A d \in Connections : sending'[d] = IF d = c THEN [symbol |-> t, turn |-> buffer[c][t]]
                                                      ELSE sending[d]
      BY <2>3 DEF TypeOK
    <3>3. QED
      BY <3>1, <3>2
  <2>5. \A d \in Connections, s \in Symbols, n \in Nat : Sent(d, s, n)' <=> Sent(d, s, n)
    BY <2>3 DEF Sent
  <2>6. LiveInOrder'
    BY <2>3 DEF OrderInv, LiveInOrder
  <2>7. ASSUME NEW d \in Connections, NEW s \in Symbols
        PROVE  /\ buffer'[d][s] <= heard
               /\ sending'[d].symbol = s =>
                    /\ sending'[d].turn \in 1..heard
                    /\ buffer'[d][s] # 0 => sending'[d].turn < buffer'[d][s]
               /\ \A n \in Nat : Sent(d, s, n) =>
                    /\ n <= heard
                    /\ buffer'[d][s] # 0 => n < buffer'[d][s]
                    /\ sending'[d].symbol = s => n < sending'[d].turn
    <3>1. /\ buffer[d][s] <= heard
          /\ sending[d].symbol = s =>
               /\ sending[d].turn \in 1..heard
               /\ buffer[d][s] # 0 => sending[d].turn < buffer[d][s]
          /\ \A n \in Nat : Sent(d, s, n) =>
               /\ n <= heard
               /\ buffer[d][s] # 0 => n < buffer[d][s]
               /\ sending[d].symbol = s => n < sending[d].turn
      BY DEF OrderInv, QueueOK
    <3>2. CASE d = c /\ s = t
      <4>1. buffer'[d][s] = 0 /\ sending'[d].turn = buffer[c][t]
        BY <2>4, <3>2
      <4>2. QED
        BY <1>1, <2>2, <3>1, <3>2, <4>1
    <3>3. CASE ~(d = c /\ s = t)
      <4>1. buffer'[d][s] = buffer[d][s] /\ (sending'[d].symbol = s => sending'[d] = sending[d])
        BY <2>4, <3>3
      <4>2. QED
        BY <3>1, <4>1
    <3>4. QED
      BY <3>2, <3>3
  <2>8. QueueOK'
    BY <1>1, <2>5, <2>7 DEF QueueOK
  <2>9. QED
    BY <1>1, <2>6, <2>8 DEF OrderInv
<1>4. CASE SendQuote(c)
  <2>1. sending[c] \in TurnRecord
    BY <1>4 DEF SendQuote, TypeOK
  <2>2. sending[c].symbol \in Symbols /\ sending[c].turn \in Nat
    BY <2>1 DEF TurnRecord
  <2>3. sending[c].turn \in DOMAIN published
    BY <2>2 DEF OrderInv, QueueOK, FeedOK, TypeOK
  <2>4. PICK m \in Message : m.type = "quote" /\ m.symbol = sending[c].symbol
                             /\ m.turn = sending[c].turn /\ m = Live(sending[c])
    BY <2>1, <2>3, MessageType DEF Live
  <2>5. /\ sending' = [sending EXCEPT ![c] = NoTurn] /\ buffer' = buffer
        /\ log' = [log EXCEPT ![c] = Append(@, m)]
    BY <1>4, <2>4 DEF SendQuote
  <2>6. \A n \in Nat : Sent(c, m.symbol, n) => n < m.turn
    BY <2>2, <2>4 DEF OrderInv, QueueOK
  <2>7. LiveInOrder
    BY DEF OrderInv
  <2>8. /\ LiveInOrder'
        /\ \A d \in Connections, s \in Symbols, n \in Nat :
             Sent(d, s, n)' =>
               Sent(d, s, n) \/ (d = c /\ m.type = "quote" /\ m.symbol = s /\ m.turn = n)
    BY <2>5, <2>6, <2>7, AppendInOrder
  <2>9. ASSUME NEW d \in Connections, NEW s \in Symbols
        PROVE  /\ buffer[d][s] <= heard
               /\ sending'[d].symbol = s =>
                    /\ sending'[d].turn \in 1..heard
                    /\ buffer[d][s] # 0 => sending'[d].turn < buffer[d][s]
               /\ \A n \in Nat : Sent(d, s, n)' =>
                    /\ n <= heard
                    /\ buffer[d][s] # 0 => n < buffer[d][s]
                    /\ sending'[d].symbol = s => n < sending'[d].turn
    <3>1. /\ buffer[d][s] <= heard
          /\ sending[d].symbol = s =>
               /\ sending[d].turn \in 1..heard
               /\ buffer[d][s] # 0 => sending[d].turn < buffer[d][s]
          /\ \A n \in Nat : Sent(d, s, n) =>
               /\ n <= heard
               /\ buffer[d][s] # 0 => n < buffer[d][s]
               /\ sending[d].symbol = s => n < sending[d].turn
      BY DEF OrderInv, QueueOK
    <3>2. sending'[d].symbol = s => d # c /\ sending'[d] = sending[d]
      BY <2>5, DeliveryAssumption DEF TypeOK, NoTurn
    <3>3. \A n \in Nat : Sent(d, s, n)' =>
            Sent(d, s, n) \/ (d = c /\ sending[c].symbol = s /\ sending[c].turn = n)
      BY <2>4, <2>8
    <3>4. QED
      BY <1>1, <3>1, <3>2, <3>3
  <2>10. QueueOK'
    BY <1>1, <2>5, <2>9 DEF QueueOK
  <2>11. QED
    BY <1>1, <2>8, <2>10 DEF OrderInv
<1>5. CASE SendSnapshot(c)
  <2>1. Snapshot(snapshot[c]) \in Message /\ Snapshot(snapshot[c]).type # "quote"
    BY MessageType DEF Snapshot, TypeOK
  <2>2. QED
    BY <1>2, <1>5, <2>1 DEF SendSnapshot, sendVars
<1>6. CASE SendAck(c)
  BY <1>2, <1>6, MessageType DEF SendAck, Ack, sendVars
<1>7. CASE Disconnect(c)
  BY <1>2, <1>7 DEF Disconnect, sendVars
<1>8. CASE Leave(c) \/ CommandFails(c)
  BY <1>2, <1>8 DEF Leave, CommandFails, EndReceiving
<1>9. CASE \/ Acquire(c) \/ AcceptFails(c) \/ Accept(c) \/ HubSubscribe(c) \/ GetLatest(c)
           \/ \E symbols \in SUBSET Symbols : Subscribe(c, symbols) \/ Unsubscribe(c, symbols)
           \/ RegistryUnsubscribe(c) \/ Release(c) \/ LeaseLapses(c) \/ FinallyFails(c)
           \/ \E s \in Symbols : IntervalPasses(c, s)
  <2>1. log' = log /\ buffer' = buffer /\ sending' = sending
    BY <1>9 DEF Acquire, AcceptFails, Accept, HubSubscribe, GetLatest, Subscribe, Unsubscribe,
       RegistryUnsubscribe, Release, LeaseLapses, FinallyFails, IntervalPasses, sendVars
  <2>2. QED
    BY <1>2, <2>1
<1>10. QED
  BY <1>3, <1>4, <1>5, <1>6, <1>7, <1>8, <1>9 DEF ConnectionStep, HandlerStep, SenderStep

-----------------------------------------------------------------------------
(* No gap between the snapshot and the live quotes *)

\* A task of one connection changes nothing of the feed and nothing that
\* another connection holds.
LEMMA OthersUntouched ==
  ASSUME TypeOK, NEW c \in Connections, ConnectionStep(c)
  PROVE  /\ UNCHANGED feedVars
         /\ faults' = 0 => faults = 0
         /\ \A d \in Connections \ {c} :
              /\ subs'[d] = subs[d] /\ pc'[d] = pc[d] /\ todo'[d] = todo[d]
              /\ snapshot'[d] = snapshot[d] /\ sending'[d] = sending[d]
              /\ buffer'[d] = buffer[d] /\ log'[d] = log[d]
<1> DEFINE Apart == \A d \in Connections \ {c} :
              /\ subs'[d] = subs[d] /\ pc'[d] = pc[d] /\ todo'[d] = todo[d]
              /\ snapshot'[d] = snapshot[d] /\ sending'[d] = sending[d]
              /\ buffer'[d] = buffer[d] /\ log'[d] = log[d]
<1>1. UNCHANGED feedVars
  BY DEF ConnectionStep, Acquire, AcceptFails, Subscribe, Unsubscribe, HandlerStep, Accept,
     HubSubscribe, GetLatest, SendSnapshot, RegistryUnsubscribe, SendAck, Disconnect, Release,
     SenderStep, TakeDue, SendQuote, IntervalPasses, LeaseLapses, Leave, CommandFails,
     EndReceiving, FinallyFails
<1>2. faults' = faults \/ faults' = faults + 1
  BY DEF ConnectionStep, Acquire, AcceptFails, Subscribe, Unsubscribe, HandlerStep, Accept,
     HubSubscribe, GetLatest, SendSnapshot, RegistryUnsubscribe, SendAck, Disconnect, Release,
     SenderStep, TakeDue, SendQuote, IntervalPasses, LeaseLapses, Leave, CommandFails,
     EndReceiving, FinallyFails
<1>3. Apart
  <2>1. CASE Acquire(c)
    BY <2>1 DEF Acquire, sendVars, TypeOK
  <2>2. CASE AcceptFails(c) \/ Accept(c)
    BY <2>2 DEF AcceptFails, Accept, hubVars, sendVars, TypeOK
  <2>3. ASSUME NEW symbols \in SUBSET Symbols, Subscribe(c, symbols) \/ Unsubscribe(c, symbols)
        PROVE  Apart
    BY <2>3 DEF Subscribe, Unsubscribe, hubVars, sendVars, TypeOK
  <2>4. CASE HubSubscribe(c)
    BY <2>4 DEF HubSubscribe, sendVars, TypeOK
  <2>5. CASE GetLatest(c)
    <3>1. /\ todo' = todo \/ \E x : todo' = [todo EXCEPT ![c] = @ \ {x}]
          /\ \E x : pc' = [pc EXCEPT ![c] = x]
          /\ snapshot' = snapshot \/ \E x : snapshot' = [snapshot EXCEPT ![c] = x]
          /\ UNCHANGED <<subs, sending, buffer, log>>
      BY <2>5 DEF GetLatest, hubVars, sendVars
    <3>2. QED
      BY <3>1 DEF TypeOK
  <2>6. CASE SendSnapshot(c)
    BY <2>6 DEF SendSnapshot, hubVars, sendVars, TypeOK
  <2>7. CASE RegistryUnsubscribe(c) \/ SendAck(c) \/ Release(c) \/ LeaseLapses(c) \/ FinallyFails(c)
    BY <2>7 DEF RegistryUnsubscribe, SendAck, Release, LeaseLapses, FinallyFails, hubVars, sendVars, TypeOK
  <2>8. CASE Disconnect(c)
    BY <2>8 DEF Disconnect, sendVars, TypeOK
  <2>9. CASE TakeDue(c)
    BY <2>9 DEF TakeDue, hubVars, TypeOK
  <2>10. CASE SendQuote(c) \/ \E s \in Symbols : IntervalPasses(c, s)
    BY <2>10 DEF SendQuote, IntervalPasses, hubVars, TypeOK
  <2>11. CASE Leave(c) \/ CommandFails(c)
    BY <2>11 DEF Leave, CommandFails, EndReceiving, hubVars, TypeOK
  <2>12. QED
    BY <2>1, <2>2, <2>3, <2>4, <2>5, <2>6, <2>7, <2>8, <2>9, <2>10, <2>11
       DEF ConnectionStep, HandlerStep, SenderStep
<1>4. QED
  BY <1>1, <1>2, <1>3 DEF TypeOK

\* The fanout stores the message of s for the sessions listed under s, and
\* keeps what else they hold unless it counts a drop.
LEMMA FanoutStores ==
  ASSUME TypeOK, HubIndexExact, Fanout, NEW c \in Connections, NEW s \in Symbols,
         s \in subs[c], c \in sessions, dropped'[c] = 0
  PROVE  IF s = published[heard + 1].symbol THEN buffer'[c][s] = heard + 1
                                            ELSE buffer'[c][s] = buffer[c][s]
<1> DEFINE t == published[heard + 1].symbol
<1>1. heard \in Nat /\ t \in Symbols
  BY FanoutTakes
<1>2. heard + 1 \in Nat
  BY <1>1
<1>3. buffer[c] \in [Symbols -> Nat] /\ dropped[c] \in Nat
  BY DEF TypeOK
<1>4. s = t => c \in Targets(t)
  BY DEF HubIndexExact, Targets
<1> HIDE DEF t
<1>5. CASE c \in Targets(t)
  <2>1. /\ buffer'[c] = Put(buffer[c], heard + 1)
        /\ Overflows(buffer[c], t) => dropped'[c] = dropped[c] + 1
    BY <1>5, FanoutHands DEF t
  <2>2. ~Overflows(buffer[c], t)
    BY <1>3, <2>1
  <2>3. /\ Put(buffer[c], heard + 1)[t] = heard + 1
        /\ \A u \in Symbols \ {t} : Put(buffer[c], heard + 1)[u] = buffer[c][u]
    <3>1. t = published[heard + 1].symbol
      BY DEF t
    <3>2. QED
      BY <1>1, <1>2, <1>3, <2>2, <3>1, PutStores
  <2>4. QED
    BY <2>1, <2>3 DEF t
<1>6. CASE c \notin Targets(t)
  <2>1. buffer'[c] = buffer[c]
    BY <1>6, FanoutHands DEF t
  <2>2. QED
    BY <1>4, <1>6, <2>1 DEF t
<1>7. QED
  BY <1>5, <1>6

\* The feed carries the cached quote, or the one published last, to the
\* sessions that the hub lists under its symbol, however the processors
\* interleave.
LEMMA FeedCarries ==
  ASSUME TypeOK, HubInv, OrderInv, FeedStep, faults' = 0,
         NEW c \in Connections, NEW s \in Symbols, s \in subs[c], c \in sessions,
         dropped'[c] = 0, Carried(c, s)
  PROVE  Carried(c, s)'
<1>0. /\ UNCHANGED <<sending, snapshot, log, pc>>
      /\ \A n : Sent(c, s, n)' <=> Sent(c, s, n)
  BY DEF FeedStep, ProcessorStep, ReadBatch, CacheQuote, PublishFanout, Fanout, ListenerFails, sendVars, Sent
<1>1. ASSUME NEW p \in Processors, NEW k \in 1..MaxQuotes, NEW symbols \in [1..k -> Symbols],
             ReadBatch(p, symbols)
      PROVE  Carried(c, s)'
  <2>1. PICK batch : hand' = [hand EXCEPT ![p] = batch]
    BY <1>1 DEF ReadBatch
  <2>2. hand[p] = <<>> /\ UNCHANGED <<cached, latest, published, heard, buffer>>
    BY <1>1 DEF ReadBatch
  <2>3. \A q \in cached : hand'[q] = hand[q]
    BY <2>1, <2>2 DEF TypeOK, OrderInv, FeedOK
  <2>4. Publishing(s) => Publishing(s)'
    BY <2>2, <2>3 DEF Publishing
  <2>5. QED
    BY <1>0, <2>2, <2>4 DEF Carried, LastUnderway, LastPublished, Underway, SnapshotTaken
<1>2. ASSUME NEW p \in Processors, CacheQuote(p) PROVE Carried(c, s)'
  <2>1. /\ latest' = [latest EXCEPT ![Head(hand[p]).symbol] = Head(hand[p]).number]
        /\ cached' = cached \cup {p}
        /\ UNCHANGED <<hand, published, heard, buffer>>
    BY <1>2 DEF CacheQuote
  <2>2. CASE Head(hand[p]).symbol = s
    BY <2>1, <2>2 DEF Carried, Publishing
  <2>3. CASE Head(hand[p]).symbol # s
    <3>1. latest'[s] = latest[s]
      BY <2>1, <2>3 DEF TypeOK
    <3>2. Publishing(s) => Publishing(s)'
      BY <2>1 DEF Publishing
    <3>3. QED
      BY <1>0, <2>1, <3>1, <3>2 DEF Carried, LastUnderway, LastPublished, Underway, SnapshotTaken
  <2>4. QED
    BY <2>2, <2>3
<1>3. ASSUME NEW p \in Processors, PublishFanout(p) PROVE Carried(c, s)'
  <2>1. UNCHANGED <<latest, heard, buffer>>
    BY <1>3 DEF PublishFanout
  <2>2. /\ Len(published) \in Nat /\ DOMAIN published = 1..Len(published)
        /\ DOMAIN published' = 1..Len(published) + 1
        /\ \A k \in DOMAIN published : published'[k] = published[k]
        /\ published'[Len(published) + 1] = Head(hand[p])
        /\ hand' = [hand EXCEPT ![p] = Tail(hand[p])] /\ cached' = cached \ {p}
    BY <1>3, PublishAppends DEF OrderInv
  <2>3. heard \in Nat /\ heard <= Len(published)
    BY DEF TypeOK, OrderInv, FeedOK
  <2>4. CASE Head(hand[p]).symbol = s
    <3>1. PICK n : n = Len(published) + 1
      OBVIOUS
    <3>2. heard' < n
      BY <2>1, <2>2, <2>3, <3>1
    <3>3. n \in DOMAIN published' /\ published'[n].symbol = s
      BY <2>2, <2>4, <3>1
    <3>4. LastPublished(s, n)'
      BY <2>2, <3>1 DEF LastPublished
    <3>5. QED
      BY <3>2, <3>3, <3>4 DEF Carried, LastUnderway, Underway
  <2>5. CASE Head(hand[p]).symbol # s
    <3>1. Publishing(s) => Publishing(s)'
      BY <2>2, <2>5 DEF Publishing, TypeOK
    <3>2. LastUnderway(c, s) => LastUnderway(c, s)'
      <4>1. ASSUME NEW n \in DOMAIN published, published[n].symbol = s, LastPublished(s, n), Underway(c, s, n)
            PROVE  LastUnderway(c, s)'
        <5>1. n \in DOMAIN published' /\ published'[n].symbol = s
          BY <2>2, <4>1
        <5>2. LastPublished(s, n)'
          BY <2>2, <2>5, <4>1 DEF LastPublished
        <5>3. Underway(c, s, n)'
          BY <1>0, <2>1, <4>1 DEF Underway
        <5>4. QED
          BY <5>1, <5>2, <5>3 DEF LastUnderway
      <4>2. QED
        BY <4>1 DEF LastUnderway
    <3>3. SnapshotTaken(c, s) => SnapshotTaken(c, s)'
      BY <1>0, <2>1 DEF SnapshotTaken
    <3>4. QED
      BY <2>1, <3>1, <3>2, <3>3 DEF Carried
  <2>6. QED
    BY <2>4, <2>5
<1>4. CASE Fanout
  <2>1. UNCHANGED <<hand, cached, latest, published>>
    BY <1>4 DEF Fanout
  <2>2. /\ heard \in Nat /\ heard' = heard + 1 /\ heard + 1 \in DOMAIN published
        /\ DOMAIN published \subseteq Nat
    <3>1. heard \in Nat /\ heard' = heard + 1 /\ heard + 1 \in DOMAIN published
      BY <1>4, FanoutTakes
    <3>2. DOMAIN published \subseteq Nat
      BY DEF TypeOK
    <3>3. QED
      BY <3>1, <3>2
  <2>3. IF s = published[heard + 1].symbol THEN buffer'[c][s] = heard + 1
                                           ELSE buffer'[c][s] = buffer[c][s]
    BY <1>4, FanoutStores DEF HubInv
  <2>4. LastUnderway(c, s) => LastUnderway(c, s)'
    <3>1. ASSUME NEW n \in DOMAIN published, published[n].symbol = s, LastPublished(s, n), Underway(c, s, n)
          PROVE  Underway(c, s, n)'
      <4>1. CASE heard < n
        <5>1. CASE n = heard + 1
          BY <2>3, <3>1, <5>1 DEF Underway
        <5>2. CASE n # heard + 1
          BY <2>2, <4>1, <5>2 DEF Underway
        <5>3. QED
          BY <5>1, <5>2
      <4>2. CASE buffer[c][s] = n
        <5>1. n <= heard
          BY <4>2 DEF OrderInv, QueueOK
        <5>2. s # published[heard + 1].symbol
          BY <2>2, <3>1, <5>1 DEF LastPublished
        <5>3. QED
          BY <2>3, <4>2, <5>2 DEF Underway
      <4>3. CASE (sending[c].symbol = s /\ sending[c].turn = n) \/ Sent(c, s, n)
        BY <1>0, <4>3 DEF Underway
      <4>4. QED
        BY <3>1, <4>1, <4>2, <4>3 DEF Underway
    <3>2. QED
      BY <2>1, <3>1 DEF LastUnderway, LastPublished
  <2>5. Publishing(s) => Publishing(s)'
    BY <2>1 DEF Publishing
  <2>6. SnapshotTaken(c, s) => SnapshotTaken(c, s)'
    BY <1>0, <2>1 DEF SnapshotTaken
  <2>7. QED
    BY <2>1, <2>4, <2>5, <2>6 DEF Carried
<1>5. CASE ListenerFails
  <2>1. faults' = faults + 1 /\ faults \in Nat
    BY <1>5 DEF ListenerFails, TypeOK
  <2>2. QED
    BY <2>1
<1>6. QED
  BY <1>1, <1>2, <1>3, <1>4, <1>5 DEF FeedStep, ProcessorStep

\* The feed keeps every subscribed symbol carried.
LEMMA FeedCarried ==
  ASSUME TypeOK, HubInv, OrderInv, CarriedOK, FeedStep
  PROVE  CarriedOK'
<1>1. /\ UNCHANGED <<subs, pc, todo, snapshot>>
      /\ faults' = faults \/ faults' = faults + 1
  BY DEF FeedStep, ProcessorStep, ReadBatch, CacheQuote, PublishFanout, Fanout, ListenerFails, hubVars
<1>2. \A c \in Connections : dropped'[c] = dropped[c] \/ dropped'[c] = dropped[c] + 1
  <2>1. CASE Fanout
    BY <2>1, FanoutHands
  <2>2. CASE ~Fanout
    BY <2>2 DEF FeedStep, ProcessorStep, ReadBatch, CacheQuote, PublishFanout, ListenerFails
  <2>3. QED
    BY <2>1, <2>2
<1>3. faults \in Nat /\ \A c \in Connections : dropped[c] \in Nat
  BY DEF TypeOK
<1>4. ASSUME faults' = 0, NEW c \in Connections, NEW s \in subs[c], pc[c] \in Receiving, dropped'[c] = 0
      PROVE  Carried(c, s)' \/ Unread(c, s)'
  <2>1. s \in Symbols /\ c \in sessions
    BY <1>4 DEF TypeOK, HubInv, HandlerOK
  <2>2. faults = 0 /\ dropped[c] = 0
    BY <1>1, <1>2, <1>3, <1>4
  <2>3. Carried(c, s) \/ Unread(c, s)
    BY <1>4, <2>2 DEF CarriedOK
  <2>4. Unread(c, s) => Unread(c, s)'
    BY <1>1 DEF Unread
  <2>5. Carried(c, s) => Carried(c, s)'
    BY <1>4, <2>1, FeedCarries
  <2>6. QED
    BY <2>3, <2>4, <2>5
<1>5. QED
  BY <1>1, <1>4 DEF CarriedOK

\* A task of c that keeps what c holds, or moves it towards the client, keeps
\* s carried.
LEMMA CarriedMoves ==
  ASSUME NEW c \in Connections, NEW s \in Symbols, Carried(c, s), UNCHANGED feedVars,
         \A i \in DOMAIN log[c] : i \in DOMAIN log'[c] /\ log'[c][i] = log[c][i],
         \/ buffer'[c][s] = buffer[c][s]
         \/ sending'[c].symbol = s /\ sending'[c].turn = buffer[c][s],
         \A n : sending[c].symbol = s /\ sending[c].turn = n =>
                sending'[c] = sending[c] \/ Sent(c, s, n)',
         pc[c] = "snapsend" /\ snapshot[c].symbol = s =>
           \/ pc'[c] = "snapsend" /\ snapshot'[c] = snapshot[c]
           \/ \E i \in DOMAIN log'[c] : log'[c][i].symbol = s /\ log'[c][i].number = snapshot[c].number
  PROVE  Carried(c, s)'
<1>1. UNCHANGED <<hand, cached, latest, published, heard>>
  BY DEF feedVars
<1>2. \A n : Sent(c, s, n) => Sent(c, s, n)'
  BY DEF Sent
<1>3. \A n : Underway(c, s, n) => Underway(c, s, n)'
  BY <1>1, <1>2 DEF Underway
<1>4. LastUnderway(c, s) => LastUnderway(c, s)'
  BY <1>1, <1>3 DEF LastUnderway, LastPublished
<1>5. SnapshotTaken(c, s) => SnapshotTaken(c, s)'
  BY <1>1 DEF SnapshotTaken
<1>6. Publishing(s) => Publishing(s)'
  BY <1>1 DEF Publishing
<1>7. QED
  BY <1>1, <1>4, <1>5, <1>6 DEF Carried

\* No task of a connection loses a quote that the connection holds: the
\* snapshot is read after the hub has listed the session.
LEMMA TasksCarry ==
  ASSUME TypeOK, HandlerOK, OrderInv, NEW c \in Connections, ConnectionStep(c),
         pc'[c] \in Receiving, NEW s \in Symbols, s \in subs'[c],
         s \in subs[c] /\ pc[c] \in Receiving => Carried(c, s) \/ Unread(c, s)
  PROVE  Carried(c, s)' \/ Unread(c, s)'
<1> USE DeliveryAssumption DEF Receiving
<1>0. UNCHANGED feedVars /\ latest' = latest
  BY OthersUntouched DEF feedVars
<1>1. CASE UNCHANGED <<buffer, sending, snapshot, pc, subs, todo, log>>
  <2>1. Carried(c, s) => Carried(c, s)'
    BY <1>0, <1>1, CarriedMoves
  <2>2. QED
    BY <1>1, <2>1 DEF Unread
<1>2. CASE TakeDue(c)
  <2>1. PICK t : t = First({x \in due[c] : buffer[c][x] # 0})
    OBVIOUS
  <2>2. /\ sending' = [sending EXCEPT ![c] = [symbol |-> t, turn |-> buffer[c][t]]]
        /\ sending[c] = NoTurn
        /\ buffer' = [buffer EXCEPT ![c][t] = 0]
        /\ UNCHANGED <<log, snapshot, pc, subs, todo>>
    BY <1>2, <2>1 DEF TakeDue, hubVars
  <2>3. /\ sending[c].symbol # s
        /\ sending'[c].symbol = t /\ sending'[c].turn = buffer[c][t]
        /\ s # t => buffer'[c][s] = buffer[c][s]
    BY <2>2 DEF TypeOK, NoTurn
  <2>4. Carried(c, s) => Carried(c, s)'
    BY <1>0, <2>2, <2>3, CarriedMoves
  <2>5. QED
    BY <2>2, <2>4 DEF Unread
<1>3. CASE SendQuote(c)
  <2>1. sending[c] \in TurnRecord
    BY <1>3 DEF SendQuote, TypeOK
  <2>2. sending[c].symbol \in Symbols
    BY <2>1 DEF TurnRecord
  <2>3. sending[c].turn \in DOMAIN published
    BY <2>2 DEF OrderInv, QueueOK, FeedOK, TypeOK
  <2>4. PICK m \in Message : m.type = "quote" /\ m.symbol = sending[c].symbol
                             /\ m.turn = sending[c].turn /\ m = Live(sending[c])
    BY <2>1, <2>3, MessageType DEF Live
  <2>5. /\ log' = [log EXCEPT ![c] = Append(@, m)]
        /\ UNCHANGED <<buffer, snapshot, pc, subs, todo>>
    BY <1>3, <2>4 DEF SendQuote, hubVars
  <2>6. /\ \A i \in DOMAIN log[c] : i \in DOMAIN log'[c] /\ log'[c][i] = log[c][i]
        /\ \E i \in DOMAIN log'[c] : log'[c][i] = m
    <3>1. /\ \A i \in DOMAIN log[c] : log'[c][i] = log[c][i]
          /\ Len(log[c]) \in Nat /\ DOMAIN log[c] = 1..Len(log[c])
          /\ DOMAIN log'[c] = 1..Len(log[c]) + 1 /\ log'[c][Len(log[c]) + 1] = m
      BY <2>5, LogGrows
    <3>2. QED
      BY <3>1
  <2>7. \A n : sending[c].symbol = s /\ sending[c].turn = n => Sent(c, s, n)'
    BY <2>4, <2>6 DEF Sent
  <2>8. Carried(c, s) => Carried(c, s)'
    BY <1>0, <2>5, <2>6, <2>7, CarriedMoves
  <2>9. QED
    BY <2>5, <2>8 DEF Unread
<1>4. CASE SendSnapshot(c)
  <2>1. PICK m \in Message : m = Snapshot(snapshot[c])
    BY MessageType DEF TypeOK
  <2>2. /\ log' = [log EXCEPT ![c] = Append(@, m)] /\ pc[c] = "snapsend"
        /\ todo' = [todo EXCEPT ![c] = todo[c] \ {snapshot[c].symbol}]
        /\ pc' = [pc EXCEPT ![c] = AfterSnapshot(todo[c] \ {snapshot[c].symbol})]
        /\ UNCHANGED <<buffer, sending, subs>>
    BY <1>4, <2>1 DEF SendSnapshot, hubVars, sendVars
  <2>3. /\ \A i \in DOMAIN log[c] : i \in DOMAIN log'[c] /\ log'[c][i] = log[c][i]
        /\ \E i \in DOMAIN log'[c] : log'[c][i] = m
    <3>1. /\ \A i \in DOMAIN log[c] : log'[c][i] = log[c][i]
          /\ Len(log[c]) \in Nat /\ DOMAIN log[c] = 1..Len(log[c])
          /\ DOMAIN log'[c] = 1..Len(log[c]) + 1 /\ log'[c][Len(log[c]) + 1] = m
      BY <2>2, LogGrows
    <3>2. QED
      BY <3>1
  <2>4. m.symbol = snapshot[c].symbol /\ m.number = snapshot[c].number
    BY <2>1 DEF Snapshot
  <2>5. Carried(c, s) => Carried(c, s)'
    BY <1>0, <2>2, <2>3, <2>4, CarriedMoves
  <2>6. Unread(c, s) => Unread(c, s)'
    BY <2>2 DEF Unread, AfterSnapshot, TypeOK
  <2>7. QED
    BY <2>2, <2>5, <2>6
<1>5. CASE SendAck(c)
  <2>1. /\ log' = [log EXCEPT ![c] = Append(@, Ack)] /\ Ack \in Message /\ pc[c] = "ack"
        /\ UNCHANGED <<buffer, sending, snapshot, subs, todo>>
    BY <1>5, MessageType DEF SendAck, hubVars, sendVars
  <2>2. \A i \in DOMAIN log[c] : i \in DOMAIN log'[c] /\ log'[c][i] = log[c][i]
    BY <2>1, LogGrows
  <2>3. Carried(c, s) => Carried(c, s)'
    BY <1>0, <2>1, <2>2, CarriedMoves
  <2>4. QED
    BY <2>1, <2>3 DEF Unread
<1>6. CASE GetLatest(c)
  <2>1. PICK t : t = First(todo[c])
    OBVIOUS
  <2>2. /\ pc[c] = "snapshot"
        /\ UNCHANGED <<buffer, sending, log, subs>>
    BY <1>6 DEF GetLatest, hubVars, sendVars
  <2>3. Carried(c, s) => Carried(c, s)'
    BY <1>0, <2>2, CarriedMoves
  <2>4. ASSUME Unread(c, s) PROVE Carried(c, s)' \/ Unread(c, s)'
    <3>1. CASE latest[t] # 0
      <4>1. /\ snapshot' = [snapshot EXCEPT ![c] = [symbol |-> t, number |-> latest[t]]]
            /\ pc' = [pc EXCEPT ![c] = "snapsend"] /\ todo' = todo
        BY <1>6, <2>1, <3>1 DEF GetLatest
      <4>2. snapshot'[c].symbol = t /\ snapshot'[c].number = latest[t] /\ pc'[c] = "snapsend"
        BY <4>1 DEF TypeOK
      <4>3. QED
        BY <1>0, <2>4, <4>1, <4>2 DEF Carried, SnapshotTaken, Unread
    <3>2. CASE latest[t] = 0
      <4>1. /\ todo' = [todo EXCEPT ![c] = todo[c] \ {t}]
            /\ pc' = [pc EXCEPT ![c] = AfterSnapshot(todo[c] \ {t})]
        BY <1>6, <2>1, <3>2 DEF GetLatest
      <4>2. CASE s = t
        BY <1>0, <3>2, <4>2 DEF Carried
      <4>3. CASE s # t
        <5>1. s \in todo'[c] /\ pc'[c] = "snapshot"
          BY <2>4, <4>1, <4>3 DEF Unread, AfterSnapshot, TypeOK
        <5>2. QED
          BY <5>1 DEF Unread
      <4>4. QED
        BY <4>2, <4>3
    <3>3. QED
      BY <3>1, <3>2
  <2>5. QED
    BY <2>2, <2>3, <2>4
<1>7. CASE HubSubscribe(c)
  <2>1. /\ pc[c] = "registry"
        /\ subs' = [subs EXCEPT ![c] = subs[c] \cup (todo[c] \ subs[c])]
        /\ todo' = [todo EXCEPT ![c] = todo[c] \ subs[c]]
        /\ pc' = [pc EXCEPT ![c] = IF todo[c] \ subs[c] = {} THEN "ack" ELSE "snapshot"]
        /\ UNCHANGED <<buffer, sending, snapshot, log>>
    BY <1>7 DEF HubSubscribe, sendVars
  <2>2. CASE s \in subs[c]
    <3>1. Carried(c, s)
      BY <2>1, <2>2 DEF Unread
    <3>2. QED
      BY <1>0, <2>1, <3>1, CarriedMoves
  <2>3. CASE s \notin subs[c]
    <3>1. s \in todo'[c] /\ pc'[c] = "snapshot"
      BY <2>1, <2>3 DEF TypeOK
    <3>2. QED
      BY <3>1 DEF Unread
  <2>4. QED
    BY <2>2, <2>3
<1>8. CASE \/ \E symbols \in SUBSET Symbols : Subscribe(c, symbols) \/ Unsubscribe(c, symbols)
           \/ RegistryUnsubscribe(c)
  <2>1. /\ pc[c] \in {"open", "unregister"}
        /\ subs' = subs \/ \E x : subs' = [subs EXCEPT ![c] = @ \ x]
        /\ UNCHANGED <<buffer, sending, snapshot, log>>
    BY <1>8 DEF Subscribe, Unsubscribe, RegistryUnsubscribe, hubVars, sendVars
  <2>2. s \in subs[c]
    BY <2>1 DEF TypeOK
  <2>3. Carried(c, s)
    BY <2>1, <2>2 DEF Unread
  <2>4. QED
    BY <1>0, <2>1, <2>3, CarriedMoves
<1>9. CASE Accept(c)
  BY <1>9 DEF Accept, HandlerOK, hubVars
<1>10. CASE Acquire(c) \/ AcceptFails(c) \/ Disconnect(c) \/ Release(c) \/ Leave(c) \/ CommandFails(c) \/ FinallyFails(c)
  <2>1. \E x \in {"admitted", "refused", "gone", "release", "disconnect"} : pc' = [pc EXCEPT ![c] = x]
    BY <1>10 DEF Acquire, AcceptFails, Disconnect, Release, Leave, CommandFails, EndReceiving, FinallyFails
  <2>2. QED
    BY <2>1 DEF TypeOK
<1>11. CASE LeaseLapses(c) \/ \E x \in Symbols : IntervalPasses(c, x)
  BY <1>1, <1>11 DEF LeaseLapses, IntervalPasses, hubVars, sendVars
<1>12. QED
  BY <1>2, <1>3, <1>4, <1>5, <1>6, <1>7, <1>8, <1>9, <1>10, <1>11 DEF ConnectionStep, HandlerStep, SenderStep

\* The tasks of the connections keep every subscribed symbol carried.
LEMMA ConnectionCarried ==
  ASSUME TypeOK, TypeOK', HandlerOK, OrderInv, CarriedOK, NEW c \in Connections, ConnectionStep(c)
  PROVE  CarriedOK'
<1>1. UNCHANGED feedVars /\ dropped' = dropped
  BY OthersUntouched DEF feedVars
<1>2. SUFFICES ASSUME faults' = 0, NEW d \in Connections, NEW s \in subs'[d],
                      pc'[d] \in Receiving, dropped'[d] = 0
               PROVE  Carried(d, s)' \/ Unread(d, s)'
  BY DEF CarriedOK
<1>3. faults = 0
  BY <1>2, OthersUntouched
<1>4. s \in Symbols
  BY DEF TypeOK
<1>5. CASE d = c
  <2>1. s \in subs[c] /\ pc[c] \in Receiving => Carried(c, s) \/ Unread(c, s)
    BY <1>1, <1>2, <1>3, <1>5 DEF CarriedOK
  <2>2. Carried(c, s)' \/ Unread(c, s)'
    BY <1>2, <1>4, <1>5, <2>1, TasksCarry
  <2>3. QED
    BY <1>5, <2>2
<1>6. CASE d # c
  <2>1. /\ subs'[d] = subs[d] /\ pc'[d] = pc[d] /\ todo'[d] = todo[d]
        /\ snapshot'[d] = snapshot[d] /\ sending'[d] = sending[d]
        /\ buffer'[d] = buffer[d] /\ log'[d] = log[d]
    BY <1>6, OthersUntouched
  <2>2. Carried(d, s) \/ Unread(d, s)
    BY <1>1, <1>2, <1>3, <2>1 DEF CarriedOK
  <2>3. Carried(d, s) => Carried(d, s)'
    BY <1>1, <1>4, <2>1, CarriedMoves
  <2>4. Unread(d, s) => Unread(d, s)'
    BY <2>1 DEF Unread
  <2>5. QED
    BY <2>2, <2>3, <2>4
<1>7. QED
  BY <1>5, <1>6

-----------------------------------------------------------------------------
(* The theorems *)

\* The inductive invariant holds initially.
LEMMA DeliveryInit ==
  ASSUME Init
  PROVE  DeliveryInv
<1> USE DeliveryAssumption
<1>1. TypeOK
  BY DEF Init, TypeOK, Stages, Receiving
<1>2. HubInv
  BY DEF Init, HubInv, HandlerOK, HubIndexExact, DeliveredIsRegistered, EndedLeavesNothing, Receiving
<1>3. FeedOK /\ LiveInOrder
  BY DEF Init, FeedOK, LiveInOrder
<1>4. heard = 0 /\ \A c \in Connections, s \in Symbols :
        buffer[c][s] = 0 /\ sending[c].symbol # s /\ log[c] = <<>>
  BY DEF Init, NoTurn
<1>5. QueueOK
  BY <1>4 DEF QueueOK, Sent
<1>6. CarriedOK
  BY DEF Init, CarriedOK
<1>7. QED
  BY <1>1, <1>2, <1>3, <1>5, <1>6 DEF DeliveryInv, OrderInv

\* Every step preserves the inductive invariant.
LEMMA DeliveryStep ==
  ASSUME DeliveryInv, [Next]_vars
  PROVE  DeliveryInv'
<1> USE DEF DeliveryInv
<1>1. CASE FeedStep
  <2>1. TypeOK'
    BY <1>1, FeedType DEF OrderInv
  <2>2. HubInv'
    <3>1. /\ UNCHANGED <<slots, hubVars, leaseVars, pc, todo, snapshot>>
          /\ faults' = faults \/ faults' = faults + 1
      BY <1>1 DEF FeedStep, ProcessorStep, ReadBatch, CacheQuote, PublishFanout, Fanout, ListenerFails
    <3>2. faults \in Nat
      BY DEF TypeOK
    <3>3. faults' = faults \/ faults' # 0
      BY <3>1, <3>2
    <3>4. QED
      BY <3>1, <3>3, HubKept
  <2>3. OrderInv'
    BY <1>1, <2>1, FeedOrder
  <2>4. CarriedOK'
    BY <1>1, FeedCarried
  <2>5. QED
    BY <2>1, <2>2, <2>3, <2>4
<1>2. ASSUME NEW c \in Connections, ConnectionStep(c) PROVE DeliveryInv'
  <2>1. HandlerOK
    BY DEF HubInv
  <2>2. TypeOK'
    BY <1>2, <2>1, ConnectionType
  <2>3. HubInv'
    BY <1>2, <2>2, HubStep
  <2>4. OrderInv'
    BY <1>2, <2>2, ConnectionOrder
  <2>5. CarriedOK'
    BY <1>2, <2>1, <2>2, ConnectionCarried
  <2>6. QED
    BY <2>2, <2>3, <2>4, <2>5
<1>3. CASE UNCHANGED vars
  <2>1. UNCHANGED <<feedVars, slots, hubVars, buffer, leaseVars, pc, todo, snapshot, sendVars,
                    log, commands, faults>>
    BY <1>3 DEF vars
  <2>2. TypeOK'
    BY <2>1 DEF feedVars, hubVars, leaseVars, sendVars, TypeOK
  <2>3. HubInv'
    BY <2>1, HubKept
  <2>4. OrderInv'
    BY <2>1 DEF feedVars, sendVars, OrderInv, FeedOK, QueueOK, LiveInOrder, Sent
  <2>5. CarriedOK'
    BY <2>1 DEF feedVars, hubVars, sendVars, CarriedOK, Carried, Publishing, LastUnderway,
       LastPublished, Underway, Sent, SnapshotTaken, Unread
  <2>6. QED
    BY <2>2, <2>3, <2>4, <2>5
<1>4. QED
  BY <1>1, <1>2, <1>3 DEF Next, FeedStep, ProcessorStep, ConnectionStep

\* The inductive invariant of the delivery: its parts are the facts that the
\* hub, the buffers, the handlers and the send loops keep about one another.
THEOREM DeliveryInvariant == Spec => []DeliveryInv
<1>1. Init => DeliveryInv
  BY DeliveryInit
<1>2. DeliveryInv /\ [Next]_vars => DeliveryInv'
  BY DeliveryStep
<1>3. QED
  BY <1>1, <1>2, PTL DEF Spec

\* The state of the hub, of the buffers and of the handlers of market_stream is
\* well typed.
THEOREM DeliveryTypeCorrect == Spec => []TypeOK
<1>1. DeliveryInv => TypeOK
  BY DEF DeliveryInv
<1>2. QED
  BY <1>1, DeliveryInvariant, PTL

\* ConnectionHub lists every session under exactly the symbols that it is
\* subscribed to, in every order of commands, disconnects and failures.
THEOREM HubIndexIsExact == Spec => []HubIndexExact
<1>1. DeliveryInv => HubIndexExact
  BY DEF DeliveryInv, HubInv
<1>2. QED
  BY <1>1, DeliveryInvariant, PTL

\* What the hub delivers to a receiving session is listed in the key of its
\* connection unless the key has expired: the receive loop keeps the hub
\* behind the registry in every order of commands and failures.
THEOREM DeliveryIsRegistered == Spec => []DeliveredIsRegistered
<1>1. DeliveryInv => DeliveredIsRegistered
  BY DEF DeliveryInv, HubInv
<1>2. QED
  BY <1>1, DeliveryInvariant, PTL

\* The finally block of market_stream leaves nothing of a connection behind
\* unless a call has failed.
THEOREM EndedConnectionLeavesNothing == Spec => []EndedLeavesNothing
<1>1. DeliveryInv => EndedLeavesNothing
  BY DEF DeliveryInv, HubInv
<1>2. QED
  BY <1>1, DeliveryInvariant, PTL

\* Live quotes of a symbol reach a client in the order of their publication:
\* LatestValueBuffer coalesces and delays, but never reorders.
THEOREM LiveQuotesInOrder == Spec => []LiveInOrder
<1>1. DeliveryInv => LiveInOrder
  BY DEF DeliveryInv, OrderInv
<1>2. QED
  BY <1>1, DeliveryInvariant, PTL

\* No quote falls between the snapshot of receive_loop and the live stream,
\* for any number of processors: the client has the cached quote or the one
\* published last.
THEOREM NoQuoteInTheGap == Spec => []NoGap
<1>1. ASSUME DeliveryInv PROVE NoGap
  <2>1. SUFFICES ASSUME NEW c \in Connections, NEW s \in subs[c],
                        pc[c] = "open", dropped[c] = 0, faults = 0, Settled(c, s)
                 PROVE  Current(c, s)
    BY DEF NoGap
  <2>2. s \in Symbols
    BY <1>1 DEF DeliveryInv, TypeOK
  <2>3. Carried(c, s)
    BY <1>1, <2>1 DEF DeliveryInv, CarriedOK, Unread, Receiving
  <2>4. ~Publishing(s)
    BY <2>1 DEF Settled, Publishing
  <2>5. LastUnderway(c, s) => Current(c, s)
    <3>1. ASSUME NEW n \in DOMAIN published, LastPublished(s, n), Underway(c, s, n)
          PROVE  Current(c, s)
      <4>1. n \in Nat /\ 1 <= n /\ n <= Len(published) /\ heard = Len(published) /\ heard \in Nat
        BY <1>1, <2>1 DEF DeliveryInv, TypeOK, Settled
      <4>2. buffer[c][s] # n /\ ~(heard < n)
        BY <2>1, <4>1 DEF Settled
      <4>3. sending[c].symbol # s
        BY <2>1, <2>2, DeliveryAssumption DEF Settled, NoTurn
      <4>4. Sent(c, s, n)
        BY <3>1, <4>2, <4>3 DEF Underway
      <4>5. QED
        BY <3>1, <4>4 DEF Sent, Current
    <3>2. QED
      BY <3>1 DEF LastUnderway
  <2>6. SnapshotTaken(c, s) => Current(c, s)
    BY <2>1 DEF SnapshotTaken, Current
  <2>7. QED
    BY <2>3, <2>4, <2>5, <2>6 DEF Carried, Current
<1>2. QED
  BY <1>1, DeliveryInvariant, PTL

=============================================================================
