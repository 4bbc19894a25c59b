--------------------------- MODULE CollectorProofs ---------------------------
(***************************************************************************)
(* Proofs of the collector and its provider, for any finite set of symbols *)
(* and any number of control messages, quotes, sessions, failures and      *)
(* restarts.                                                               *)
(***************************************************************************)
EXTENDS Collector, SequenceTheorems, FiniteSetTheorems, TLAPS

-----------------------------------------------------------------------------
(* The inductive invariant *)

ProviderRecord ==
  [state : {"disconnected", "connecting", "connected", "degraded"}, symbols : SUBSET Symbols,
   reader : {"none", "running", "done"}, heartbeats : BOOLEAN, acknowledged : SUBSET Channels]
UpstreamRecord ==
  [link : {"none", "open", "closed"}, heartbeats : BOOLEAN, symbols : SUBSET Symbols,
   confirming : BOOLEAN]
RequestRecord == [type : {"none", "subscribe", "unsubscribe"}, symbols : SUBSET Symbols]
Quote == [symbol : Symbols, number : Nat, session : Nat, book : Nat]
Entry == [quote : Quote, run : Nat]
Message == [action : Actions, symbol : Symbols]
ControlStages == {"read", "apply", "send", "await", "ack", "stopped"}
LoopStages == {"lock", "connect", "send", "await", "mark", "events", "publish", "outage",
               "disconnect", "stopped"}

ProviderType ==
  /\ provider \in ProviderRecord /\ upstream \in UpstreamRecord /\ request \in RequestRecord
  /\ session \in Nat /\ ticker \in [Symbols -> Nat] /\ sequence \in [Symbols -> Nat]
  /\ projected \in Seq(Quote) /\ queue \in Seq(Quote) /\ messages \in Nat /\ drops \in Nat

ControlType ==
  /\ stream \in Seq(Message) /\ delivered \in 0..Len(stream) /\ batch \in Seq(Message)
  /\ active \in SUBSET Symbols /\ missed \in SUBSET Symbols /\ control \in ControlStages

LoopType ==
  /\ loop \in LoopStages /\ taken \in Seq(Quote)
  /\ published \in Seq(Entry)
  /\ lock \in {"free", "control", "provider"} /\ runs \in Nat \ {0} /\ faults \in Nat

TypeOK == ProviderType /\ ControlType /\ LoopType

\* What each stage of the two loops holds: the lock, a batch, a quote.
StagesOK ==
  /\ lock = "control" <=> control \in {"send", "await"}
  /\ lock = "provider" <=> loop \in {"connect", "send", "await"}
  /\ control = "stopped" <=> loop = "stopped"
  /\ control \in {"apply", "send", "await", "ack"} => batch # <<>>
  /\ control \in {"read", "stopped"} => batch = <<>>
  /\ IF loop = "publish" THEN Len(taken) = 1 ELSE taken = <<>>

\* Between disconnect and the handshake there is no session.
DownOK ==
  /\ loop \in {"lock", "stopped"} => provider = Offline /\ upstream = NoSession
  /\ loop = "connect" =>
       /\ provider.state = "connecting" /\ provider.symbols = {} /\ provider.acknowledged = {}
       /\ provider.reader = "none" /\ upstream = NoSession
       /\ ticker = [s \in Symbols |-> 0]

\* What the server will deliver once the request is sent is what is active.
ServesOK ==
  provider.state = "connected" /\ upstream.link = "open" =>
    /\ provider.symbols = active
    /\ IF control # "send" /\ loop # "send" THEN upstream.symbols = active
       ELSE \/ request.type = "subscribe" /\ upstream.symbols \cup request.symbols = active
            \/ request.type = "unsubscribe" /\ upstream.symbols \ request.symbols = active

\* Number of control messages that were applied or thrown away.
Applied == IF control \in {"send", "await", "ack"} THEN delivered - Len(batch) + 1
                                                   ELSE delivered - Len(batch)

\* The last valid of the first n messages about s asks for it.
WantedAt(ms, s, n) ==
  \E i \in 1..n : /\ ms[i].symbol = s /\ ms[i].action = "subscribe"
                  /\ \A j \in i+1..n : ms[j].symbol = s => ms[j].action = "invalid"

\* The batch is what was delivered last; the active symbols are the wanted ones
\* of the messages before it.
WantedOK ==
  /\ Len(batch) <= delivered
  /\ \A k \in 1..Len(batch) : batch[k] = stream[delivered - Len(batch) + k]
  /\ control # "stopped" /\ runs = 1 =>
       \A s \in Symbols \ missed : s \in active <=> WantedAt(stream, s, Applied)

\* Quotes of one symbol in xs are numbered before those in ys.
Before(xs, ys) ==
  \A i \in DOMAIN xs, j \in DOMAIN ys :
    xs[i].symbol = ys[j].symbol => xs[i].number < ys[j].number
Increasing(xs) ==
  \A i, j \in DOMAIN xs : i < j /\ xs[i].symbol = xs[j].symbol => xs[i].number < xs[j].number

\* Entry i of the quote stream was published by the process that is running.
Current(i) == published[i].run = runs /\ loop # "stopped"

\* A quote on its way: its number was given out, and comes after those that are
\* published; its book is of its own session.
QuoteOK(q) ==
  /\ q.book \in {0, q.session} /\ q.number <= sequence[q.symbol]
  /\ \A i \in DOMAIN published :
       Current(i) /\ published[i].quote.symbol = q.symbol => published[i].quote.number < q.number

\* The quotes of this run are in the stream, in the hands of the loop, in the
\* queue and in the hands of the reader, in the order of their numbers.
OrderOK ==
  /\ Increasing(queue) /\ Increasing(projected)
  /\ Before(taken, queue) /\ Before(taken, projected) /\ Before(queue, projected)
  /\ \A q \in Range(taken) \cup Range(queue) \cup Range(projected) : QuoteOK(q)
  /\ \A i \in DOMAIN published :
       /\ published[i].run <= runs
       /\ Current(i) => published[i].quote.number <= sequence[published[i].quote.symbol]
  /\ \A s \in Symbols : ticker[s] \in {0, session}

CollectorInv ==
  /\ TypeOK /\ StagesOK /\ DownOK /\ ServesOK /\ WantedOK /\ OrderOK
  /\ PublishedInOrder

-----------------------------------------------------------------------------
(* Types *)

\* The records of a provider without a session.
LEMMA DownRecords ==
  /\ Offline \in ProviderRecord /\ NoSession \in UpstreamRecord /\ NoRequest \in RequestRecord
  /\ [s \in Symbols |-> 0] \in [Symbols -> Nat]
BY DEF Offline, NoSession, NoRequest, ProviderRecord, UpstreamRecord, RequestRecord

\* The provider's record and its request when subscribe or unsubscribe begins.
LEMMA RequestType ==
  ASSUME NEW p \in ProviderRecord, NEW S \in SUBSET Symbols
  PROVE  /\ Subscribing(p, S) \in ProviderRecord /\ Unsubscribing(p, S) \in ProviderRecord
         /\ SubscribeRequest(p, S) \in RequestRecord /\ UnsubscribeRequest(p, S) \in RequestRecord
<1>1. p.symbols \in SUBSET Symbols
  BY DEF ProviderRecord
<1>2. Subscribing(p, S) \in ProviderRecord /\ Unsubscribing(p, S) \in ProviderRecord
  BY <1>1 DEF Subscribing, Unsubscribing, ProviderRecord
<1>3. SubscribeRequest(p, S) \in RequestRecord /\ UnsubscribeRequest(p, S) \in RequestRecord
  BY <1>1 DEF SubscribeRequest, UnsubscribeRequest, NoRequest, RequestRecord
<1>4. QED
  BY <1>2, <1>3

\* The calls of the provider keep its types.
LEMMA ProviderCalls ==
  ASSUME ProviderType, active \in SUBSET Symbols,
         \/ BeginConnect \/ Connected(active) \/ ConnectFails \/ SendSubscribe \/ SendUnsubscribe
         \/ SendRaises \/ Disconnect \/ ReceiveSubscriptions
  PROVE  ProviderType'
<1> USE DEF ProviderType
<1>1. CASE BeginConnect
  BY <1>1, DownRecords DEF BeginConnect, ProviderRecord
<1>2. CASE Connected(active)
  <2>1. [provider EXCEPT !.state = "connected", !.reader = "running", !.heartbeats = FALSE] \in ProviderRecord
    BY DEF ProviderRecord
  <2>2. provider' \in ProviderRecord
    BY <1>2, <2>1, RequestType DEF Connected
  <2>3. request' \in RequestRecord
    BY <1>2, <2>1, RequestType, DownRecords DEF Connected
  <2>4. upstream' \in UpstreamRecord
    BY <1>2 DEF Connected, NoSession, UpstreamRecord
  <2>5. QED
    BY <1>2, <2>2, <2>3, <2>4 DEF Connected
<1>3. CASE ConnectFails
  <2>1. provider' \in ProviderRecord
    BY <1>3 DEF ConnectFails, ProviderRecord
  <2>2. drops' \in Nat
    BY <1>3 DEF ConnectFails
  <2>3. QED
    BY <1>3, <2>1, <2>2 DEF ConnectFails
<1>4. CASE SendSubscribe
  <2>1. upstream' \in UpstreamRecord
    <3>1. upstream.symbols \cup request.symbols \in SUBSET Symbols
      BY DEF UpstreamRecord, RequestRecord
    <3>2. QED
      BY <1>4, <3>1 DEF SendSubscribe, UpstreamRecord
  <2>2. provider' \in ProviderRecord
    BY <1>4 DEF SendSubscribe, ProviderRecord
  <2>3. QED
    BY <1>4, <2>1, <2>2, DownRecords DEF SendSubscribe
<1>5. CASE SendUnsubscribe
  <2>1. upstream' \in UpstreamRecord
    <3>1. upstream.symbols \ request.symbols \in SUBSET Symbols
      BY DEF UpstreamRecord, RequestRecord
    <3>2. QED
      BY <1>5, <3>1 DEF SendUnsubscribe, UpstreamRecord
  <2>2. provider' \in ProviderRecord
    BY <1>5 DEF SendUnsubscribe, ProviderRecord
  <2>3. QED
    BY <1>5, <2>1, <2>2, DownRecords DEF SendUnsubscribe
<1>6. CASE SendRaises
  BY <1>6, DownRecords DEF SendRaises
<1>7. CASE Disconnect
  BY <1>7, DownRecords DEF Disconnect
<1>8. CASE ReceiveSubscriptions
  <2>1. provider' \in ProviderRecord
    <3>1. provider.acknowledged \cup Listed \in SUBSET Channels
      BY DEF ProviderRecord, Listed, Channels, BookChannels
    <3>2. QED
      BY <1>8, <3>1 DEF ReceiveSubscriptions, ProviderRecord
  <2>2. upstream' \in UpstreamRecord
    BY <1>8 DEF ReceiveSubscriptions, UpstreamRecord
  <2>3. QED
    BY <1>8, <2>1, <2>2 DEF ReceiveSubscriptions
<1>9. QED
  BY <1>1, <1>2, <1>3, <1>4, <1>5, <1>6, <1>7, <1>8

\* _project_trades numbers the quotes of a message, one per symbol.
LEMMA TradesEffect ==
  ASSUME ProviderType, NEW symbols \in SUBSET Symbols, NEW bad \in SUBSET Symbols,
         ReceiveTrades(symbols, bad)
  PROVE  /\ sequence' \in [Symbols -> Nat] /\ projected' \in Seq(Quote)
         /\ projected = <<>>
         /\ \A s \in Symbols : sequence[s] <= sequence'[s]
         /\ \A i \in DOMAIN projected' :
              /\ projected'[i].number = sequence[projected'[i].symbol] + 1
              /\ projected'[i].number = sequence'[projected'[i].symbol]
              /\ projected'[i].session = session /\ projected'[i].book = ticker[projected'[i].symbol]
         /\ \A i, j \in DOMAIN projected' : i # j => projected'[i].symbol # projected'[j].symbol
<1> DEFINE built == {s \in symbols : \A b \in bad : Rank[s] < Rank[b]}
<1>1. sequence' = [s \in Symbols |-> IF s \in built THEN sequence[s] + 1 ELSE sequence[s]]
  BY DEF ReceiveTrades
<1>2. built \subseteq Symbols /\ Cardinality(built) \in Nat
  BY ProviderAssumption, FS_Subset, FS_CardinalityType
<1>3. PICK order \in [1..Cardinality(built) -> built] :
        /\ \A i, j \in DOMAIN order : i < j => Rank[order[i]] < Rank[order[j]]
        /\ projected' = IF bad # {} THEN <<>>
                        ELSE [i \in DOMAIN order |-> QuoteOf(order[i], sequence'[order[i]])]
  BY DEF ReceiveTrades
<1> DEFINE n == Cardinality(built)
<1>4. n \in Nat /\ DOMAIN order = 1..n /\ \A i \in 1..n : order[i] \in built /\ order[i] \in Symbols
  BY <1>2, <1>3
<1>5. ASSUME NEW i \in 1..n, NEW j \in 1..n, i # j PROVE order[i] # order[j]
  <2>1. \A s \in Symbols : Rank[s] \in Nat
    BY ProviderAssumption
  <2>2. i < j \/ j < i
    BY <1>4, <1>5
  <2>3. QED
    BY <1>3, <1>4, <2>1, <2>2
<1>6. /\ sequence' \in [Symbols -> Nat]
      /\ \A s \in Symbols : sequence[s] <= sequence'[s]
      /\ \A s \in built : sequence'[s] = sequence[s] + 1 /\ sequence'[s] \in Nat
  <2>1. \A s \in Symbols : sequence[s] \in Nat
    BY DEF ProviderType
  <2>2. QED
    BY <1>1, <1>2, <2>1
<1> HIDE DEF n, built
<1>7. \A i \in 1..n : /\ QuoteOf(order[i], sequence'[order[i]]) \in Quote
                      /\ QuoteOf(order[i], sequence'[order[i]]).symbol = order[i]
                      /\ QuoteOf(order[i], sequence'[order[i]]).number = sequence'[order[i]]
                      /\ QuoteOf(order[i], sequence'[order[i]]).session = session
                      /\ QuoteOf(order[i], sequence'[order[i]]).book = ticker[order[i]]
  BY <1>4, <1>6 DEF QuoteOf, Quote, ProviderType
<1>8. projected = <<>>
  BY DEF ReceiveTrades, Reading
<1>9. CASE bad # {}
  BY <1>3, <1>6, <1>8, <1>9
<1>10. CASE bad = {}
  <2>1. projected' = [i \in 1..n |-> QuoteOf(order[i], sequence'[order[i]])]
    BY <1>3, <1>4, <1>10
  <2>2. projected' \in Seq(Quote) /\ DOMAIN projected' = 1..n
    BY <1>4, <1>7, <2>1
  <2>3. QED
    BY <1>4, <1>5, <1>6, <1>7, <1>8, <2>1, <2>2
<1>11. QED
  BY <1>9, <1>10

\* The reader keeps the types.
LEMMA ReaderType ==
  ASSUME ProviderType, ReaderStep
  PROVE  ProviderType'
<1> USE DEF ProviderType
<1>1. ASSUME NEW s \in Symbols, ReceiveTicker(s) PROVE ProviderType'
  BY <1>1 DEF ReceiveTicker
<1>2. ASSUME NEW symbols \in SUBSET Symbols, NEW bad \in SUBSET Symbols, ReceiveTrades(symbols, bad)
      PROVE  ProviderType'
  <2>1. sequence' \in [Symbols -> Nat] /\ projected' \in Seq(Quote)
    BY <1>2, TradesEffect
  <2>2. messages' \in Nat /\ UNCHANGED <<provider, upstream, request, session, ticker, queue, drops>>
    BY <1>2 DEF ReceiveTrades
  <2>3. QED
    BY <2>1, <2>2
<1>3. CASE PutEvent
  <2>1. projected \in Seq(Quote) /\ projected # <<>> /\ queue \in Seq(Quote)
    BY <1>3 DEF PutEvent
  <2>2. Head(projected) \in Quote /\ Tail(projected) \in Seq(Quote)
    BY <2>1
  <2>3. queue' \in Seq(Quote)
    <3>1. queue' = Append(queue, Head(projected)) \/ queue' = queue
      BY <1>3 DEF PutEvent
    <3>2. QED
      BY <2>1, <2>2, <3>1
  <2>4. projected' \in Seq(Quote)
    BY <1>3, <2>2 DEF PutEvent
  <2>5. UNCHANGED <<provider, upstream, request, session, ticker, sequence, messages, drops>>
    BY <1>3 DEF PutEvent
  <2>6. QED
    BY <2>3, <2>4, <2>5
<1>4. CASE LinkCloses
  <2>1. upstream' \in UpstreamRecord
    BY <1>4 DEF LinkCloses, UpstreamRecord
  <2>2. drops' \in Nat
    BY <1>4 DEF LinkCloses
  <2>3. QED
    BY <1>4, <2>1, <2>2 DEF LinkCloses
<1>5. CASE ReaderEnds
  <2>1. provider' \in ProviderRecord
    BY <1>5 DEF ReaderEnds, ProviderRecord
  <2>2. drops' \in Nat
    BY <1>5 DEF ReaderEnds
  <2>3. QED
    BY <1>5, <2>1, <2>2 DEF ReaderEnds
<1>6. QED
  BY <1>1, <1>2, <1>3, <1>4, <1>5 DEF ReaderStep

\* What is published of the quote in the hands of the loop.
LEMMA PublicationType ==
  ASSUME LoopType, Len(taken) = 1
  PROVE  /\ published \o Publication \in Seq(Entry)
         /\ published \o Publication = Append(published, [quote |-> taken[1], run |-> runs])
         /\ taken[1] \in Quote
<1>1. taken \in Seq(Quote) /\ published \in Seq(Entry) /\ runs \in Nat
  BY DEF LoopType
<1>2. taken[1] \in Quote
  BY <1>1
<1>3. [quote |-> taken[1], run |-> runs] \in Entry
  BY <1>1, <1>2 DEF Entry
<1>4. PICK x \in Entry : x = [quote |-> taken[1], run |-> runs]
  BY <1>3
<1>5. Publication = <<x>>
  BY <1>4 DEF Publication
<1>6. published \o <<x>> = Append(published, x) /\ Append(published, x) \in Seq(Entry)
  BY <1>1, AppendProperties, ConcatProperties
<1>7. QED
  BY <1>2, <1>4, <1>5, <1>6

\* LoopFails leaves the stream or adds the quote in hand.
LEMMA LoopFailsEffect ==
  ASSUME LoopType, StagesOK, LoopFails
  PROVE  \/ published' = published
         \/ loop = "publish" /\ Len(taken) = 1 /\ published' = published \o Publication
<1>1. CASE loop = "publish"
  BY <1>1 DEF LoopFails, StagesOK
<1>2. CASE loop # "publish"
  BY <1>2 DEF LoopFails, StagesOK
<1>3. QED
  BY <1>1, <1>2

\* The symbols of the messages of a batch.
LEMMA BatchSymbols ==
  ASSUME ControlType
  PROVE  /\ {m.symbol : m \in Range(batch)} \in SUBSET Symbols
         /\ batch # <<>> => {m.symbol : m \in Range(Tail(batch))} \in SUBSET Symbols
         /\ batch # <<>> => Tail(batch) \in Seq(Message) /\ Head(batch) \in Message
<1>1. batch \in Seq(Message)
  BY DEF ControlType
<1>2. \A b \in Seq(Message) : {m.symbol : m \in Range(b)} \in SUBSET Symbols
  <2>1. ASSUME NEW b \in Seq(Message), NEW m \in Range(b) PROVE m.symbol \in Symbols
    <3>1. m \in Message
      BY <2>1 DEF Range
    <3>2. QED
      BY <3>1 DEF Message
  <2>2. QED
    BY <2>1
<1>3. batch # <<>> => Tail(batch) \in Seq(Message) /\ Head(batch) \in Message
  BY <1>1
<1>4. QED
  BY <1>1, <1>2, <1>3

\* The control loop keeps its types.
LEMMA ControlSteps ==
  ASSUME TypeOK, StagesOK,
         \/ \E a \in Actions, s \in Symbols : PublishControl(a, s)
         \/ ControlStep \/ ReadGroupFails \/ AckControlFails
  PROVE  TypeOK'
<1>0. /\ stream \in Seq(Message) /\ Len(stream) \in Nat /\ delivered \in 0..Len(stream) /\ delivered \in Nat
      /\ batch \in Seq(Message) /\ active \in SUBSET Symbols /\ missed \in SUBSET Symbols
      /\ control \in ControlStages /\ LoopType /\ ProviderType /\ faults \in Nat
  BY DEF TypeOK, ControlType, LoopType
<1> USE DEF ControlStages, controlVars, loopVars
<1>a. ASSUME batch # <<>>, AbandonBatch
      PROVE  missed' \in SUBSET Symbols /\ batch' \in Seq(Message) /\ control' \in ControlStages
  <2>1. {m.symbol : m \in Range(Tail(batch))} \in SUBSET Symbols
    BY <1>a, BatchSymbols DEF TypeOK
  <2>2. QED
    BY <1>0, <1>a, <2>1 DEF AbandonBatch
<1>1. ASSUME NEW a \in Actions, NEW s \in Symbols, PublishControl(a, s) PROVE TypeOK'
  <2>1. [action |-> a, symbol |-> s] \in Message
    BY DEF Message
  <2>2. stream' \in Seq(Message) /\ delivered \in 0..Len(stream')
    BY <1>0, <1>1, <2>1 DEF PublishControl
  <2>3. QED
    BY <1>0, <1>1, <2>2 DEF PublishControl, TypeOK, ControlType, LoopType, ProviderType, providerVars
<1>2. CASE ReadGroup
  <2>1. batch' \in Seq(Message)
    BY <1>0, <1>2, SubSeqProperties DEF ReadGroup
  <2>2. delivered' \in 0..Len(stream)
    BY <1>0, <1>2 DEF ReadGroup
  <2>3. QED
    BY <1>0, <1>2, <2>1, <2>2 DEF ReadGroup, TypeOK, ControlType, LoopType, ProviderType, providerVars
<1>3. CASE ReadGroupFails
  <2>1. {stream[i].symbol : i \in (delivered + 1)..Len(stream)} \in SUBSET Symbols
    <3>1. \A i \in (delivered + 1)..Len(stream) : stream[i] \in Message
      BY <1>0
    <3>2. QED
      BY <3>1 DEF Message
  <2>2. missed' \in SUBSET Symbols /\ delivered' \in 0..Len(stream) /\ faults' \in Nat
    BY <1>0, <1>3, <2>1 DEF ReadGroupFails
  <2>3. QED
    BY <1>0, <1>3, <2>2 DEF ReadGroupFails, TypeOK, ControlType, LoopType, ProviderType, providerVars
<1>4. CASE ApplyControl
  <2>1. batch # <<>> /\ Head(batch).symbol \in Symbols
    <3>1. batch # <<>>
      BY <1>4 DEF ApplyControl, StagesOK
    <3>2. Head(batch) \in Message
      BY <1>0, <3>1
    <3>3. QED
      BY <3>1, <3>2 DEF Message
  <2>2. provider \in ProviderRecord /\ {Head(batch).symbol} \in SUBSET Symbols
    BY <1>0, <2>1 DEF ProviderType
  <2>3. provider' \in ProviderRecord /\ request' \in RequestRecord /\ active' \in SUBSET Symbols
    BY <1>0, <1>4, <2>2, RequestType, DownRecords DEF ApplyControl
  <2>4. ProviderType'
    BY <1>0, <1>4, <2>3 DEF ApplyControl, ProviderType
  <2>5. QED
    BY <1>0, <1>4, <2>3, <2>4 DEF ApplyControl, TypeOK, ControlType, LoopType
<1>5. CASE RejectControl
  BY <1>0, <1>5 DEF RejectControl, TypeOK, ControlType, LoopType, ProviderType, providerVars
<1>6. CASE ControlSubscribes
  <2>1. ProviderType'
    BY <1>0, <1>6, ProviderCalls DEF ControlSubscribes
  <2>2. QED
    BY <1>0, <1>6, <2>1 DEF ControlSubscribes, TypeOK, ControlType, LoopType
<1>7. CASE ControlUnsubscribes
  <2>1. ProviderType'
    BY <1>0, <1>7, ProviderCalls DEF ControlUnsubscribes
  <2>2. QED
    BY <1>0, <1>7, <2>1 DEF ControlUnsubscribes, TypeOK, ControlType, LoopType
<1>8. CASE ControlSendRaises
  <2>1. ProviderType'
    BY <1>0, <1>8, ProviderCalls DEF ControlSendRaises
  <2>2. missed' \in SUBSET Symbols /\ batch' \in Seq(Message) /\ control' \in ControlStages
    BY <1>8, <1>a DEF ControlSendRaises, StagesOK
  <2>3. QED
    BY <1>0, <1>8, <2>1, <2>2 DEF ControlSendRaises, TypeOK, ControlType, LoopType
<1>9. CASE AckControl
  <2>1. batch' \in Seq(Message)
    BY <1>0, <1>9 DEF AckControl, StagesOK
  <2>2. QED
    BY <1>0, <1>9, <2>1 DEF AckControl, TypeOK, ControlType, LoopType, ProviderType, providerVars
<1>10. CASE AckControlFails
  <2>1. missed' \in SUBSET Symbols /\ batch' \in Seq(Message) /\ control' \in ControlStages /\ faults' \in Nat
    BY <1>0, <1>10, <1>a DEF AckControlFails, StagesOK
  <2>2. QED
    BY <1>0, <1>10, <2>1 DEF AckControlFails, TypeOK, ControlType, LoopType, ProviderType, providerVars
<1>11. QED
  BY <1>1, <1>2, <1>3, <1>4, <1>5, <1>6, <1>7, <1>8, <1>9, <1>10 DEF ControlStep

\* Every step keeps the types.
LEMMA CollectorType ==
  ASSUME TypeOK, StagesOK, Next
  PROVE  TypeOK'
<1>0. /\ ProviderType /\ ControlType /\ LoopType /\ active \in SUBSET Symbols /\ faults \in Nat /\ runs \in Nat
      /\ taken \in Seq(Quote) /\ queue \in Seq(Quote) /\ published \in Seq(Entry)
      /\ loop \in LoopStages
  BY DEF TypeOK, ControlType, LoopType, ProviderType
<1> USE DEF LoopStages
<1>c. ASSUME UNCHANGED controlVars PROVE ControlType'
  BY <1>0, <1>c DEF controlVars, ControlType
<1>p. ASSUME UNCHANGED providerVars PROVE ProviderType'
  BY <1>0, <1>p DEF providerVars, ProviderType
<1>1. CASE \/ \E a \in Actions, s \in Symbols : PublishControl(a, s)
           \/ ControlStep \/ ReadGroupFails \/ AckControlFails
  BY <1>1, ControlSteps
<1>2. CASE Connect \/ ConnectSucceeds \/ ConnectRaises \/ Resubscribe \/ ResubscribeRaises
  <2>1. ProviderType'
    BY <1>0, <1>2, ProviderCalls DEF Connect, ConnectSucceeds, ConnectRaises, Resubscribe, ResubscribeRaises
  <2>2. ControlType'
    BY <1>2, <1>c DEF Connect, ConnectSucceeds, ConnectRaises, Resubscribe, ResubscribeRaises
  <2>3. LoopType'
    BY <1>0, <1>2 DEF Connect, ConnectSucceeds, ConnectRaises, Resubscribe, ResubscribeRaises, LoopType
  <2>4. QED
    BY <2>1, <2>2, <2>3 DEF TypeOK
<1>3. CASE Acknowledge
  <2>1. ProviderType'
    BY <1>0, <1>3, ProviderCalls DEF Acknowledge
  <2>2. ControlType' /\ LoopType'
    BY <1>0, <1>3 DEF Acknowledge, ControlType, LoopType, ControlStages
  <2>3. QED
    BY <2>1, <2>2 DEF TypeOK
<1>4. CASE MarkConnected \/ EventsEnd \/ Outage
  <2>1. ProviderType' /\ ControlType'
    BY <1>4, <1>c, <1>p DEF MarkConnected, EventsEnd, Outage
  <2>2. LoopType'
    BY <1>0, <1>4 DEF MarkConnected, EventsEnd, Outage, LoopType
  <2>3. QED
    BY <2>1, <2>2 DEF TypeOK
<1>5. CASE TakeEvent
  <2>1. Head(queue) \in Quote /\ Tail(queue) \in Seq(Quote)
    BY <1>0, <1>5 DEF TakeEvent
  <2>2. <<Head(queue)>> \in Seq(Quote)
    BY <2>1
  <2>3. ProviderType'
    BY <1>0, <1>5, <2>1 DEF TakeEvent, ProviderType
  <2>4. ControlType'
    BY <1>5, <1>c DEF TakeEvent
  <2>5. LoopType'
    BY <1>0, <1>5, <2>2 DEF TakeEvent, LoopType
  <2>6. QED
    BY <2>3, <2>4, <2>5 DEF TypeOK
<1>6. CASE PublishQuote \/ LoopFails
  <2>1. ProviderType' /\ ControlType'
    BY <1>6, <1>c, <1>p DEF PublishQuote, LoopFails
  <2>2. published' \in Seq(Entry)
    <3>1. PublishQuote => Len(taken) = 1 /\ published' = published \o Publication
      BY DEF PublishQuote, StagesOK
    <3>2. QED
      BY <1>0, <1>6, <3>1, LoopFailsEffect, PublicationType
  <2>3. taken' \in Seq(Quote) /\ faults' \in Nat /\ UNCHANGED <<lock, runs>> /\ loop' \in LoopStages
    <3>1. taken' = <<>> /\ faults' \in {faults, faults + 1} /\ loop' \in {"events", "outage"}
      BY <1>6 DEF PublishQuote, LoopFails
    <3>2. UNCHANGED <<lock, runs>>
      BY <1>6 DEF PublishQuote, LoopFails
    <3>3. QED
      BY <1>0, <3>1, <3>2
  <2>4. QED
    BY <1>0, <2>1, <2>2, <2>3 DEF TypeOK, LoopType
<1>7. CASE DisconnectProvider
  <2>1. ProviderType'
    BY <1>0, <1>7, ProviderCalls DEF DisconnectProvider
  <2>2. ControlType'
    BY <1>7, <1>c DEF DisconnectProvider
  <2>3. LoopType'
    BY <1>0, <1>7 DEF DisconnectProvider, LoopType
  <2>4. QED
    BY <2>1, <2>2, <2>3 DEF TypeOK
<1>8. CASE ReaderStep /\ UNCHANGED <<controlVars, lock, loopVars, runs, faults>>
  <2>1. ProviderType'
    BY <1>0, <1>8, ReaderType
  <2>2. ControlType'
    BY <1>8, <1>c
  <2>3. LoopType'
    BY <1>0, <1>8 DEF LoopType, loopVars
  <2>4. QED
    BY <2>1, <2>2, <2>3 DEF TypeOK
<1>9. CASE Stop
  <2>1. ProviderType'
    BY <1>0, <1>9, DownRecords DEF Stop, ProviderType
  <2>2. missed' \in SUBSET Symbols
    BY <1>0, <1>9, BatchSymbols DEF Stop, ControlType
  <2>3. ControlType'
    BY <1>0, <1>9, <2>2 DEF Stop, ControlType, ControlStages
  <2>4. LoopType'
    BY <1>0, <1>9 DEF Stop, LoopType
  <2>5. QED
    BY <2>1, <2>3, <2>4 DEF TypeOK
<1>10. CASE Restart
  <2>1. ProviderType'
    BY <1>10, <1>p DEF Restart
  <2>2. ControlType' /\ LoopType'
    BY <1>0, <1>10 DEF Restart, ControlType, LoopType, ControlStages
  <2>3. QED
    BY <2>1, <2>2 DEF TypeOK
<1>11. QED
  BY <1>1, <1>2, <1>3, <1>4, <1>5, <1>6, <1>7, <1>8, <1>9, <1>10 DEF Next, LoopStep

-----------------------------------------------------------------------------
(* The lock and the session *)

\* Reading and finishing a batch, entry by entry.
LEMMA BatchSteps ==
  ASSUME TypeOK, StagesOK
  PROVE  /\ ReadGroup => batch' # <<>> /\ Len(batch') = Len(stream) - delivered
                           /\ \A k \in 1..Len(batch') : batch'[k] = stream[delivered + k]
         /\ batch # <<>> =>
              /\ Len(batch) \in Nat /\ Len(batch) >= 1 /\ Head(batch) = batch[1]
              /\ Len(Tail(batch)) = Len(batch) - 1
              /\ \A k \in 1..Len(batch) - 1 : Tail(batch)[k] = batch[k + 1]
              /\ Len(batch) = 1 <=> Tail(batch) = <<>>
<1>1. /\ stream \in Seq(Message) /\ Len(stream) \in Nat /\ delivered \in Nat /\ delivered <= Len(stream)
      /\ batch \in Seq(Message) /\ Len(batch) \in Nat
  BY DEF TypeOK, ControlType
<1>2. ASSUME ReadGroup
      PROVE  batch' # <<>> /\ Len(batch') = Len(stream) - delivered
               /\ \A k \in 1..Len(batch') : batch'[k] = stream[delivered + k]
  <2>1. batch' = SubSeq(stream, delivered + 1, Len(stream)) /\ delivered < Len(stream)
    BY <1>2 DEF ReadGroup
  <2>2. /\ Len(batch') = Len(stream) - delivered
        /\ \A k \in 1..Len(stream) - delivered : batch'[k] = stream[delivered + k]
    BY <1>1, <2>1, SubSeqProperties
  <2>3. batch' # <<>>
    <3>1. Len(batch') # 0
      BY <1>1, <2>1, <2>2
    <3>2. QED
      BY <3>1
  <2>4. QED
    BY <2>2, <2>3
<1>3. ASSUME batch # <<>>
      PROVE  /\ Len(batch) >= 1 /\ Head(batch) = batch[1]
             /\ Len(Tail(batch)) = Len(batch) - 1 /\ Tail(batch) \in Seq(Message)
             /\ \A k \in 1..Len(batch) - 1 : Tail(batch)[k] = batch[k + 1]
  BY <1>1, <1>3
<1>4. batch # <<>> => (Len(batch) = 1 <=> Tail(batch) = <<>>)
  <2>1. ASSUME NEW b \in Seq(Message) PROVE Len(b) = 0 <=> b = <<>>
    BY EmptySeq
  <2>2. SUFFICES ASSUME batch # <<>> PROVE Len(batch) = 1 <=> Tail(batch) = <<>>
    OBVIOUS
  <2>3. Len(batch) = 1 <=> Len(Tail(batch)) = 0
    BY <1>1, <1>3, <2>2
  <2>4. QED
    BY <1>3, <2>1, <2>2, <2>3
<1>5. QED
  BY <1>1, <1>2, <1>3, <1>4

\* Each loop holds the lock exactly in the stages that call the provider.
LEMMA StagesStep ==
  ASSUME TypeOK, StagesOK, Next
  PROVE  StagesOK'
<1> USE DEF StagesOK
<1>1. CASE \/ \E a \in Actions, s \in Symbols : PublishControl(a, s)
           \/ ReadGroupFails
           \/ ReaderStep /\ UNCHANGED <<controlVars, lock, loopVars, runs, faults>>
  BY <1>1 DEF PublishControl, ReadGroupFails, controlVars, loopVars
<1>2. CASE ReadGroup
  BY <1>2, BatchSteps DEF ReadGroup, loopVars
<1>3. CASE ApplyControl \/ RejectControl \/ ControlSubscribes \/ ControlUnsubscribes
  BY <1>3 DEF ApplyControl, RejectControl, ControlSubscribes, ControlUnsubscribes, loopVars
<1>4. CASE ControlSendRaises \/ AckControlFails
  BY <1>4 DEF ControlSendRaises, AckControlFails, AbandonBatch, loopVars
<1>5. CASE AckControl
  BY <1>5, BatchSteps DEF AckControl, loopVars
<1>6. CASE Connect \/ ConnectSucceeds \/ ConnectRaises \/ Resubscribe \/ ResubscribeRaises
  BY <1>6 DEF Connect, ConnectSucceeds, ConnectRaises, Resubscribe, ResubscribeRaises, controlVars
<1>7. CASE Acknowledge
  BY <1>7 DEF Acknowledge
<1>8. CASE MarkConnected \/ EventsEnd \/ Outage \/ DisconnectProvider
  BY <1>8 DEF MarkConnected, EventsEnd, Outage, DisconnectProvider, controlVars
<1>9. CASE TakeEvent
  <2>1. Len(taken') = 1
    BY <1>9 DEF TakeEvent
  <2>2. QED
    BY <1>9, <2>1 DEF TakeEvent, controlVars
<1>10. CASE PublishQuote \/ LoopFails
  BY <1>10 DEF PublishQuote, LoopFails, controlVars
<1>11. CASE Stop
  BY <1>11 DEF Stop
<1>12. CASE Restart
  <2>1. batch = <<>>
    BY <1>12 DEF Restart
  <2>2. QED
    BY <1>12, <2>1 DEF Restart
<1>13. QED
  BY <1>1, <1>2, <1>3, <1>4, <1>5, <1>6, <1>7, <1>8, <1>9, <1>10, <1>11, <1>12
     DEF Next, ControlStep, LoopStep

\* The steps that leave the session, the request and the active symbols alone.
Quiet ==
  /\ UNCHANGED <<provider, upstream, request, active, session, ticker>>
  /\ control' = "send" <=> control = "send"
  /\ loop' = "send" <=> loop = "send"
  /\ loop' \in {"lock", "stopped", "connect"} => loop \in {"lock", "stopped", "connect"}
  /\ loop' = "connect" <=> loop = "connect"

\* Such a step leaves the session as it is.
LEMMA QuietStep ==
  ASSUME DownOK, ServesOK, Quiet
  PROVE  DownOK' /\ ServesOK'
BY DEF DownOK, ServesOK, Quiet

\* Most steps are quiet: they work on the batch, the queue or the stage only.
LEMMA QuietSteps ==
  ASSUME TypeOK, StagesOK,
         \/ \E a \in Actions, s \in Symbols : PublishControl(a, s)
         \/ ReadGroup \/ ReadGroupFails \/ RejectControl \/ AckControl \/ AckControlFails
         \/ MarkConnected \/ TakeEvent \/ EventsEnd \/ PublishQuote \/ LoopFails \/ Outage \/ Restart
         \/ PutEvent /\ UNCHANGED <<controlVars, lock, loopVars, runs, faults>>
         \/ \E symbols \in SUBSET Symbols, bad \in SUBSET Symbols :
              ReceiveTrades(symbols, bad) /\ UNCHANGED <<controlVars, lock, loopVars, runs, faults>>
  PROVE  Quiet
<1> USE DEF providerVars, controlVars, loopVars, Quiet
<1>1. CASE \/ \E a \in Actions, s \in Symbols : PublishControl(a, s)
           \/ ReadGroup \/ ReadGroupFails \/ RejectControl \/ AckControl
  BY <1>1 DEF PublishControl, ReadGroup, ReadGroupFails, RejectControl, AckControl
<1>2. CASE AckControlFails
  BY <1>2 DEF AckControlFails, AbandonBatch
<1>3. CASE MarkConnected \/ TakeEvent \/ EventsEnd \/ PublishQuote \/ LoopFails \/ Outage
  BY <1>3 DEF MarkConnected, TakeEvent, EventsEnd, PublishQuote, LoopFails, Outage
<1>4. CASE Restart
  BY <1>4 DEF Restart, StagesOK
<1>5. CASE PutEvent /\ UNCHANGED <<controlVars, lock, loopVars, runs, faults>>
  BY <1>5 DEF PutEvent
<1>6. CASE \E symbols \in SUBSET Symbols, bad \in SUBSET Symbols :
             ReceiveTrades(symbols, bad) /\ UNCHANGED <<controlVars, lock, loopVars, runs, faults>>
  BY <1>6 DEF ReceiveTrades
<1>7. QED
  BY <1>1, <1>2, <1>3, <1>4, <1>5, <1>6

\* The session serves the active symbols, or will once the request is sent.
LEMMA ServesStep ==
  ASSUME TypeOK, StagesOK, DownOK, ServesOK, Next
  PROVE  DownOK' /\ ServesOK'
<1>0. /\ provider \in ProviderRecord /\ upstream \in UpstreamRecord /\ request \in RequestRecord
      /\ active \in SUBSET Symbols /\ loop \in LoopStages
  BY DEF TypeOK, ProviderType, ControlType, LoopType
<1>d. ASSUME loop \in {"lock", "stopped", "connect"}
      PROVE  upstream.link = "none" /\ provider.reader = "none" /\ provider.state # "connected"
  BY <1>d DEF DownOK, Offline, NoSession
<1>1. CASE ApplyControl
  <2>1. /\ control = "apply" /\ lock = "free" /\ control # "send" /\ loop \notin {"connect", "send", "await"}
    BY <1>1 DEF ApplyControl, StagesOK
  <2>2. UNCHANGED <<upstream, ticker, loop>>
    BY <1>1 DEF ApplyControl, loopVars
  <2>3. provider.state # "connected" => provider' = provider
    BY <1>1 DEF ApplyControl
  <2>4. DownOK'
    BY <1>d, <2>1, <2>2, <2>3 DEF DownOK
  <2>5. ServesOK'
    <3>1. SUFFICES ASSUME provider'.state = "connected", upstream.link = "open"
                   PROVE  /\ provider'.symbols = active'
                          /\ IF control' # "send" /\ loop' # "send" THEN upstream.symbols = active'
                             ELSE \/ request'.type = "subscribe" /\ upstream.symbols \cup request'.symbols = active'
                                  \/ request'.type = "unsubscribe" /\ upstream.symbols \ request'.symbols = active'
      BY <2>2 DEF ServesOK
    <3>2. provider.state = "connected"
      <4>1. provider'.state = provider.state
        BY <1>0, <1>1 DEF ApplyControl, Subscribing, Unsubscribing, ProviderRecord
      <4>2. QED
        BY <3>1, <4>1
    <3>3. provider.symbols = active /\ upstream.symbols = active
      BY <2>1, <3>1, <3>2 DEF ServesOK
    <3>4. PICK s : s = Head(batch).symbol
      OBVIOUS
    <3>5. CASE Head(batch).action = "subscribe" /\ s \notin active
      <4>1. /\ active' = active \cup {s} /\ provider' = Subscribing(provider, {s})
            /\ request' = SubscribeRequest(provider, {s})
        BY <1>1, <3>2, <3>4, <3>5 DEF ApplyControl
      <4>2. request' = [type |-> "subscribe", symbols |-> {s}]
        <5>1. {s} \ provider.symbols = {s} /\ ~({s} \subseteq provider.symbols)
          BY <3>3, <3>5
        <5>2. QED
          BY <4>1, <5>1 DEF SubscribeRequest
      <4>3. provider'.symbols = active'
        BY <1>0, <3>3, <4>1 DEF Subscribing, ProviderRecord
      <4>4. control' = "send"
        BY <1>1, <4>2 DEF ApplyControl, NoRequest
      <4>5. QED
        BY <3>3, <4>1, <4>2, <4>3, <4>4
    <3>6. CASE Head(batch).action = "unsubscribe" /\ s \in active
      <4>1. /\ active' = active \ {s} /\ provider' = Unsubscribing(provider, {s})
            /\ request' = UnsubscribeRequest(provider, {s})
        BY <1>1, <3>2, <3>4, <3>6 DEF ApplyControl
      <4>2. request' = [type |-> "unsubscribe", symbols |-> {s}]
        <5>1. {s} \cap provider.symbols = {s} /\ {s} # {}
          BY <3>3, <3>6
        <5>2. QED
          BY <4>1, <5>1 DEF UnsubscribeRequest
      <4>3. provider'.symbols = active'
        BY <1>0, <3>3, <4>1 DEF Unsubscribing, ProviderRecord
      <4>4. control' = "send"
        BY <1>1, <4>2 DEF ApplyControl, NoRequest
      <4>5. QED
        BY <3>3, <4>1, <4>2, <4>3, <4>4
    <3>7. CASE \/ Head(batch).action = "subscribe" /\ s \in active
               \/ Head(batch).action = "unsubscribe" /\ s \notin active
      <4>1. active' = active /\ provider' = provider /\ request' = NoRequest
        BY <1>1, <3>4, <3>7 DEF ApplyControl
      <4>2. control' = "ack"
        BY <1>1, <4>1 DEF ApplyControl
      <4>3. QED
        BY <2>1, <2>2, <3>3, <4>1, <4>2
    <3>8. QED
      BY <1>1, <3>5, <3>6, <3>7 DEF ApplyControl
  <2>6. QED
    BY <2>4, <2>5
<1>2. CASE ControlSubscribes \/ Resubscribe
  <2>1. /\ upstream.link = "open" /\ request.type = "subscribe" /\ UNCHANGED <<ticker, active>>
        /\ control' # "send" /\ loop' # "send" /\ (control = "send" \/ loop = "send")
    BY <1>2 DEF ControlSubscribes, Resubscribe, SendSubscribe, StagesOK, loopVars, controlVars
  <2>2. provider'.state = provider.state /\ provider'.symbols = provider.symbols
    BY <1>0, <1>2 DEF ControlSubscribes, Resubscribe, SendSubscribe, ProviderRecord
  <2>3. upstream'.symbols = upstream.symbols \cup request.symbols /\ upstream'.link = upstream.link
    BY <1>0, <1>2 DEF ControlSubscribes, Resubscribe, SendSubscribe, UpstreamRecord
  <2>4. loop' \notin {"lock", "stopped", "connect"}
    BY <1>2, <1>d, <2>1 DEF ControlSubscribes, Resubscribe, loopVars
  <2>5. QED
    BY <2>1, <2>2, <2>3, <2>4 DEF DownOK, ServesOK
<1>3. CASE ControlUnsubscribes
  <2>1. /\ upstream.link = "open" /\ request.type = "unsubscribe" /\ UNCHANGED <<ticker, active, loop>>
        /\ control' # "send" /\ loop # "send" /\ control = "send"
    BY <1>3 DEF ControlUnsubscribes, SendUnsubscribe, StagesOK, loopVars
  <2>2. provider'.state = provider.state /\ provider'.symbols = provider.symbols
    BY <1>0, <1>3 DEF ControlUnsubscribes, SendUnsubscribe, ProviderRecord
  <2>3. upstream'.symbols = upstream.symbols \ request.symbols
    BY <1>0, <1>3 DEF ControlUnsubscribes, SendUnsubscribe, UpstreamRecord
  <2>4. loop' \notin {"lock", "stopped", "connect"}
    BY <1>d, <2>1
  <2>5. QED
    BY <2>1, <2>2, <2>3, <2>4 DEF DownOK, ServesOK
<1>4. CASE ControlSendRaises \/ ResubscribeRaises
  <2>1. upstream.link # "open" /\ UNCHANGED <<provider, upstream, ticker>>
    BY <1>4 DEF ControlSendRaises, ResubscribeRaises, SendRaises
  <2>2. loop' = loop \/ loop' = "outage"
    BY <1>4 DEF ControlSendRaises, ResubscribeRaises, loopVars
  <2>3. QED
    BY <2>1, <2>2 DEF DownOK, ServesOK
<1>5. CASE Connect
  <2>1. provider = Offline /\ upstream = NoSession
    BY <1>5 DEF Connect, DownOK
  <2>2. /\ provider'.state = "connecting" /\ provider'.symbols = {} /\ provider'.acknowledged = {}
        /\ provider'.reader = "none" /\ upstream' = NoSession
        /\ ticker' = [s \in Symbols |-> 0] /\ loop' = "connect"
    BY <1>5, <2>1 DEF Connect, BeginConnect, Offline
  <2>3. QED
    BY <2>2 DEF DownOK, ServesOK, NoSession
<1>6. CASE ConnectSucceeds
  <2>1. provider.symbols = {} /\ provider.acknowledged = {}
    BY <1>6 DEF ConnectSucceeds, DownOK
  <2>2. upstream'.symbols = {} /\ control # "send" /\ control' = control /\ active' = active
    BY <1>6 DEF ConnectSucceeds, Connected, NoSession, StagesOK, controlVars
  <2>3. provider'.symbols = active
    <3>1. PICK p \in ProviderRecord : p = [provider EXCEPT !.state = "connected", !.reader = "running", !.heartbeats = FALSE]
      BY <1>0 DEF ProviderRecord
    <3>2. p.symbols = {}
      BY <1>0, <2>1, <3>1 DEF ProviderRecord
    <3>3. provider' = Subscribing(p, active)
      BY <1>6, <3>1 DEF ConnectSucceeds, Connected
    <3>4. QED
      BY <3>2, <3>3 DEF Subscribing, ProviderRecord
  <2>4. CASE active = {}
    <3>1. loop' = "mark"
      BY <1>6, <2>4 DEF ConnectSucceeds
    <3>2. QED
      BY <2>2, <2>3, <2>4, <3>1 DEF DownOK, ServesOK
  <2>5. CASE active # {}
    <3>1. loop' = "send"
      BY <1>6, <2>5 DEF ConnectSucceeds
    <3>2. request' = [type |-> "subscribe", symbols |-> active]
      <4>1. PICK p \in ProviderRecord : p = [provider EXCEPT !.state = "connected", !.reader = "running", !.heartbeats = FALSE]
        BY <1>0 DEF ProviderRecord
      <4>2. p.symbols = {} /\ p.acknowledged = {}
        BY <1>0, <2>1, <4>1 DEF ProviderRecord
      <4>3. request' = SubscribeRequest(p, active)
        BY <1>6, <2>5, <4>1 DEF ConnectSucceeds, Connected
      <4>4. QED
        BY <2>5, <4>2, <4>3 DEF SubscribeRequest
    <3>3. QED
      BY <2>2, <2>3, <3>1, <3>2 DEF DownOK, ServesOK
  <2>6. QED
    BY <2>4, <2>5
<1>7. CASE ConnectRaises
  BY <1>0, <1>7 DEF ConnectRaises, ConnectFails, DownOK, ServesOK, ProviderRecord
<1>8. CASE Acknowledge
  <2>1. /\ provider.reader = "running" /\ UNCHANGED <<ticker, active, request>>
        /\ control' = "send" <=> control = "send"
        /\ loop' = "send" <=> loop = "send"
        /\ loop' = loop \/ loop' = "mark"
    BY <1>8 DEF Acknowledge, ReceiveSubscriptions, Reading
  <2>2. provider'.state = provider.state /\ provider'.symbols = provider.symbols
    BY <1>0, <1>8 DEF Acknowledge, ReceiveSubscriptions, ProviderRecord
  <2>3. upstream'.symbols = upstream.symbols /\ upstream'.link = upstream.link
    BY <1>0, <1>8 DEF Acknowledge, ReceiveSubscriptions, UpstreamRecord
  <2>4. loop' \notin {"lock", "stopped", "connect"}
    BY <1>d, <2>1
  <2>5. QED
    BY <2>1, <2>2, <2>3, <2>4 DEF DownOK, ServesOK
<1>9. CASE DisconnectProvider \/ Stop
  <2>1. provider' = Offline /\ upstream' = NoSession /\ loop' # "connect"
    BY <1>9 DEF DisconnectProvider, Disconnect, Stop
  <2>2. QED
    BY <2>1 DEF DownOK, ServesOK, Offline
<1>10. CASE (LinkCloses \/ ReaderEnds) /\ UNCHANGED <<controlVars, lock, loopVars, runs, faults>>
  <2>1. upstream'.link = "closed" \/ provider'.state = "degraded"
    BY <1>0, <1>10 DEF LinkCloses, ReaderEnds, ProviderRecord, UpstreamRecord
  <2>2. loop \notin {"lock", "stopped", "connect"}
    BY <1>10, <1>d DEF LinkCloses, ReaderEnds
  <2>3. QED
    BY <1>10, <2>1, <2>2 DEF DownOK, ServesOK, loopVars
<1>11. CASE \E s \in Symbols : ReceiveTicker(s) /\ UNCHANGED <<controlVars, lock, loopVars, runs, faults>>
  <2>1. /\ provider.reader = "running" /\ UNCHANGED <<provider, upstream, request, active, loop, control>>
    BY <1>11 DEF ReceiveTicker, Reading, controlVars, loopVars
  <2>2. loop \notin {"lock", "stopped", "connect"}
    BY <1>d, <2>1
  <2>3. QED
    BY <2>1, <2>2 DEF DownOK, ServesOK
<1>12. CASE ReaderStep /\ UNCHANGED <<controlVars, lock, loopVars, runs, faults>>
  BY <1>10, <1>11, <1>12, QuietSteps, QuietStep DEF ReaderStep
<1>13. QED
  BY <1>1, <1>2, <1>3, <1>4, <1>5, <1>6, <1>7, <1>8, <1>9, <1>12, QuietSteps, QuietStep
     DEF Next, ControlStep, LoopStep

-----------------------------------------------------------------------------
(* The wanted symbols *)

\* Messages about other symbols and invalid ones change nothing.
LEMMA WantedSkips ==
  ASSUME NEW ms, NEW s, NEW n \in Nat, NEW m \in Nat, n <= m,
         \A j \in n+1..m : ms[j].symbol = s => ms[j].action = "invalid"
  PROVE  WantedAt(ms, s, m) <=> WantedAt(ms, s, n)
<1>1. ASSUME WantedAt(ms, s, m) PROVE WantedAt(ms, s, n)
  <2>1. PICK i \in 1..m : /\ ms[i].symbol = s /\ ms[i].action = "subscribe"
                          /\ \A j \in i+1..m : ms[j].symbol = s => ms[j].action = "invalid"
    BY <1>1 DEF WantedAt
  <2>2. i \in 1..n
    BY <2>1
  <2>3. QED
    BY <2>1, <2>2 DEF WantedAt
<1>2. ASSUME WantedAt(ms, s, n) PROVE WantedAt(ms, s, m)
  <2>1. PICK i \in 1..n : /\ ms[i].symbol = s /\ ms[i].action = "subscribe"
                          /\ \A j \in i+1..n : ms[j].symbol = s => ms[j].action = "invalid"
    BY <1>2 DEF WantedAt
  <2>2. \A j \in i+1..m : ms[j].symbol = s => ms[j].action = "invalid"
    <3>1. \A j \in i+1..m : j \in i+1..n \/ j \in n+1..m
      OBVIOUS
    <3>2. QED
      BY <2>1, <3>1
  <2>3. QED
    BY <2>1, <2>2 DEF WantedAt
<1>3. QED
  BY <1>1, <1>2

\* A valid message about s decides.
LEMMA WantedDecides ==
  ASSUME NEW ms, NEW s, NEW n \in Nat, ms[n + 1].symbol = s, ms[n + 1].action # "invalid"
  PROVE  WantedAt(ms, s, n + 1) <=> ms[n + 1].action = "subscribe"
<1>1. ASSUME WantedAt(ms, s, n + 1) PROVE ms[n + 1].action = "subscribe"
  <2>1. PICK i \in 1..n+1 : /\ ms[i].symbol = s /\ ms[i].action = "subscribe"
                            /\ \A j \in i+1..n+1 : ms[j].symbol = s => ms[j].action = "invalid"
    BY <1>1 DEF WantedAt
  <2>2. i = n + 1
    BY <2>1
  <2>3. QED
    BY <2>1, <2>2
<1>2. ASSUME ms[n + 1].action = "subscribe" PROVE WantedAt(ms, s, n + 1)
  <2>1. n + 1 \in 1..n+1 /\ \A j \in (n+1)+1..n+1 : FALSE
    OBVIOUS
  <2>2. QED
    BY <1>2, <2>1 DEF WantedAt
<1>3. QED
  BY <1>1, <1>2

\* New messages do not change what the earlier ones say.
LEMMA WantedPrefix ==
  ASSUME NEW ms, NEW ms2, NEW s, NEW n \in Nat, \A i \in 1..n : ms2[i] = ms[i]
  PROVE  WantedAt(ms2, s, n) <=> WantedAt(ms, s, n)
BY DEF WantedAt

\* Applying a batch entry by entry, or throwing it away, keeps track of what
\* is wanted.
LEMMA WantedStep ==
  ASSUME TypeOK, StagesOK, WantedOK, Next
  PROVE  WantedOK'
<1>0. /\ stream \in Seq(Message) /\ Len(stream) \in Nat /\ delivered \in Nat /\ delivered <= Len(stream)
      /\ batch \in Seq(Message) /\ Len(batch) \in Nat /\ Len(batch) <= delivered
      /\ \A k \in 1..Len(batch) : batch[k] = stream[delivered - Len(batch) + k]
      /\ runs \in Nat /\ runs # 0
  BY DEF TypeOK, ControlType, LoopType, WantedOK
<1>a. Applied \in Nat /\ Applied <= delivered
  <2>1. control \in {"send", "await", "ack"} => Len(batch) >= 1
    BY BatchSteps DEF StagesOK
  <2>2. QED
    BY <1>0, <2>1 DEF Applied
<1>s. ASSUME control # "stopped", runs = 1, NEW s \in Symbols \ missed
      PROVE  s \in active <=> WantedAt(stream, s, Applied)
  BY <1>s DEF WantedOK
<1>k. ASSUME UNCHANGED <<stream, delivered, batch, active, missed, runs>>,
             \/ control' = control
             \/ control' \in {"send", "await", "ack"} /\ control \in {"send", "await", "ack"}
      PROVE  WantedOK'
  <2>1. Applied' = Applied
    BY <1>k DEF Applied
  <2>2. QED
    BY <1>k, <2>1 DEF WantedOK
\* The batch is given up after its first n messages.
<1>g. ASSUME batch # <<>>, UNCHANGED <<stream, delivered, active, runs>>, AbandonBatch,
             control # "stopped", control \in {"send", "await", "ack"} \/ Head(batch).action = "invalid"
      PROVE  WantedOK'
  <2>1. /\ Len(batch) >= 1 /\ Head(batch) = batch[1] /\ Len(Tail(batch)) = Len(batch) - 1
        /\ \A k \in 1..Len(batch) - 1 : Tail(batch)[k] = batch[k + 1]
        /\ Tail(batch) \in Seq(Message)
    BY <1>0, <1>g, BatchSteps
  <2>2. batch' = <<>> /\ Len(batch') = 0 /\ control' = "read" /\ Applied' = delivered
    BY <1>0, <1>g DEF AbandonBatch, Applied
  <2>3. ASSUME runs = 1, NEW s \in Symbols \ missed'
        PROVE  s \in active <=> WantedAt(stream, s, delivered)
    <3>1. s \notin missed /\ \A m \in Range(Tail(batch)) : m.symbol # s
      BY <1>g, <2>3 DEF AbandonBatch
    <3>2. ASSUME NEW j \in Applied+1..delivered PROVE stream[j].symbol = s => stream[j].action = "invalid"
      <4>0. Applied \in {delivered - Len(batch), delivered - Len(batch) + 1} /\ j \in Int
        BY <1>a DEF Applied
      <4>1. PICK k \in 1..Len(batch) : k = j - (delivered - Len(batch))
        <5>1. Applied + 1 <= j /\ j <= delivered
          BY <1>0, <1>a, <3>2
        <5>2. j - (delivered - Len(batch)) \in 1..Len(batch)
          BY <1>0, <4>0, <5>1
        <5>3. QED
          BY <5>2
      <4>2. stream[j] = batch[k]
        BY <1>0, <4>1
      <4>3. CASE k = 1
        <5>1. control \notin {"send", "await", "ack"}
          BY <1>0, <1>a, <3>2, <4>1, <4>3 DEF Applied
        <5>2. QED
          BY <1>g, <2>1, <4>2, <4>3, <5>1
      <4>4. CASE k # 1
        <5>1. k - 1 \in 1..Len(batch) - 1 /\ Tail(batch)[k - 1] = batch[k]
          BY <1>0, <2>1, <4>4
        <5>2. batch[k] \in Range(Tail(batch))
          <6>1. DOMAIN Tail(batch) = 1..Len(batch) - 1
            BY <2>1
          <6>2. QED
            BY <5>1, <6>1 DEF Range
        <5>3. QED
          BY <3>1, <4>2, <5>2
      <4>5. QED
        BY <4>3, <4>4
    <3>3. WantedAt(stream, s, delivered) <=> WantedAt(stream, s, Applied)
      BY <1>0, <1>a, <3>2, WantedSkips
    <3>4. QED
      BY <1>g, <1>s, <2>3, <3>1, <3>3
  <2>4. QED
    BY <1>0, <1>g, <2>2, <2>3 DEF WantedOK
<1>1. ASSUME NEW a \in Actions, NEW s \in Symbols, PublishControl(a, s) PROVE WantedOK'
  <2>1. UNCHANGED <<delivered, batch, active, missed, runs, control>> /\ Applied' = Applied
    BY <1>1 DEF PublishControl, Applied
  <2>2. \A i \in 1..delivered : stream'[i] = stream[i]
    BY <1>0, <1>1 DEF PublishControl
  <2>3. \A x : WantedAt(stream', x, Applied) <=> WantedAt(stream, x, Applied)
    <3>1. \A i \in 1..Applied : stream'[i] = stream[i]
      BY <1>0, <1>a, <2>2
    <3>2. QED
      BY <1>a, <3>1, WantedPrefix
  <2>4. ASSUME NEW k \in 1..Len(batch)
        PROVE  batch[k] = stream'[delivered - Len(batch) + k]
    <3>1. delivered - Len(batch) + k \in 1..delivered
      BY <1>0
    <3>2. stream'[delivered - Len(batch) + k] = stream[delivered - Len(batch) + k]
      BY <2>2, <3>1
    <3>3. QED
      BY <1>0, <3>2
  <2>5. QED
    BY <1>0, <1>s, <2>1, <2>3, <2>4 DEF WantedOK
<1>2. CASE ReadGroup
  <2>1. control = "read" /\ batch = <<>> /\ Len(batch) = 0 /\ Applied = delivered
    BY <1>0, <1>2 DEF ReadGroup, StagesOK, Applied
  <2>2. /\ Len(batch') = Len(stream) - delivered /\ delivered' = Len(stream) /\ control' = "apply"
        /\ \A k \in 1..Len(batch') : batch'[k] = stream[delivered + k]
        /\ UNCHANGED <<stream, active, missed, runs>>
    BY <1>2, BatchSteps DEF ReadGroup
  <2>3. Applied' = delivered
    BY <1>0, <2>2 DEF Applied
  <2>4. delivered' - Len(batch') = delivered /\ Len(batch') <= delivered'
    BY <1>0, <2>2
  <2>5. QED
    BY <1>s, <2>1, <2>2, <2>3, <2>4 DEF WantedOK
<1>3. CASE ReadGroupFails
  <2>1. control = "read" /\ batch = <<>> /\ Len(batch) = 0 /\ Applied = delivered
    BY <1>0, <1>3 DEF ReadGroupFails, StagesOK, Applied
  <2>2. /\ delivered' = Len(stream) /\ UNCHANGED <<stream, batch, active, control, runs>>
        /\ missed' = missed \cup {stream[i].symbol : i \in (delivered + 1)..Len(stream)}
    BY <1>3 DEF ReadGroupFails
  <2>3. Applied' = Len(stream)
    BY <1>0, <2>1, <2>2 DEF Applied
  <2>4. ASSUME runs = 1, NEW s \in Symbols \ missed' PROVE s \in active <=> WantedAt(stream, s, Len(stream))
    <3>1. s \notin missed /\ \A j \in delivered+1..Len(stream) : stream[j].symbol # s
      BY <2>2, <2>4
    <3>2. QED
      BY <1>0, <1>s, <2>1, <2>4, <3>1, WantedSkips
  <2>5. QED
    BY <1>0, <2>1, <2>2, <2>3, <2>4 DEF WantedOK
<1>4. CASE ApplyControl \/ RejectControl
  <2>1. /\ control = "apply" /\ batch # <<>> /\ Applied = delivered - Len(batch)
        /\ control' \in {"send", "ack"} /\ UNCHANGED <<stream, delivered, batch, missed, runs>>
    BY <1>4 DEF ApplyControl, RejectControl, StagesOK, Applied
  <2>2. Len(batch) >= 1 /\ Head(batch) = batch[1]
    BY <2>1, BatchSteps
  <2>3. Applied' = Applied + 1 /\ stream[Applied + 1] = Head(batch)
    BY <1>0, <2>1, <2>2 DEF Applied
  <2>4. ASSUME runs = 1, NEW s \in Symbols \ missed PROVE s \in active' <=> WantedAt(stream, s, Applied + 1)
    <3>1. s \in active <=> WantedAt(stream, s, Applied)
      BY <1>s, <2>1, <2>4
    <3>2. CASE s # Head(batch).symbol \/ Head(batch).action = "invalid"
      <4>1. \A j \in Applied+1..Applied+1 : stream[j].symbol = s => stream[j].action = "invalid"
        BY <1>a, <2>3, <3>2
      <4>2. WantedAt(stream, s, Applied + 1) <=> WantedAt(stream, s, Applied)
        BY <1>a, <4>1, WantedSkips
      <4>3. s \in active' <=> s \in active
        BY <1>4, <3>2 DEF ApplyControl, RejectControl
      <4>4. QED
        BY <3>1, <4>2, <4>3
    <3>3. CASE s = Head(batch).symbol /\ Head(batch).action # "invalid"
      <4>1. WantedAt(stream, s, Applied + 1) <=> Head(batch).action = "subscribe"
        BY <1>a, <2>3, <3>3, WantedDecides
      <4>2. s \in active' <=> Head(batch).action = "subscribe"
        BY <1>4, <3>3 DEF ApplyControl, RejectControl
      <4>3. QED
        BY <4>1, <4>2
    <3>4. QED
      BY <3>2, <3>3
  <2>5. QED
    BY <1>0, <2>1, <2>3, <2>4 DEF WantedOK
<1>5. CASE ControlSubscribes \/ ControlUnsubscribes \/ Acknowledge
  BY <1>5, <1>k DEF ControlSubscribes, ControlUnsubscribes, Acknowledge
<1>6. CASE ControlSendRaises \/ AckControlFails
  BY <1>6, <1>g DEF ControlSendRaises, AckControlFails, StagesOK
<1>7. CASE AckControl
  <2>1. batch # <<>> /\ control = "ack" /\ UNCHANGED <<stream, delivered, active, missed, runs>> /\ batch' = Tail(batch)
        /\ control' \in {"read", "apply"}
    BY <1>7 DEF AckControl, StagesOK
  <2>2. /\ Len(batch) >= 1 /\ Len(batch') = Len(batch) - 1
        /\ \A k \in 1..Len(batch) - 1 : batch'[k] = batch[k + 1]
    BY <2>1, BatchSteps
  <2>3. Applied' = Applied
    BY <1>0, <2>1, <2>2 DEF Applied
  <2>4. \A k \in 1..Len(batch') : batch'[k] = stream[delivered - Len(batch') + k]
    BY <1>0, <2>2
  <2>5. QED
    BY <1>0, <1>s, <2>1, <2>2, <2>3, <2>4 DEF WantedOK
<1>8. CASE Connect \/ ConnectSucceeds \/ ConnectRaises \/ Resubscribe \/ ResubscribeRaises \/ MarkConnected
             \/ TakeEvent \/ EventsEnd \/ PublishQuote \/ LoopFails \/ Outage \/ DisconnectProvider
             \/ (ReaderStep /\ UNCHANGED <<controlVars, lock, loopVars, runs, faults>>)
  <2>1. UNCHANGED <<controlVars, runs>>
    BY <1>8 DEF Connect, ConnectSucceeds, ConnectRaises, Resubscribe, ResubscribeRaises, MarkConnected,
                TakeEvent, EventsEnd, PublishQuote, LoopFails, Outage, DisconnectProvider
  <2>2. QED
    BY <1>k, <2>1 DEF controlVars
<1>9. CASE Stop
  BY <1>0, <1>9 DEF Stop, WantedOK
<1>10. CASE Restart
  <2>1. runs' # 1 /\ UNCHANGED <<stream, delivered, batch>>
    BY <1>0, <1>10 DEF Restart
  <2>2. QED
    BY <1>0, <2>1 DEF WantedOK
<1>11. QED
  BY <1>1, <1>2, <1>3, <1>4, <1>5, <1>6, <1>7, <1>8, <1>9, <1>10 DEF Next, ControlStep, LoopStep

-----------------------------------------------------------------------------
(* The order of the quotes *)

\* Taking the first quote of a sequence.
LEMMA TakeFirst ==
  ASSUME NEW xs \in Seq(Quote), xs # <<>>
  PROVE  /\ Head(xs) \in Range(xs) /\ Range(Tail(xs)) \subseteq Range(xs)
         /\ Increasing(xs) => Increasing(Tail(xs)) /\ Before(<<Head(xs)>>, Tail(xs))
         /\ \A ys : Before(xs, ys) => Before(Tail(xs), ys) /\ Before(<<Head(xs)>>, ys)
         /\ \A ys : Before(ys, xs) => Before(ys, Tail(xs)) /\ Before(ys, <<Head(xs)>>)
<1>1. /\ DOMAIN xs = 1..Len(xs) /\ Len(xs) \in Nat /\ 1 \in DOMAIN xs /\ Head(xs) = xs[1]
      /\ DOMAIN Tail(xs) = 1..Len(xs) - 1
      /\ \A i \in 1..Len(xs) - 1 : Tail(xs)[i] = xs[i + 1] /\ i + 1 \in DOMAIN xs
  OBVIOUS
<1>2. Head(xs) \in Range(xs) /\ Range(Tail(xs)) \subseteq Range(xs)
  BY <1>1 DEF Range
<1>3. DOMAIN <<Head(xs)>> = {1} /\ <<Head(xs)>>[1] = xs[1]
  BY <1>1
<1>4. ASSUME Increasing(xs) PROVE Increasing(Tail(xs)) /\ Before(<<Head(xs)>>, Tail(xs))
  <2>1. ASSUME NEW i \in 1..Len(xs) - 1, NEW j \in 1..Len(xs) - 1, i < j,
               Tail(xs)[i].symbol = Tail(xs)[j].symbol
        PROVE  Tail(xs)[i].number < Tail(xs)[j].number
    <3>1. i + 1 \in DOMAIN xs /\ j + 1 \in DOMAIN xs /\ i + 1 < j + 1
      BY <1>1, <2>1
    <3>2. QED
      BY <1>1, <1>4, <2>1, <3>1 DEF Increasing
  <2>2. ASSUME NEW j \in 1..Len(xs) - 1, xs[1].symbol = Tail(xs)[j].symbol
        PROVE  xs[1].number < Tail(xs)[j].number
    <3>1. j + 1 \in DOMAIN xs /\ 1 < j + 1
      BY <1>1, <2>2
    <3>2. QED
      BY <1>1, <1>4, <2>2, <3>1 DEF Increasing
  <2>3. QED
    BY <1>1, <1>3, <2>1, <2>2 DEF Increasing, Before
<1>5. \A ys : Before(xs, ys) => Before(Tail(xs), ys) /\ Before(<<Head(xs)>>, ys)
  BY <1>1, <1>3 DEF Before
<1>6. \A ys : Before(ys, xs) => Before(ys, Tail(xs)) /\ Before(ys, <<Head(xs)>>)
  BY <1>1, <1>3 DEF Before
<1>7. QED
  BY <1>2, <1>4, <1>5, <1>6

\* Adding a quote at the end.
LEMMA AddLast ==
  ASSUME NEW xs \in Seq(Quote), NEW y \in Quote
  PROVE  /\ Range(Append(xs, y)) = Range(xs) \cup {y}
         /\ Increasing(xs) /\ Before(xs, <<y>>) => Increasing(Append(xs, y))
         /\ \A zs : Before(zs, xs) /\ Before(zs, <<y>>) => Before(zs, Append(xs, y))
         /\ \A zs : Before(xs, zs) /\ Before(<<y>>, zs) => Before(Append(xs, y), zs)
<1>1. /\ DOMAIN xs = 1..Len(xs) /\ Len(xs) \in Nat /\ DOMAIN Append(xs, y) = 1..Len(xs) + 1
      /\ \A i \in 1..Len(xs) : Append(xs, y)[i] = xs[i]
      /\ Append(xs, y)[Len(xs) + 1] = y
  OBVIOUS
<1>2. DOMAIN <<y>> = {1} /\ <<y>>[1] = y
  OBVIOUS
<1>3. \A i \in 1..Len(xs) + 1 : i \in 1..Len(xs) \/ i = Len(xs) + 1
  BY <1>1
<1>4. Range(Append(xs, y)) = Range(xs) \cup {y}
  BY <1>1, <1>3 DEF Range
<1>5. Increasing(xs) /\ Before(xs, <<y>>) => Increasing(Append(xs, y))
  BY <1>1, <1>2, <1>3 DEF Increasing, Before
<1>6. \A zs : Before(zs, xs) /\ Before(zs, <<y>>) => Before(zs, Append(xs, y))
  BY <1>1, <1>2, <1>3 DEF Before
<1>7. \A zs : Before(xs, zs) /\ Before(<<y>>, zs) => Before(Append(xs, y), zs)
  BY <1>1, <1>2, <1>3 DEF Before
<1>8. QED
  BY <1>4, <1>5, <1>6, <1>7

\* Nothing comes before or after an empty sequence.
LEMMA NothingOrdered ==
  /\ Increasing(<<>>) /\ Range(<<>>) = {}
  /\ \A ys : Before(<<>>, ys) /\ Before(ys, <<>>)
BY DEF Increasing, Before, Range

\* The steps that leave the published quotes, the numbers and the run alone.
SameRun ==
  /\ UNCHANGED <<published, sequence, runs>>
  /\ loop' = "stopped" <=> loop = "stopped"

\* What a quote on its way must satisfy does not change then.
LEMMA SameRunStep ==
  ASSUME OrderOK, PublishedInOrder, SameRun
  PROVE  /\ \A q : QuoteOK(q)' <=> QuoteOK(q)
         /\ PublishedInOrder'
         /\ \A i \in DOMAIN published' :
              /\ published'[i].run <= runs'
              /\ Current(i)' => published'[i].quote.number <= sequence'[published'[i].quote.symbol]
BY DEF OrderOK, PublishedInOrder, SameRun, QuoteOK, Current

\* The steps that leave the quotes alone.
LEMMA QuotesStay ==
  ASSUME OrderOK, PublishedInOrder, SameRun, UNCHANGED <<taken, queue, projected>>,
         \A s \in Symbols : ticker'[s] \in {0, session'}
  PROVE  OrderOK' /\ PublishedInOrder'
<1>1. \A q \in Range(taken') \cup Range(queue') \cup Range(projected') : QuoteOK(q)'
  BY SameRunStep DEF OrderOK
<1>2. /\ Increasing(queue') /\ Increasing(projected')
      /\ Before(taken', queue') /\ Before(taken', projected') /\ Before(queue', projected')
  BY DEF OrderOK
<1>3. QED
  BY <1>1, <1>2, SameRunStep DEF OrderOK, Increasing, Before

\* The quote in the hands of the loop is published.
LEMMA PublishStep ==
  ASSUME TypeOK, OrderOK, PublishedInOrder, Len(taken) = 1, loop # "stopped", loop' # "stopped",
         published' = published \o Publication, taken' = <<>>,
         UNCHANGED <<queue, projected, sequence, runs, ticker, session>>
  PROVE  OrderOK' /\ PublishedInOrder'
<1>1. /\ published' = Append(published, [quote |-> taken[1], run |-> runs]) /\ taken[1] \in Quote
  BY PublicationType DEF TypeOK
<1>2. PICK m \in Nat : m = Len(published) + 1
  BY DEF TypeOK, LoopType
<1>3. /\ DOMAIN published = 1..m-1 /\ DOMAIN published' = 1..m
      /\ \A i \in 1..m-1 : published'[i] = published[i]
      /\ published'[m].quote = taken[1] /\ published'[m].run = runs
  <2>1. published \in Seq(Entry) /\ [quote |-> taken[1], run |-> runs] \in Entry
    BY <1>1 DEF TypeOK, LoopType, Entry
  <2>2. PICK x \in Entry : x = [quote |-> taken[1], run |-> runs]
    BY <2>1
  <2>3. published' = Append(published, x)
    BY <1>1, <2>2
  <2>4. /\ DOMAIN published = 1..m-1 /\ DOMAIN published' = 1..m
        /\ \A i \in 1..m-1 : published'[i] = published[i]
        /\ published'[m] = x
    BY <1>2, <2>1, <2>3
  <2>5. QED
    BY <2>2, <2>4
<1>4. taken \in Seq(Quote) /\ 1 \in DOMAIN taken /\ taken[1] \in Range(taken)
  BY DEF TypeOK, LoopType, Range
<1>5. QuoteOK(taken[1])
  BY <1>4 DEF OrderOK
<1>6. \A i \in 1..m : i \in 1..m-1 \/ i = m
  BY <1>2
<1>7. runs \in Nat /\ queue \in Seq(Quote) /\ projected \in Seq(Quote)
  BY DEF TypeOK, LoopType, ProviderType
<1>8. \A i \in 1..m-1 : Current(i)' <=> Current(i)
  BY <1>3 DEF Current
<1>9. ASSUME NEW q \in Range(taken') \cup Range(queue') \cup Range(projected') PROVE QuoteOK(q)'
  <2>1. q \in Range(queue) \cup Range(projected)
    BY NothingOrdered
  <2>2. QuoteOK(q)
    BY <2>1 DEF OrderOK
  <2>3. taken[1].symbol = q.symbol => taken[1].number < q.number
    BY <1>4, <2>1 DEF OrderOK, Before, Range
  <2>4. QED
    BY <1>3, <1>6, <1>8, <2>2, <2>3 DEF QuoteOK
<1>10. ASSUME NEW i \in DOMAIN published'
       PROVE  /\ published'[i].run <= runs
              /\ Current(i)' => published'[i].quote.number <= sequence[published'[i].quote.symbol]
              /\ published'[i].quote.book \in {0, published'[i].quote.session}
  <2>1. CASE i \in 1..m-1
    BY <1>3, <1>8, <2>1 DEF OrderOK, PublishedInOrder
  <2>2. CASE i = m
    BY <1>3, <1>5, <1>7, <2>2 DEF QuoteOK
  <2>3. QED
    BY <1>3, <1>6, <2>1, <2>2
<1>11. PublishedInOrder'
  <2>1. ASSUME NEW i \in 1..m, NEW j \in 1..m, i < j, published'[i].run = published'[j].run,
               published'[i].quote.symbol = published'[j].quote.symbol
        PROVE  published'[i].quote.number < published'[j].quote.number
    <3>1. i \in 1..m-1
      BY <1>2, <2>1
    <3>2. CASE j \in 1..m-1
      BY <1>3, <2>1, <3>1, <3>2 DEF PublishedInOrder
    <3>3. CASE j = m
      BY <1>3, <1>5, <2>1, <3>1, <3>3 DEF QuoteOK, Current
    <3>4. QED
      BY <1>6, <3>2, <3>3
  <2>2. QED
    BY <1>3, <1>10, <2>1 DEF PublishedInOrder
<1>12. /\ Increasing(queue') /\ Increasing(projected')
       /\ Before(taken', queue') /\ Before(taken', projected') /\ Before(queue', projected')
  BY NothingOrdered DEF OrderOK
<1>13. QED
  BY <1>9, <1>10, <1>11, <1>12 DEF OrderOK, Increasing, Before

\* A smaller set of quotes on their way, in the same order.
LEMMA QuotesMove ==
  ASSUME OrderOK, PublishedInOrder, SameRun,
         \A q \in Range(taken') \cup Range(queue') \cup Range(projected') :
           q \in Range(taken) \cup Range(queue) \cup Range(projected),
         Increasing(queue') /\ Increasing(projected'),
         Before(taken', queue') /\ Before(taken', projected') /\ Before(queue', projected'),
         UNCHANGED <<ticker, session>>
  PROVE  OrderOK' /\ PublishedInOrder'
<1>1. \A q \in Range(taken') \cup Range(queue') \cup Range(projected') : QuoteOK(q)'
  BY SameRunStep DEF OrderOK
<1>2. QED
  BY <1>1, SameRunStep DEF OrderOK, Increasing, Before

\* The quotes stay in order from the projector to the stream.
LEMMA OrderStep ==
  ASSUME TypeOK, StagesOK, DownOK, OrderOK, PublishedInOrder, Next
  PROVE  OrderOK' /\ PublishedInOrder'
<1>0. /\ queue \in Seq(Quote) /\ projected \in Seq(Quote) /\ taken \in Seq(Quote) /\ runs \in Nat /\ session \in Nat
      /\ ticker \in [Symbols -> Nat] /\ sequence \in [Symbols -> Nat]
      /\ published \in Seq(Entry) /\ ProviderType
  BY DEF TypeOK, ProviderType, LoopType
<1>o. /\ Increasing(queue) /\ Increasing(projected)
      /\ Before(taken, queue) /\ Before(taken, projected) /\ Before(queue, projected)
      /\ \A s \in Symbols : ticker[s] \in {0, session}
  BY DEF OrderOK
<1>1. CASE \/ \E a \in Actions, s \in Symbols : PublishControl(a, s)
           \/ ControlStep \/ ReadGroupFails \/ AckControlFails \/ Acknowledge
  <2>1. /\ UNCHANGED <<published, sequence, runs, taken, queue, projected, ticker, session>>
        /\ loop' = "stopped" <=> loop = "stopped"
    BY <1>1 DEF PublishControl, ControlStep, ReadGroupFails, AckControlFails, ReadGroup, ApplyControl, RejectControl,
       ControlSubscribes, ControlUnsubscribes, ControlSendRaises, AckControl, Acknowledge, SendSubscribe,
       SendUnsubscribe, SendRaises, ReceiveSubscriptions, providerVars, loopVars
  <2>2. QED
    BY <1>o, <2>1, QuotesStay DEF SameRun
<1>2. CASE Connect \/ ConnectRaises \/ Resubscribe \/ ResubscribeRaises \/ MarkConnected \/ EventsEnd \/ Outage
  <2>1. /\ UNCHANGED <<published, sequence, runs, taken, queue, projected, session>>
        /\ loop' = "stopped" <=> loop = "stopped"
        /\ ticker' = ticker \/ ticker' = [s \in Symbols |-> 0]
    BY <1>2 DEF Connect, ConnectRaises, Resubscribe, ResubscribeRaises, MarkConnected, EventsEnd, Outage,
       BeginConnect, ConnectFails, SendSubscribe, SendRaises, providerVars
  <2>2. \A s \in Symbols : ticker'[s] \in {0, session'}
    BY <1>o, <2>1
  <2>3. QED
    BY <2>1, <2>2, QuotesStay DEF SameRun
<1>3. CASE ConnectSucceeds
  <2>1. /\ UNCHANGED <<published, sequence, runs, taken, queue, projected, ticker>>
        /\ loop' = "stopped" <=> loop = "stopped"
    BY <1>3 DEF ConnectSucceeds, Connected
  <2>2. \A s \in Symbols : ticker'[s] \in {0, session'}
    BY <1>3, <2>1 DEF ConnectSucceeds, DownOK
  <2>3. QED
    BY <2>1, <2>2, QuotesStay DEF SameRun
<1>4. CASE TakeEvent
  <2>1. /\ queue # <<>> /\ taken = <<>> /\ taken' = <<Head(queue)>> /\ queue' = Tail(queue)
        /\ UNCHANGED <<published, sequence, runs, projected, ticker, session>> /\ SameRun
    BY <1>4 DEF TakeEvent, StagesOK, SameRun
  <2>2. /\ Head(queue) \in Range(queue) /\ Range(queue') \subseteq Range(queue)
        /\ Increasing(queue') /\ Before(taken', queue') /\ Before(queue', projected) /\ Before(taken', projected)
    BY <1>0, <1>o, <2>1, TakeFirst
  <2>3. Range(taken') = {Head(queue)}
    BY <2>1 DEF Range
  <2>4. QED
    BY <1>o, <2>1, <2>2, <2>3, QuotesMove
<1>5. CASE PublishQuote
  BY <1>5, PublishStep DEF PublishQuote, StagesOK, providerVars
<1>6. CASE LoopFails
  <2>1. /\ taken' = <<>> /\ loop # "stopped" /\ loop' # "stopped"
        /\ UNCHANGED <<queue, projected, sequence, runs, ticker, session>>
    BY <1>6 DEF LoopFails, providerVars
  <2>2. CASE published' = published
    <3>1. SameRun
      BY <2>1, <2>2 DEF SameRun
    <3>2. QED
      BY <1>o, <2>1, <3>1, NothingOrdered, QuotesMove
  <2>3. CASE Len(taken) = 1 /\ published' = published \o Publication
    BY <2>1, <2>3, PublishStep
  <2>4. QED
    BY <1>6, <2>2, <2>3, LoopFailsEffect DEF TypeOK
<1>7. CASE DisconnectProvider
  <2>1. /\ projected' = <<>> /\ UNCHANGED <<taken, queue, ticker, session>> /\ SameRun
    BY <1>7 DEF DisconnectProvider, Disconnect, SameRun
  <2>2. QED
    BY <1>o, <2>1, NothingOrdered, QuotesMove
<1>8. CASE ReaderStep /\ UNCHANGED <<controlVars, lock, loopVars, runs, faults>>
  <2>0. UNCHANGED <<published, runs, taken, loop>>
    BY <1>8 DEF loopVars
  <2>1. CASE LinkCloses \/ ReaderEnds
    <3>1. UNCHANGED <<queue, projected, sequence, ticker, session>>
      BY <2>1 DEF LinkCloses, ReaderEnds
    <3>2. QED
      BY <1>o, <2>0, <3>1, QuotesStay DEF SameRun
  <2>2. ASSUME NEW s \in Symbols, ReceiveTicker(s) PROVE OrderOK' /\ PublishedInOrder'
    <3>1. UNCHANGED <<queue, projected, sequence, session>> /\ ticker' = [ticker EXCEPT ![s] = session]
      BY <2>2 DEF ReceiveTicker
    <3>2. \A t \in Symbols : ticker'[t] \in {0, session'}
      BY <1>0, <1>o, <3>1
    <3>3. QED
      BY <2>0, <3>1, <3>2, QuotesStay DEF SameRun
  <2>3. CASE PutEvent
    <3>1. /\ projected # <<>> /\ projected' = Tail(projected) /\ UNCHANGED <<sequence, ticker, session>>
          /\ queue' = queue \/ queue' = Append(queue, Head(projected))
      BY <2>3 DEF PutEvent
    <3>2. PICK y \in Quote : y = Head(projected)
      BY <1>0, <3>1
    <3>3. /\ y \in Range(projected) /\ Range(projected') \subseteq Range(projected)
          /\ Increasing(projected') /\ Before(<<y>>, projected')
          /\ Before(taken, projected') /\ Before(taken, <<y>>)
          /\ Before(queue, projected') /\ Before(queue, <<y>>)
      BY <1>0, <1>o, <3>1, <3>2, TakeFirst
    <3>4. CASE queue' = queue
      BY <1>o, <2>0, <3>1, <3>3, <3>4, QuotesMove DEF SameRun
    <3>5. CASE queue' = Append(queue, y)
      <4>1. /\ Range(queue') = Range(queue) \cup {y} /\ Increasing(queue')
            /\ Before(taken, queue') /\ Before(queue', projected')
        BY <1>0, <1>o, <3>3, <3>5, AddLast
      <4>2. QED
        BY <1>o, <2>0, <3>1, <3>3, <4>1, QuotesMove DEF SameRun
    <3>6. QED
      BY <3>1, <3>2, <3>4, <3>5
  <2>4. ASSUME NEW symbols \in SUBSET Symbols, NEW bad \in SUBSET Symbols, ReceiveTrades(symbols, bad)
        PROVE  OrderOK' /\ PublishedInOrder'
    <3>1. /\ sequence' \in [Symbols -> Nat] /\ projected' \in Seq(Quote) /\ projected = <<>>
          /\ \A s \in Symbols : sequence[s] <= sequence'[s]
          /\ \A i \in DOMAIN projected' :
               /\ projected'[i].number = sequence[projected'[i].symbol] + 1
               /\ projected'[i].number = sequence'[projected'[i].symbol]
               /\ projected'[i].session = session /\ projected'[i].book = ticker[projected'[i].symbol]
          /\ \A i, j \in DOMAIN projected' : i # j => projected'[i].symbol # projected'[j].symbol
      BY <1>0, <2>4, TradesEffect
    <3>2. UNCHANGED <<queue, ticker, session>>
      BY <2>4 DEF ReceiveTrades
    <3>n. /\ \A s \in Symbols : sequence[s] \in Nat /\ sequence'[s] \in Nat
          /\ \A i \in DOMAIN published : published[i] \in Entry
      BY <1>0, <3>1
    <3>p. \A i \in DOMAIN published : published[i].quote.symbol \in Symbols /\ published[i].quote.number \in Nat
      BY <3>n DEF Entry, Quote
    <3>q. \A q \in Range(taken) \cup Range(queue) \cup Range(projected') :
            q \in Quote /\ q.symbol \in Symbols /\ q.number \in Nat
      <4>1. \A q \in Range(taken) \cup Range(queue) \cup Range(projected') : q \in Quote
        BY <1>0, <3>1 DEF Range
      <4>2. QED
        BY <4>1 DEF Quote
    <3>3. \A i : Current(i)' <=> Current(i)
      BY <2>0 DEF Current
    <3>4. \A i \in DOMAIN published :
            Current(i) => published[i].quote.number <= sequence[published[i].quote.symbol]
      BY DEF OrderOK
    <3>5. ASSUME NEW q \in Range(taken) \cup Range(queue) PROVE QuoteOK(q)' /\ q.number <= sequence[q.symbol]
      <4>1. QuoteOK(q) /\ q.symbol \in Symbols /\ q.number \in Nat
        BY <3>q DEF OrderOK
      <4>2. q.number <= sequence'[q.symbol]
        BY <3>1, <3>n, <4>1 DEF QuoteOK
      <4>3. QED
        BY <2>0, <3>3, <4>1, <4>2 DEF QuoteOK
    <3>6. ASSUME NEW q \in Range(projected') PROVE QuoteOK(q)'
      <4>1. /\ q.number = sequence[q.symbol] + 1 /\ q.number = sequence'[q.symbol]
            /\ q.session = session /\ q.book = ticker[q.symbol]
        BY <3>1 DEF Range
      <4>2. q.symbol \in Symbols /\ q.number \in Nat
        BY <3>q
      <4>3. q.book \in {0, q.session}
        BY <1>o, <4>1, <4>2
      <4>4. ASSUME NEW i \in DOMAIN published, Current(i), published[i].quote.symbol = q.symbol
            PROVE  published[i].quote.number < q.number
        BY <3>4, <3>n, <3>p, <4>1, <4>2, <4>4
      <4>5. QED
        BY <2>0, <3>3, <4>1, <4>2, <4>3, <4>4 DEF QuoteOK
    <3>7. Increasing(projected')
      <4>1. \A i \in DOMAIN projected' : i \in Nat
        BY <3>1
      <4>2. QED
        BY <3>1, <4>1 DEF Increasing
    <3>8. ASSUME NEW xs \in {taken, queue} PROVE Before(xs, projected')
      <4>1. ASSUME NEW i \in DOMAIN xs, NEW j \in DOMAIN projected', xs[i].symbol = projected'[j].symbol
            PROVE  xs[i].number < projected'[j].number
        <5>1. xs[i] \in Range(taken) \cup Range(queue)
          BY DEF Range
        <5>2. xs[i].number <= sequence[xs[i].symbol] /\ xs[i].symbol \in Symbols /\ xs[i].number \in Nat
          BY <3>5, <3>q, <5>1
        <5>3. projected'[j].number = sequence[xs[i].symbol] + 1
          BY <3>1, <4>1
        <5>4. QED
          BY <3>n, <5>2, <5>3
      <4>2. QED
        BY <4>1 DEF Before
    <3>9. \A i \in DOMAIN published :
            /\ published[i].run <= runs
            /\ Current(i) => published[i].quote.number <= sequence'[published[i].quote.symbol]
      BY <3>1, <3>n, <3>p DEF OrderOK
    <3>10. PublishedInOrder'
      BY <2>0 DEF PublishedInOrder
    <3>11. QED
      BY <1>o, <2>0, <3>2, <3>3, <3>5, <3>6, <3>7, <3>8, <3>9, <3>10 DEF OrderOK, Increasing, Before
  <2>5. QED
    BY <1>8, <2>1, <2>2, <2>3, <2>4 DEF ReaderStep
<1>9. CASE Stop
  <2>1. /\ queue' = <<>> /\ projected' = <<>> /\ taken' = <<>> /\ loop' = "stopped"
        /\ ticker' = [s \in Symbols |-> 0] /\ UNCHANGED <<published, runs>>
    BY <1>9 DEF Stop
  <2>2. \A i : ~Current(i)'
    BY <2>1 DEF Current
  <2>3. PublishedInOrder'
    BY <2>1 DEF PublishedInOrder
  <2>4. \A i \in DOMAIN published : published[i].run <= runs
    BY DEF OrderOK
  <2>5. QED
    BY <2>1, <2>2, <2>3, <2>4, NothingOrdered DEF OrderOK, Increasing, Before
<1>10. CASE Restart
  <2>1. UNCHANGED <<queue, projected, taken, published, sequence, ticker, session>> /\ runs' = runs + 1
    BY <1>10 DEF Restart, providerVars
  <2>2. \A i \in DOMAIN published : published[i].run \in Nat /\ published[i].run <= runs
    <3>1. \A i \in DOMAIN published : published[i] \in Entry
      BY <1>0
    <3>2. QED
      BY <3>1 DEF Entry, OrderOK
  <2>3. \A i \in DOMAIN published : ~Current(i)' /\ published[i].run <= runs'
    BY <1>0, <2>1, <2>2 DEF Current
  <2>4. ASSUME NEW q, QuoteOK(q) PROVE QuoteOK(q)'
    BY <2>1, <2>3, <2>4 DEF QuoteOK
  <2>5. PublishedInOrder'
    BY <2>1 DEF PublishedInOrder
  <2>6. QED
    BY <2>1, <2>3, <2>4, <2>5 DEF OrderOK, Increasing, Before
<1>11. QED
  BY <1>1, <1>2, <1>3, <1>4, <1>5, <1>6, <1>7, <1>8, <1>9, <1>10 DEF Next, LoopStep

-----------------------------------------------------------------------------
(* The theorems *)

\* The invariant holds when the collector starts for the first time.
LEMMA CollectorInit ==
  ASSUME Init
  PROVE  CollectorInv
<1> USE DEF Init, ProviderInit
<1>1. TypeOK
  <2>1. ProviderType
    BY DownRecords DEF ProviderType
  <2>2. ControlType
    BY DEF ControlType, ControlStages
  <2>3. LoopType
    BY DEF LoopType, LoopStages
  <2>4. QED
    BY <2>1, <2>2, <2>3 DEF TypeOK
<1>2. StagesOK /\ DownOK /\ ServesOK
  BY DEF StagesOK, DownOK, ServesOK, Offline
<1>3. WantedOK
  <2>1. Applied = 0 /\ \A s : ~WantedAt(stream, s, 0)
    <3>1. Applied = 0
      <4>1. Len(batch) = 0 /\ delivered = 0 /\ control = "read"
        OBVIOUS
      <4>2. Applied = delivered - Len(batch)
        BY <4>1 DEF Applied
      <4>3. QED
        BY <4>1, <4>2
    <3>2. \A s : ~WantedAt(stream, s, 0)
      BY DEF WantedAt
    <3>3. QED
      BY <3>1, <3>2
  <2>2. QED
    BY <2>1 DEF WantedOK
<1>4. OrderOK /\ PublishedInOrder
  BY NothingOrdered DEF OrderOK, PublishedInOrder, Current
<1>5. QED
  BY <1>1, <1>2, <1>3, <1>4 DEF CollectorInv

\* The state of the control loop, the provider loop, the provider and its reader
\* is consistent in every behaviour.
THEOREM CollectorInvariant == Spec => []CollectorInv
<1>1. Init => CollectorInv
  BY CollectorInit
<1>2. CollectorInv /\ [Next]_vars => CollectorInv'
  <2>1. SUFFICES ASSUME CollectorInv, [Next]_vars PROVE CollectorInv'
    OBVIOUS
  <2>2. CASE Next
    BY <2>1, <2>2, CollectorType, StagesStep, ServesStep, WantedStep, OrderStep DEF CollectorInv
  <2>3. CASE UNCHANGED vars
    <3>1. /\ UNCHANGED <<provider, upstream, request, session, ticker, sequence, projected, queue, messages, drops>>
          /\ UNCHANGED <<stream, delivered, batch, active, control, missed, lock, loop, taken, published, runs, faults>>
      BY <2>3 DEF vars, providerVars, controlVars, loopVars
    <3>2. TypeOK'
      BY <2>1, <3>1 DEF CollectorInv, TypeOK, ProviderType, ControlType, LoopType
    <3>3. StagesOK' /\ DownOK' /\ ServesOK'
      BY <2>1, <3>1 DEF CollectorInv, StagesOK, DownOK, ServesOK
    <3>4. WantedOK'
      BY <2>1, <3>1 DEF CollectorInv, WantedOK, Applied
    <3>5. OrderOK' /\ PublishedInOrder'
      <4>1. SameRun /\ \A s \in Symbols : ticker'[s] \in {0, session'}
        BY <2>1, <3>1 DEF SameRun, CollectorInv, OrderOK
      <4>2. QED
        BY <2>1, <3>1, <4>1, QuotesStay DEF CollectorInv
    <3>6. QED
      BY <3>2, <3>3, <3>4, <3>5 DEF CollectorInv
  <2>4. QED
    BY <2>1, <2>2, <2>3
<1>3. QED
  BY <1>1, <1>2, PTL DEF Spec

\* Whenever nobody holds _provider_lock, an open session of a connected provider
\* delivers exactly the active symbols, whatever the interleaving of
\* _apply_control, _provider_loop, disconnect and the reader.
THEOREM SessionServesTheActive == Spec => []SessionServesActive
<1>1. CollectorInv => SessionServesActive
  BY DEF CollectorInv, SessionServesActive, ServesOK, StagesOK
<1>2. QED
  BY <1>1, CollectorInvariant, PTL

\* The quotes of a symbol that one run of the collector publishes have
\* increasing local numbers and a book of their own session, through
\* disconnects, reconnects, failed publications and restarts.
THEOREM QuotesPublishedInOrder == Spec => []PublishedInOrder
<1>1. CollectorInv => PublishedInOrder
  BY DEF CollectorInv
<1>2. QED
  BY <1>1, CollectorInvariant, PTL

\* When the control loop has worked off what it was delivered, the active symbols
\* are those whose last valid message asks for them, but for messages that an
\* exception threw away (_control_loop, _apply_control).
THEOREM ActiveAreWanted == Spec => []ActiveIsWanted
<1>1. CollectorInv => ActiveIsWanted
  <2>1. SUFFICES ASSUME CollectorInv, control = "read", runs = 1, NEW s \in Symbols \ missed
                 PROVE  s \in active <=> Wanted(s)
    BY DEF ActiveIsWanted
  <2>2. Len(batch) = 0 /\ delivered \in Nat
    BY <2>1 DEF CollectorInv, StagesOK, TypeOK, ControlType
  <2>3. Applied = delivered
    BY <2>1, <2>2 DEF Applied
  <2>4. s \in active <=> WantedAt(stream, s, delivered)
    BY <2>1, <2>3 DEF CollectorInv, WantedOK
  <2>5. QED
    BY <2>4 DEF WantedAt, Wanted
<1>2. QED
  BY <1>1, CollectorInvariant, PTL
=============================================================================
