------------------------------ MODULE Collector ------------------------------
(***************************************************************************)
(* CollectorService (collector.py) on top of the Coinbase provider: the    *)
(* control loop applies the subscribe and unsubscribe messages of the      *)
(* gateways, the provider loop connects, publishes the quotes and          *)
(* reconnects. Both use the provider under _provider_lock, except for      *)
(* disconnect, which the provider loop calls without it.                   *)
(***************************************************************************)
EXTENDS CoinbaseProvider

CONSTANTS
  MaxControl,  \* bound: control messages
  MaxFaults    \* bound: failed Redis commands and killed collectors

ASSUME CollectorAssumption == MaxControl \in Nat /\ MaxFaults \in Nat

VARIABLES
  stream,     \* smdg:control
  delivered,  \* entries that the consumer group has delivered
  batch,      \* entries that the control loop has read and not finished
  active,     \* active_symbols
  lock,       \* holder of _provider_lock
  control,    \* stage of the control loop
  loop,       \* stage of the provider loop
  taken,      \* the quote that is being published
  published,  \* the quote stream
  runs,       \* starts of the process
  missed,     \* history: symbols of control messages that were read and never applied
  faults

controlVars == <<stream, delivered, batch, active, control, missed>>
loopVars == <<loop, taken, published>>
vars == <<providerVars, controlVars, lock, loopVars, runs, faults>>

Actions == {"subscribe", "unsubscribe", "invalid"}

Init ==
  /\ ProviderInit
  /\ stream = <<>> /\ delivered = 0 /\ batch = <<>>
  /\ active = {} /\ missed = {}
  /\ lock = "free"
  /\ control = "read" /\ loop = "lock"
  /\ taken = <<>> /\ published = <<>>
  /\ runs = 1 /\ faults = 0

-----------------------------------------------------------------------------
(* The control loop *)

\* A gateway appends a control message.
PublishControl(action, s) ==
  /\ Len(stream) < MaxControl
  /\ stream' = Append(stream, [action |-> action, symbol |-> s])
  /\ UNCHANGED <<providerVars, delivered, batch, active, control, missed, lock, loopVars,
                 runs, faults>>

ReadGroup ==
  /\ control = "read" /\ delivered < Len(stream)
  /\ batch' = SubSeq(stream, delivered + 1, Len(stream))
  /\ delivered' = Len(stream)
  /\ control' = "apply"
  /\ UNCHANGED <<providerVars, stream, active, missed, lock, loopVars, runs, faults>>

\* XREADGROUP raises after the entries were delivered to this consumer.
ReadGroupFails ==
  /\ control = "read" /\ delivered < Len(stream) /\ faults < MaxFaults
  /\ faults' = faults + 1
  /\ delivered' = Len(stream)
  /\ missed' = missed \cup {stream[i].symbol : i \in (delivered + 1)..Len(stream)}
  /\ UNCHANGED <<providerVars, stream, batch, active, control, lock, loopVars, runs>>

\* Faulty variant: messages are only recorded while the provider is connected.
ApplyControlConnected ==
  LET s       == Head(batch).symbol
      changes == provider.state = "connected" /\ s \notin active
  IN  /\ control = "apply" /\ lock = "free"
      /\ Head(batch).action # "invalid"
      /\ active' = IF changes THEN active \cup {s} ELSE active
      /\ provider' = IF changes THEN Subscribing(provider, {s}) ELSE provider
      /\ request' = IF changes THEN SubscribeRequest(provider, {s}) ELSE NoRequest
      /\ lock' = IF changes THEN "control" ELSE "free"
      /\ control' = IF changes THEN "send" ELSE "ack"
      /\ UNCHANGED <<upstream, session, ticker, sequence, projected, queue, messages,
                     drops, stream, delivered, batch, missed, loopVars, runs, faults>>

\* _apply_control up to the first send. Nothing is sent for a symbol that was
\* already (in)active, nor while the provider is not connected.
ApplyControl ==
  LET s       == Head(batch).symbol
      changes == provider.state = "connected"
                   /\ (s \in active) = (Head(batch).action = "unsubscribe")
  IN  /\ control = "apply" /\ lock = "free"
      /\ Head(batch).action # "invalid"
      /\ \/ /\ Head(batch).action = "subscribe"
            /\ active' = active \cup {s}
            /\ provider' = IF changes THEN Subscribing(provider, {s}) ELSE provider
            /\ request' = IF changes THEN SubscribeRequest(provider, {s}) ELSE NoRequest
         \/ /\ Head(batch).action = "unsubscribe"
            /\ active' = active \ {s}
            /\ provider' = IF changes THEN Unsubscribing(provider, {s}) ELSE provider
            /\ request' = IF changes THEN UnsubscribeRequest(provider, {s}) ELSE NoRequest
      /\ lock' = IF request' = NoRequest THEN "free" ELSE "control"
      /\ control' = IF request' = NoRequest THEN "ack" ELSE "send"
      /\ UNCHANGED <<upstream, session, ticker, sequence, projected, queue, messages,
                     drops, stream, delivered, batch, missed, loopVars, runs, faults>>

\* An invalid message is copied to the dead-letter stream.
RejectControl ==
  /\ control = "apply" /\ Head(batch).action = "invalid"
  /\ control' = "ack"
  /\ UNCHANGED <<providerVars, stream, delivered, batch, active, missed, lock, loopVars,
                 runs, faults>>

ControlSubscribes ==
  /\ control = "send"
  /\ SendSubscribe
  /\ control' = IF MustWait THEN "await" ELSE "ack"
  /\ lock' = IF MustWait THEN "control" ELSE "free"
  /\ UNCHANGED <<stream, delivered, batch, active, missed, loopVars, runs, faults>>

ControlUnsubscribes ==
  /\ control = "send"
  /\ SendUnsubscribe
  /\ control' = "ack" /\ lock' = "free"
  /\ UNCHANGED <<stream, delivered, batch, active, missed, loopVars, runs, faults>>

\* An exception leaves the batch: its other messages are delivered, and this
\* group never claims a pending entry.
AbandonBatch ==
  /\ missed' = missed \cup {m.symbol : m \in Range(Tail(batch))}
  /\ batch' = <<>>
  /\ control' = "read"

ControlSendRaises ==
  /\ control = "send"
  /\ SendRaises
  /\ AbandonBatch
  /\ lock' = "free"
  /\ UNCHANGED <<stream, delivered, active, loopVars, runs, faults>>

AckControl ==
  /\ control = "ack"
  /\ batch' = Tail(batch)
  /\ control' = IF Len(batch) = 1 THEN "read" ELSE "apply"
  /\ UNCHANGED <<providerVars, stream, delivered, active, missed, lock, loopVars, runs,
                 faults>>

\* XACK, or the copy of an invalid message, raises.
AckControlFails ==
  /\ faults < MaxFaults
  /\ control = "ack" \/ (control = "apply" /\ Head(batch).action = "invalid")
  /\ faults' = faults + 1
  /\ AbandonBatch
  /\ UNCHANGED <<providerVars, stream, delivered, active, lock, loopVars, runs>>

-----------------------------------------------------------------------------
(* The provider loop *)

Connect ==
  /\ loop = "lock" /\ lock = "free"
  /\ BeginConnect
  /\ lock' = "provider" /\ loop' = "connect"
  /\ UNCHANGED <<controlVars, taken, published, runs, faults>>

ConnectSucceeds ==
  /\ loop = "connect"
  /\ Connected(active)
  /\ loop' = IF active = {} THEN "mark" ELSE "send"
  /\ lock' = IF active = {} THEN "free" ELSE "provider"
  /\ UNCHANGED <<controlVars, taken, published, runs, faults>>

ConnectRaises ==
  /\ loop = "connect"
  /\ ConnectFails
  /\ loop' = "outage" /\ lock' = "free"
  /\ UNCHANGED <<controlVars, taken, published, runs, faults>>

Resubscribe ==
  /\ loop = "send"
  /\ SendSubscribe
  /\ loop' = IF MustWait THEN "await" ELSE "mark"
  /\ lock' = IF MustWait THEN "provider" ELSE "free"
  /\ UNCHANGED <<controlVars, taken, published, runs, faults>>

ResubscribeRaises ==
  /\ loop = "send"
  /\ SendRaises
  /\ loop' = "outage" /\ lock' = "free"
  /\ UNCHANGED <<controlVars, taken, published, runs, faults>>

\* The reader records the acknowledgement that a subscribe waits for.
Acknowledge ==
  /\ ReceiveSubscriptions
  /\ control' = IF control = "await" /\ Completes THEN "ack" ELSE control
  /\ loop' = IF loop = "await" /\ Completes THEN "mark" ELSE loop
  /\ lock' = IF Completes /\ (control = "await" \/ loop = "await") THEN "free" ELSE lock
  /\ UNCHANGED <<stream, delivered, batch, active, missed, taken, published, runs, faults>>

\* The provider state is set to connected in Redis.
MarkConnected ==
  /\ loop = "mark"
  /\ loop' = "events"
  /\ UNCHANGED <<providerVars, controlVars, lock, taken, published, runs, faults>>

\* events yields the next quote, also one of an earlier session.
TakeEvent ==
  /\ loop = "events" /\ queue # <<>>
  /\ taken' = <<Head(queue)>>
  /\ queue' = Tail(queue)
  /\ loop' = "publish"
  /\ UNCHANGED <<provider, upstream, request, session, ticker, sequence, projected,
                 messages, drops, controlVars, lock, published, runs, faults>>

\* Faulty variant: a reader that has ended by itself is not noticed.
EventsEndIfDisconnected ==
  /\ loop = "events"
  /\ provider.reader = "none" /\ queue = <<>>
  /\ loop' = "outage"
  /\ UNCHANGED <<providerVars, controlVars, lock, taken, published, runs, faults>>

\* events ends once the reader has ended and the queue is empty.
EventsEnd ==
  /\ loop = "events"
  /\ provider.reader # "running" /\ queue = <<>>
  /\ loop' = "outage"
  /\ UNCHANGED <<providerVars, controlVars, lock, taken, published, runs, faults>>

\* What publish_quote appends: quotes carry the number of the run as well.
Publication == <<[quote |-> taken[1], run |-> runs]>>

PublishQuote ==
  /\ loop = "publish"
  /\ published' = published \o Publication
  /\ taken' = <<>>
  /\ loop' = "events"
  /\ UNCHANGED <<providerVars, controlVars, lock, runs, faults>>

\* A Redis command of the loop raises; XADD may have taken effect.
LoopFails ==
  /\ faults < MaxFaults
  /\ loop \in {"mark", "publish"}
  /\ faults' = faults + 1
  /\ published' \in {published} \cup {published \o Publication : x \in DOMAIN taken}
  /\ taken' = <<>>
  /\ loop' = "outage"
  /\ UNCHANGED <<providerVars, controlVars, lock, runs>>

\* The provider state and the reconnect counter are written.
Outage ==
  /\ loop = "outage"
  /\ loop' = "disconnect"
  /\ UNCHANGED <<providerVars, controlVars, lock, taken, published, runs, faults>>

\* disconnect and the backoff, without the provider lock.
DisconnectProvider ==
  /\ loop = "disconnect"
  /\ Disconnect
  /\ loop' = "lock"
  /\ UNCHANGED <<controlVars, lock, taken, published, runs, faults>>

-----------------------------------------------------------------------------
(* The process *)

\* A Redis command of the exception handler raises, which ends run, or the
\* process is killed.
Stop ==
  /\ faults < MaxFaults /\ loop # "stopped"
  /\ faults' = faults + 1
  /\ control' = "stopped" /\ loop' = "stopped"
  /\ provider' = Offline /\ upstream' = NoSession /\ request' = NoRequest
  /\ ticker' = [s \in Symbols |-> 0] /\ sequence' = [s \in Symbols |-> 0]
  /\ projected' = <<>> /\ queue' = <<>>
  /\ missed' = missed \cup {m.symbol : m \in Range(batch)}
  /\ batch' = <<>> /\ active' = {}
  /\ lock' = "free" /\ taken' = <<>>
  /\ UNCHANGED <<session, messages, drops, stream, delivered, published, runs>>

\* The container is restarted.
Restart ==
  /\ loop = "stopped"
  /\ control' = "read" /\ loop' = "lock"
  /\ runs' = runs + 1
  /\ UNCHANGED <<providerVars, stream, delivered, batch, active, missed, lock, taken,
                 published, faults>>

-----------------------------------------------------------------------------
ControlStep == ReadGroup \/ ApplyControl \/ RejectControl \/ ControlSubscribes
                 \/ ControlUnsubscribes \/ ControlSendRaises \/ AckControl

LoopStep == Connect \/ ConnectSucceeds \/ Resubscribe \/ ResubscribeRaises \/ MarkConnected
              \/ TakeEvent \/ EventsEnd \/ PublishQuote \/ Outage \/ DisconnectProvider

Next ==
  \/ \E a \in Actions, s \in Symbols : PublishControl(a, s)
  \/ ControlStep \/ ReadGroupFails \/ AckControlFails
  \/ LoopStep \/ ConnectRaises \/ LoopFails
  \/ Acknowledge
  \/ ReaderStep /\ UNCHANGED <<controlVars, lock, loopVars, runs, faults>>
  \/ Stop \/ Restart

Spec == Init /\ [][Next]_vars

\* The tasks run when they can, the server answers on a session that stays
\* open, the reader notices a closed session, and the container is restarted
\* (docker-compose.yml: unless-stopped). asyncio.Lock is fair: whoever waits
\* for a lock that is released again and again gets it.
FairSpec ==
  /\ Spec
  /\ SF_vars(ControlStep) /\ SF_vars(LoopStep)
  /\ WF_vars(Acknowledge) /\ WF_vars(Restart)
  /\ WF_vars(PutEvent /\ UNCHANGED <<controlVars, lock, loopVars, runs, faults>>)
  /\ WF_vars(upstream.link = "closed" /\ ReaderEnds
               /\ UNCHANGED <<controlVars, lock, loopVars, runs, faults>>)

-----------------------------------------------------------------------------
(* Properties *)

\* A session on which nothing is being changed delivers exactly the active
\* symbols, through reconnects, failed sends and control messages at any
\* moment (the order of active_symbols, _symbols and the sends in
\* _apply_control, _provider_loop, subscribe, unsubscribe and disconnect).
SessionServesActive ==
  lock = "free" /\ provider.state = "connected" /\ upstream.link = "open"
    => provider.symbols = active /\ upstream.symbols = active

\* The quotes of a symbol enter the quote stream in the order of their local
\* numbers and without repetition while the process lives, although the queue
\* outlives the session that filled it; and the book of a quote was received
\* in the quote's own session (clear_connection_state, disconnect, events).
PublishedInOrder ==
  \A i, j \in DOMAIN published :
    /\ published[i].quote.book \in {0, published[i].quote.session}
    /\ i < j /\ published[i].run = published[j].run
         /\ published[i].quote.symbol = published[j].quote.symbol
       => published[i].quote.number < published[j].quote.number

\* The last valid control message of s asks for it.
Wanted(s) ==
  \E i \in 1..delivered :
    /\ stream[i].symbol = s /\ stream[i].action = "subscribe"
    /\ \A j \in i+1..delivered : stream[j].symbol = s => stream[j].action = "invalid"

\* Once the delivered control messages are applied, the active symbols are
\* the wanted ones, except for those of messages that an exception or the end
\* of the process threw away (_control_loop).
ActiveIsWanted ==
  control = "read" /\ runs = 1
    => \A s \in Symbols \ missed : s \in active <=> Wanted(s)

\* A subscribe that holds the provider lock waits for acknowledgements that no
\* reader will record: the reader has ended, or it waits for room in the
\* queue, which the waiting provider loop does not empty.
Unanswerable ==
  \/ (control = "await" \/ loop = "await") /\ provider.reader # "running"
  \/ loop = "await" /\ projected # <<>> /\ Len(queue) = QueueSize

Restored == provider.state = "connected" /\ upstream.symbols = active /\ lock = "free"

\* The collector reconnects and restores the active symbols, unless a session
\* ends, or the queue fills up, while a subscribe waits for its
\* acknowledgements (_provider_loop, subscribe).
RestoredOrUnanswerable == <>[]Restored \/ <>[]Unanswerable
=============================================================================
