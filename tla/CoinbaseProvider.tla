-------------------------- MODULE CoinbaseProvider --------------------------
(***************************************************************************)
(* CoinbaseResearchMarketDataProvider with its reader task and its message *)
(* projector (providers/coinbase.py). The module defines the provider's    *)
(* operations as actions on its own state; the tasks that call them are    *)
(* added by Collector.                                                     *)
(*                                                                         *)
(* A suspension of the event loop ends a step. The sends of one request    *)
(* are one step: websockets only fails a send when the session has ended,  *)
(* and what was sent on an ended session is of no consequence. Quotes are  *)
(* reduced to their symbol, their local sequence number, the session they  *)
(* were received in and the session of the ticker that gave their book.    *)
(***************************************************************************)
EXTENDS Integers, Sequences, FiniteSets, Functions

CONSTANTS
  Symbols,
  Rank,         \* Rank[s]: position of s in sorted order
  QueueSize,    \* config.queue_size
  MaxMessages,  \* bound: ticker and trade messages
  MaxDrops      \* bound: sessions that fail to open, close or stall

ASSUME ProviderAssumption ==
  /\ IsFiniteSet(Symbols)
  /\ Rank \in [Symbols -> Nat]
  /\ \A s, t \in Symbols : Rank[s] = Rank[t] => s = t
  /\ QueueSize \in Nat \ {0}
  /\ MaxMessages \in Nat /\ MaxDrops \in Nat

VARIABLES
  provider,   \* _state, _symbols, _reader_task, _heartbeats_subscribed, _acknowledged_channels
  upstream,   \* external: the session as the server sees it
  request,    \* the subscription request that is being sent
  session,    \* number of the session
  ticker,     \* projector._ticker_by_symbol: session of the ticker, 0 if none
  sequence,   \* projector._sequence_by_symbol
  projected,  \* quotes of the message the reader is working on
  queue,
  messages, drops

providerVars == <<provider, upstream, request, session, ticker, sequence, projected,
                  queue, messages, drops>>

Channels == {"heartbeats", "ticker", "market_trades"}
BookChannels == {"ticker", "market_trades"}

NoRequest == [type |-> "none", symbols |-> {}]
Offline == [state |-> "disconnected", symbols |-> {}, reader |-> "none",
            heartbeats |-> FALSE, acknowledged |-> {}]
NoSession == [link |-> "none", heartbeats |-> FALSE, symbols |-> {}, confirming |-> FALSE]

ProviderInit ==
  /\ provider = Offline
  /\ upstream = NoSession
  /\ request = NoRequest
  /\ session = 0
  /\ ticker = [s \in Symbols |-> 0]
  /\ sequence = [s \in Symbols |-> 0]
  /\ projected = <<>> /\ queue = <<>>
  /\ messages = 0 /\ drops = 0

-----------------------------------------------------------------------------
(* connect, subscribe, unsubscribe, disconnect *)

\* Faulty variant: the local numbers start again with every session.
BeginConnectRenumbers ==
  /\ provider' = [provider EXCEPT !.state = "connecting", !.acknowledged = {}]
  /\ ticker' = [s \in Symbols |-> 0] /\ sequence' = [s \in Symbols |-> 0]
  /\ UNCHANGED <<upstream, request, session, projected, queue, messages, drops>>

\* connect, up to the opening handshake. No reader is alive: every caller has
\* disconnected before.
BeginConnect ==
  /\ provider' = [provider EXCEPT !.state = "connecting", !.acknowledged = {}]
  /\ ticker' = [s \in Symbols |-> 0]
  /\ UNCHANGED <<upstream, request, session, sequence, projected, queue, messages, drops>>

\* subscribe, up to its first send: the symbols are the provider's at once.
\* Nothing is sent when nothing is new and every channel is acknowledged.
Subscribing(p, symbols) == [p EXCEPT !.symbols = @ \cup symbols]
SubscribeRequest(p, symbols) ==
  IF symbols \subseteq p.symbols /\ p.acknowledged = Channels
    THEN NoRequest
    ELSE [type |-> "subscribe", symbols |-> symbols \ p.symbols]

\* unsubscribe, up to its first send.
Unsubscribing(p, symbols) == [p EXCEPT !.symbols = @ \ symbols]
UnsubscribeRequest(p, symbols) ==
  IF symbols \cap p.symbols = {}
    THEN NoRequest
    ELSE [type |-> "unsubscribe", symbols |-> symbols \cap p.symbols]

\* The handshake succeeds: the reader starts, and the caller subscribes to
\* the symbols without a suspension in between.
Connected(symbols) ==
  LET p == [provider EXCEPT !.state = "connected", !.reader = "running",
                            !.heartbeats = FALSE]
  IN  /\ provider' = Subscribing(p, symbols)
      /\ request' = IF symbols = {} THEN NoRequest ELSE SubscribeRequest(p, symbols)
      /\ upstream' = [NoSession EXCEPT !.link = "open"]
      /\ session' = session + 1
      /\ UNCHANGED <<ticker, sequence, projected, queue, messages, drops>>

ConnectFails ==
  /\ drops < MaxDrops
  /\ drops' = drops + 1
  /\ provider' = [provider EXCEPT !.state = "degraded"]
  /\ UNCHANGED <<upstream, request, session, ticker, sequence, projected, queue, messages>>

\* The messages of the request are sent.
SendSubscribe ==
  /\ request.type = "subscribe" /\ upstream.link = "open"
  /\ upstream' = [upstream EXCEPT !.heartbeats = TRUE, !.confirming = TRUE,
                                  !.symbols = @ \cup request.symbols]
  /\ provider' = [provider EXCEPT !.heartbeats = TRUE]
  /\ request' = NoRequest
  /\ UNCHANGED <<session, ticker, sequence, projected, queue, messages, drops>>

\* An unsubscription also withdraws the acknowledgement of its channels.
SendUnsubscribe ==
  /\ request.type = "unsubscribe" /\ upstream.link = "open"
  /\ upstream' = [upstream EXCEPT !.confirming = TRUE, !.symbols = @ \ request.symbols]
  /\ provider' = [provider EXCEPT !.acknowledged = @ \ BookChannels]
  /\ request' = NoRequest
  /\ UNCHANGED <<session, ticker, sequence, projected, queue, messages, drops>>

\* The session has ended: the send raises.
SendRaises ==
  /\ upstream.link # "open"
  /\ request' = NoRequest
  /\ UNCHANGED <<provider, upstream, session, ticker, sequence, projected, queue,
                 messages, drops>>

\* subscribe waits for _all_acknowledged after its sends.
MustWait == provider.acknowledged # Channels

\* Faulty variant: the symbols survive the session.
DisconnectKeepsSymbols ==
  /\ provider' = [Offline EXCEPT !.symbols = provider.symbols]
  /\ upstream' = NoSession
  /\ projected' = <<>>
  /\ UNCHANGED <<request, session, ticker, sequence, queue, messages, drops>>

\* disconnect: the reader is cancelled, also while it puts a quote. The queue
\* and the sequence numbers survive.
Disconnect ==
  /\ provider' = Offline
  /\ upstream' = NoSession
  /\ projected' = <<>>
  /\ UNCHANGED <<request, session, ticker, sequence, queue, messages, drops>>

-----------------------------------------------------------------------------
(* _reader_loop; it handles one message at a time *)

Reading == provider.reader = "running" /\ upstream.link = "open" /\ projected = <<>>

\* The channels that a message "subscriptions" of the server lists.
Listed == (IF upstream.heartbeats THEN {"heartbeats"} ELSE {})
            \cup (IF upstream.symbols # {} THEN BookChannels ELSE {})

\* Every channel has been acknowledged once this message is recorded.
Completes == provider.acknowledged \cup Listed = Channels

ReceiveSubscriptions ==
  /\ Reading /\ upstream.confirming
  /\ provider' = [provider EXCEPT !.acknowledged = @ \cup Listed]
  /\ upstream' = [upstream EXCEPT !.confirming = FALSE]
  /\ UNCHANGED <<request, session, ticker, sequence, projected, queue, messages, drops>>

\* _apply_ticker
ReceiveTicker(s) ==
  /\ Reading /\ s \in upstream.symbols
  /\ messages < MaxMessages
  /\ messages' = messages + 1
  /\ ticker' = [ticker EXCEPT ![s] = session]
  /\ UNCHANGED <<provider, upstream, request, session, sequence, projected, queue, drops>>

QuoteOf(s, number) ==
  [symbol |-> s, number |-> number, session |-> session, book |-> ticker[s]]

\* _project_trades of a message with trades of the given symbols. The quotes
\* are built in sorted order; a trade of symbol bad that cannot be normalized
\* rejects the whole message, after the numbers of the symbols before it were
\* used up.
ReceiveTrades(symbols, bad) ==
  LET built == {s \in symbols : \A b \in bad : Rank[s] < Rank[b]}
  IN  /\ Reading
      /\ symbols # {} /\ symbols \subseteq upstream.symbols
      /\ messages < MaxMessages
      /\ messages' = messages + 1
      /\ sequence' = [s \in Symbols |-> IF s \in built THEN sequence[s] + 1 ELSE sequence[s]]
      /\ \E order \in [1..Cardinality(built) -> built] :
           /\ \A i, j \in DOMAIN order : i < j => Rank[order[i]] < Rank[order[j]]
           /\ projected' = IF bad # {} THEN <<>>
                           ELSE [i \in DOMAIN order |-> QuoteOf(order[i], sequence'[order[i]])]
      /\ UNCHANGED <<provider, upstream, request, session, ticker, queue, drops>>

\* Quotes of symbols that are no longer subscribed are skipped; the put waits
\* for room.
PutEvent ==
  /\ provider.reader = "running" /\ projected # <<>>
  /\ \/ /\ Head(projected).symbol \in provider.symbols
        /\ Len(queue) < QueueSize
        /\ queue' = Append(queue, Head(projected))
     \/ /\ Head(projected).symbol \notin provider.symbols
        /\ UNCHANGED queue
  /\ projected' = Tail(projected)
  /\ UNCHANGED <<provider, upstream, request, session, ticker, sequence, messages, drops>>

\* The server ends the session.
LinkCloses ==
  /\ upstream.link = "open"
  /\ drops < MaxDrops
  /\ drops' = drops + 1
  /\ upstream' = [upstream EXCEPT !.link = "closed"]
  /\ UNCHANGED <<provider, request, session, ticker, sequence, projected, queue, messages>>

\* recv raises ConnectionClosed, or times out on a session that stays open.
ReaderEnds ==
  /\ provider.reader = "running" /\ projected = <<>>
  /\ \/ upstream.link = "closed" /\ UNCHANGED drops
     \/ upstream.link = "open" /\ drops < MaxDrops /\ drops' = drops + 1
  /\ provider' = [provider EXCEPT !.reader = "done", !.state = "degraded"]
  /\ UNCHANGED <<upstream, request, session, ticker, sequence, projected, queue, messages>>

\* The steps of the reader and of the server that wake nobody.
ReaderStep ==
  \/ \E s \in Symbols : ReceiveTicker(s)
  \/ \E symbols \in SUBSET Symbols, bad \in SUBSET Symbols :
       /\ bad \subseteq symbols /\ Cardinality(bad) <= 1
       /\ ReceiveTrades(symbols, bad)
  \/ PutEvent \/ LinkCloses \/ ReaderEnds
=============================================================================
